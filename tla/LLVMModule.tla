----------------------------- MODULE LLVMModule -----------------------------
(***************************************************************************)
(* The module of LLVM IR that the code generator fills through the C API,  *)
(* as far as the generator can tell: the functions, their blocks of        *)
(* instructions, and what makes the verifier abort the process.  The       *)
(* builder is inline code of the headers under LLVM/include; the verifier  *)
(* and the symbol table are modelled from how the generator uses them.     *)
(*                                                                         *)
(* A value is named by its place in the sequence of the values created so  *)
(* far, a function by its place in the module, a block by a pair           *)
(* <<function, index>>.  The module and the values are arguments of the    *)
(* operators here: the state belongs to the generator.                     *)
(***************************************************************************)
EXTENDS Naturals, Sequences, SequencesExt

Types       == {"double", "i1", "i32", "i8*", "void"}
Arithmetic  == {"+", "-", "*", "/"}
Terminators == {"ret", "br"}

\* of: what a value is beyond its operands.
\*   param  <<function, index>>       number   <<the literal's node>>
\*   call   <<the callee>>            br       <<if-block, else-block>>
Value(op, type, args, of, constant) ==
  [op |-> op, type |-> type, args |-> args, of |-> of, constant |-> constant]

Constant(op, type, of)          == Value(op, type, <<>>, of, TRUE)
Instruction(op, type, args, of) == Value(op, type, args, of, FALSE)

-----------------------------------------------------------------------------
(* Functions and blocks *)

Function(name, result, params, vararg) ==
  [name |-> name, result |-> result, params |-> params, vararg |-> vararg,
   blocks |-> <<>>]

\* LLVMGetParams: the values of the parameters of function f.
ParametersOf(f, types) ==
  [i \in DOMAIN types |-> Instruction("param", types[i], <<>>, <<f, i>>)]

NoFunction == 0

\* LLVMGetNamedFunction.
Named(fs, name) ==
  IF \E f \in DOMAIN fs : fs[f].name = name
    THEN CHOOSE f \in DOMAIN fs : fs[f].name = name
    ELSE NoFunction

\* LLVMAddFunction never fails.  It gives a name that is taken a suffix with
\* a dot, which no identifier of a program contains.
Renamed == "(renamed)"
UniqueName(fs, name) == IF Named(fs, name) = NoFunction THEN name ELSE Renamed

AddFunction(fs, name, result, params) ==
  Append(fs, Function(UniqueName(fs, name), result, params, FALSE))

AppendBlock(fs, f) == [fs EXCEPT ![f].blocks = Append(@, <<>>)]

\* Plausible bug: blocks are counted from zero.
LastBlockFromZero(fs, f) == <<f, Len(fs[f].blocks) - 1>>

LastBlock(fs, f) == <<f, Len(fs[f].blocks)>>

\* IRBuilder inserts at the end of the block it was last positioned at.
InsertInto(fs, block, v) ==
  [fs EXCEPT ![block[1]].blocks[block[2]] = Append(@, v)]

-----------------------------------------------------------------------------
(* Instructions *)

\* Two constants are folded: the result is a constant, and in no block.
Operation(vs, op, l, r) ==
  Value(op, IF op = "<" THEN "i1" ELSE vs[l].type, <<l, r>>, <<>>,
        vs[l].constant /\ vs[r].constant)

CallOf(fs, f, args) == Instruction("call", fs[f].result, args, <<f>>)

\* Plausible bug: the blocks change places.
BranchSwapped(c, blocks) == Instruction("br", "void", <<c>>, Reverse(blocks))

Branch(c, blocks) == Instruction("br", "void", <<c>>, blocks)

\* args: empty for a null value, which makes a `ret void'.
ReturnOf(args) == Instruction("ret", "void", args, <<>>)

\* What the constructors assert (in builds of LLVM that have assertions) and
\* the verifier requires of the operands.
WellTyped(fs, vs, v) ==
  LET type == [i \in DOMAIN v.args |-> vs[v.args[i]].type] IN
  CASE v.op \in Arithmetic \cup {"<"} -> type = <<"double", "double">>
    [] v.op = "br"   -> type = <<"i1">>
    [] v.op = "call" ->
         LET callee == fs[v.of[1]] IN
         IF callee.vararg THEN IsPrefix(callee.params, type)
                          ELSE callee.params = type
    [] OTHER -> TRUE

-----------------------------------------------------------------------------
(* The verifier *)

\* Every function uses its own parameters only.
OwnParameters(vs, f, v) ==
  \A i \in DOMAIN v.args : vs[v.args[i]].op = "param" => vs[v.args[i]].of[1] = f

ReturnsResult(fs, vs, f, v) ==
  v.op = "ret" =>
    IF fs[f].result = "void"
      THEN v.args = <<>>
      ELSE v.args # <<>> /\ fs[f].result = vs[v.args[1]].type

InstructionVerified(fs, vs, f, v) ==
  WellTyped(fs, vs, v) /\ OwnParameters(vs, f, v) /\ ReturnsResult(fs, vs, f, v)

\* A block ends with its only terminator.
BlockVerified(fs, vs, f, block) ==
  /\ block # <<>>
  /\ \A i \in DOMAIN block :
       /\ vs[block[i]].op \in Terminators <=> i = Len(block)
       /\ InstructionVerified(fs, vs, f, vs[block[i]])

\* LLVMVerifyFunction: a function without blocks is a declaration.
Verified(fs, vs, f) ==
  \A b \in DOMAIN fs[f].blocks : BlockVerified(fs, vs, f, fs[f].blocks[b])

=============================================================================
