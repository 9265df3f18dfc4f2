---------------------------- MODULE CodeGenerator ----------------------------
(***************************************************************************)
(* The code generator of CobainFramework/Codegen/LLVMCodeGenerator.swift:  *)
(* generate() and the recursive getValue(for:), one action per way a case  *)
(* of its switch goes on between two calls of itself.                      *)
(*                                                                         *)
(* The trees become instructions in the order of the walk, and what a case *)
(* does depends on fields that another case, or another tree, has set:     *)
(* where the builder stands, whose parameters namedValues holds, whether   *)
(* the motif still has to return.                                          *)
(***************************************************************************)
EXTENDS StdLib, AST

CONSTANT Programs   \* what the parser may hand over: [nodes, trees]

\* What generate() takes for granted: the trees are complete, and a child is
\* a node of its own.  A name is an identifier.
Generatable(p) ==
  /\ p.nodes \in Seq([kind : ExpressionKinds \cup {"param", "prototype", "motif"},
                      name : STRING \ {Renamed}, kids : Seq(Nat)])
  /\ p.trees \in Seq(DOMAIN p.nodes)
  /\ \A n \in DOMAIN p.nodes : \A i \in DOMAIN p.nodes[n].kids :
       p.nodes[n].kids[i] \in 1 .. n - 1
  /\ CompleteTrees(p.nodes, p.trees)

ASSUME ProgramsAssumption == \A p \in Programs : Generatable(p)

VARIABLES
  program,          \* the AST: a heap of nodes, and the roots; never changes
  next,             \* the tree generate() comes to next
  control,          \* "generating", or how the generator ended
  stack,            \* the calls of getValue in progress, the innermost last
  values,           \* the LLVM values created so far
  functions,        \* the LLVM module
  insertion,        \* the block the builder appends to
  namedValues,      \* names to parameters
  currentFunction,
  currentBB,
  shouldReturn

fields == <<namedValues, currentFunction, currentBB, shouldReturn>>
module == <<values, functions, insertion>>
vars   == <<program, next, control, stack, module, fields>>

Outcomes == {"written", "unwritten", "threw", "aborted"}

-----------------------------------------------------------------------------
(* Calls of getValue and their returns *)

nodes == program.nodes

\* got: the values the calls made so far returned; of: the callee of a call,
\* the blocks of a cond, the function and the block of a motif.
Frame(node) == [node |-> node, got |-> <<>>, of |-> <<>>]

Top       == Last(stack)
TopNode   == nodes[Top.node]
Got(i)    == Top.got[i]
With(of)  == Append(Front(stack), [Top EXCEPT !.of = of])

\* s, and a call of getValue for the child k of the innermost one.
Visit(s, k) == Append(s, Frame(TopNode.kids[k]))

\* The innermost call returns v.
Returned(v) ==
  LET rest == Front(stack) IN
  IF rest = <<>> THEN <<>>
                 ELSE Append(Front(rest), [Last(rest) EXCEPT !.got = Append(@, v)])

\* getValue is at a node of this kind and has the values of n children.
At(kind, n) ==
  /\ control = "generating" /\ stack # <<>>
  /\ TopNode.kind = kind
  /\ Len(Top.got) = n

\* An error is thrown, or LLVM aborts the process: all stays as it is.
Halt(outcome) ==
  /\ control' = outcome
  /\ UNCHANGED <<program, next, stack, module, fields>>

\* Return a new value that is in no block.
Yield(v) ==
  /\ values' = Append(values, v)
  /\ stack' = Returned(Len(values) + 1)
  /\ UNCHANGED <<program, next, control, functions, insertion, fields>>

\* Return a new instruction, appended where the builder stands.
Emit(v) ==
  /\ values' = Append(values, v)
  /\ functions' = InsertInto(functions, insertion, Len(values) + 1)
  /\ stack' = Returned(Len(values) + 1)
  /\ UNCHANGED <<program, next, control, insertion, fields>>

\* An LLVM with assertions aborts at an operand of the wrong type; one
\* without them goes on.
EmitChecked(v) ==
  \/ ~WellTyped(functions, values, v) /\ Halt("aborted")
  \/ IF v.constant THEN Yield(v) ELSE Emit(v)

-----------------------------------------------------------------------------
(* generate() *)

Fresh ==
  /\ next = 1
  /\ control = "generating"
  /\ stack = <<>>
  /\ values = StdValues
  /\ functions = StdFunctions
  /\ insertion = StdInsertion
  /\ namedValues = <<>>
  /\ currentFunction = NoFunction
  /\ currentBB = <<>>
  /\ shouldReturn = TRUE

Init == program \in Programs /\ Fresh

Between == control = "generating" /\ stack = <<>>

BeginTree ==
  /\ Between
  /\ next <= Len(program.trees)
  /\ next' = next + 1
  /\ stack' = <<Frame(program.trees[next])>>
  /\ UNCHANGED <<program, control, module, fields>>

\* The status of LLVMWriteBitcodeToFile is returned, and dropped by main.
Write ==
  /\ Between
  /\ next > Len(program.trees)
  /\ IF \A f \in DOMAIN functions : Verified(functions, values, f)
       THEN Halt("written") \/ Halt("unwritten")
       ELSE Halt("aborted")

-----------------------------------------------------------------------------
(* number, variable, binary, call *)

Number ==
  /\ At("number", 0)
  /\ Yield(Constant("number", "double", <<Top.node>>))

Variable ==
  /\ At("variable", 0)
  /\ TopNode.name \in DOMAIN namedValues
  /\ stack' = Returned(namedValues[TopNode.name])
  /\ UNCHANGED <<program, next, control, module, fields>>

UnknownVariable ==
  /\ At("variable", 0)
  /\ TopNode.name \notin DOMAIN namedValues
  /\ Halt("threw")

\* Plausible bug: the right operand is generated first.
OperandBackwards ==
  /\ \/ At("binary", 0) /\ stack' = Visit(stack, 2)
     \/ At("binary", 1) /\ stack' = Visit(stack, 1)
  /\ UNCHANGED <<program, next, control, module, fields>>

Operand ==
  /\ \/ At("binary", 0) /\ stack' = Visit(stack, 1)
     \/ At("binary", 1) /\ stack' = Visit(stack, 2)
  /\ UNCHANGED <<program, next, control, module, fields>>

\* Plausible bug: every other operator is taken for the last of the switch.
AnyOperation ==
  /\ At("binary", 2)
  /\ EmitChecked(Operation(values, TopNode.name, Got(1), Got(2)))

BinaryOperation ==
  /\ At("binary", 2)
  /\ TopNode.name \in Arithmetic \cup {"<"}
  /\ EmitChecked(Operation(values, TopNode.name, Got(1), Got(2)))

\* The operands are generated before the operator is looked at.
UnknownOperator ==
  /\ At("binary", 2)
  /\ TopNode.name \notin Arithmetic \cup {"<"}
  /\ Halt("threw")

\* Plausible bug: too many arguments are let through.
BeginCallWithoutArity ==
  /\ At("call", 0) /\ Top.of = <<>>
  /\ LET f == Named(functions, TopNode.name) IN
     IF f # NoFunction /\ Len(functions[f].params) <= Len(TopNode.kids)
       THEN /\ stack' = With(<<f>>)
            /\ UNCHANGED <<program, next, control, module, fields>>
       ELSE Halt("threw")

\* The callee and its arity are settled before the arguments are generated.
BeginCall ==
  /\ At("call", 0) /\ Top.of = <<>>
  /\ LET f == Named(functions, TopNode.name) IN
     IF f # NoFunction /\ Len(functions[f].params) = Len(TopNode.kids)
       THEN /\ stack' = With(<<f>>)
            /\ UNCHANGED <<program, next, control, module, fields>>
       ELSE Halt("threw")

InCall == At("call", Len(Top.got)) /\ Top.of # <<>>

Argument ==
  /\ InCall
  /\ Len(Top.got) < Len(TopNode.kids)
  /\ stack' = Visit(stack, Len(Top.got) + 1)
  /\ UNCHANGED <<program, next, control, module, fields>>

BuildCall ==
  /\ InCall
  /\ Len(Top.got) = Len(TopNode.kids)
  /\ EmitChecked(CallOf(functions, Top.of[1], Top.got))

-----------------------------------------------------------------------------
(* prototype, motif *)

NamesOf(proto) == [i \in DOMAIN nodes[proto].kids |-> nodes[nodes[proto].kids[i]].name]
TypesOf(proto) == [i \in DOMAIN nodes[proto].kids |-> "double"]

\* The case .prototype: the module with one function more, ...
Declared(proto) ==
  AddFunction(functions, nodes[proto].name,
              IF nodes[proto].name = "main" THEN "i32" ELSE "double", TypesOf(proto))

\* Plausible bug: the names of the function before stay.
AddParameters(proto) ==
  LET names == NamesOf(proto)
      new   == [x \in Range(names) |-> Len(values) + Max({ i \in DOMAIN names : names[i] = x })]
  IN
  /\ values' = values \o ParametersOf(Len(functions) + 1, TypesOf(proto))
  /\ namedValues' = [x \in DOMAIN new \cup DOMAIN namedValues |->
                       IF x \in DOMAIN new THEN new[x] ELSE namedValues[x]]

\* ... and the only place where namedValues changes.  Of two parameters with
\* one name the last is kept.
BindParameters(proto) ==
  LET names == NamesOf(proto) IN
  /\ values' = values \o ParametersOf(Len(functions) + 1, TypesOf(proto))
  /\ namedValues' =
       [x \in Range(names) |-> Len(values) + Max({ i \in DOMAIN names : names[i] = x })]

Prototype ==
  /\ At("prototype", 0)
  /\ functions' = Declared(Top.node)
  /\ BindParameters(Top.node)
  /\ stack' = Returned(Len(functions) + 1)
  /\ UNCHANGED <<program, next, control, insertion, currentFunction, currentBB, shouldReturn>>

\* Enter function f of the module fs: a new block, and the body if it has one.
EnterMotif(fs, f) ==
  LET block == LastBlock(functions', f)
      call  == With(block)
  IN
  /\ functions' = AppendBlock(fs, f)
  /\ currentFunction' = f
  /\ currentBB' = block
  /\ insertion' = block
  /\ stack' = IF Len(TopNode.kids) = 1 THEN call ELSE Visit(call, 2)
  /\ UNCHANGED <<program, next, control, shouldReturn>>

MotifName == nodes[TopNode.kids[1]].name

BeginMotif ==
  /\ At("motif", 0) /\ Top.of = <<>>
  /\ Named(functions, MotifName) = NoFunction
  /\ BindParameters(TopNode.kids[1])
  /\ EnterMotif(Declared(TopNode.kids[1]), Len(functions) + 1)

\* The name is taken, by whatever function: the prototype is skipped.
BeginKnownMotif ==
  /\ At("motif", 0) /\ Top.of = <<>>
  /\ Named(functions, MotifName) # NoFunction
  /\ EnterMotif(functions, Named(functions, MotifName))
  /\ UNCHANGED <<values, namedValues>>

\* What the motif adds to its block: main returns 0, whatever its body is.
Epilogue ==
  IF MotifName = "main"
    THEN << Constant("zero", "i32", <<>>), ReturnOf(<<Len(values) + 1>>) >>
    ELSE IF shouldReturn THEN << ReturnOf(Top.got) >> ELSE <<>>

\* Plausible bug: the flag of a conditional outlives its motif.
ResetFunction == currentFunction' = NoFunction /\ currentBB' = <<>> /\ UNCHANGED shouldReturn

Reset == currentFunction' = NoFunction /\ currentBB' = <<>> /\ shouldReturn' = TRUE

EndMotif ==
  /\ \E n \in {0, 1} : At("motif", n)
  /\ Top.of # <<>> /\ Len(Top.got) = Len(TopNode.kids) - 1
  /\ LET vs == values \o Epilogue
         fs == IF Epilogue = <<>> THEN functions
                                  ELSE InsertInto(functions, Top.of, Len(vs))
     IN
     IF Verified(fs, vs, Top.of[1])
       THEN /\ values' = vs
            /\ functions' = fs
            /\ insertion' = Top.of
            /\ Reset
            /\ stack' = Returned(Top.of[1])
            /\ UNCHANGED <<program, next, control, namedValues>>
       ELSE Halt("aborted")

-----------------------------------------------------------------------------
(* cond: a block for each branch, which returns, and the branch in the      *)
(* block of the motif.                                                      *)

\* Append a block to the current function and generate the child k into it.
GenerateInto(fs, k) ==
  LET block == LastBlock(functions', currentFunction) IN
  /\ functions' = AppendBlock(fs, currentFunction)
  /\ insertion' = block
  /\ stack' = Visit(With(Append(Top.of, block[2])), k)
  /\ UNCHANGED <<program, next, control, fields>>

BeginIf ==
  /\ At("cond", 0)
  /\ GenerateInto(functions, 2)
  /\ UNCHANGED values

\* The builder may no longer be in the block: an inner cond has moved it.
WithReturn(v) == values' = Append(values, ReturnOf(<<v>>))

BeginElse ==
  /\ At("cond", 1)
  /\ WithReturn(Got(1))
  /\ GenerateInto(InsertInto(functions, insertion, Len(values) + 1), 3)

\* Plausible bug: the builder stays in the block of the else-branch.
BeginConditionInPlace ==
  /\ At("cond", 2)
  /\ WithReturn(Got(2))
  /\ functions' = InsertInto(functions, insertion, Len(values) + 1)
  /\ shouldReturn' = FALSE
  /\ stack' = Visit(stack, 1)
  /\ UNCHANGED <<program, next, control, insertion, namedValues, currentFunction, currentBB>>

BeginCondition ==
  /\ At("cond", 2)
  /\ WithReturn(Got(2))
  /\ functions' = InsertInto(functions, insertion, Len(values) + 1)
  /\ shouldReturn' = FALSE
  /\ insertion' = currentBB
  /\ stack' = Visit(stack, 1)
  /\ UNCHANGED <<program, next, control, namedValues, currentFunction, currentBB>>

BuildBranch ==
  /\ At("cond", 3)
  /\ EmitChecked(Branch(Got(3), Top.of))

-----------------------------------------------------------------------------

Generate == BeginTree \/ Write

GetValue ==
  \/ Number \/ Variable \/ UnknownVariable
  \/ Operand \/ BinaryOperation \/ UnknownOperator
  \/ BeginCall \/ Argument \/ BuildCall
  \/ Prototype \/ BeginMotif \/ BeginKnownMotif \/ EndMotif
  \/ BeginIf \/ BeginElse \/ BeginCondition \/ BuildBranch

Ended == control \in Outcomes /\ UNCHANGED vars

Next == Generate \/ GetValue \/ Ended

Spec == Init /\ [][Next]_vars

\* One thread generates the code, and LLVM is a library in its process.
FairSpec == Spec /\ WF_vars(Next)

-----------------------------------------------------------------------------
(* Properties *)

Source == INSTANCE Semantics

Opcodes == {"param", "number", "zero", "format", "call", "ret", "br", "<"} \cup Arithmetic

Value_ == [op : Opcodes, type : Types, args : Seq(Nat), of : Seq(Nat), constant : BOOLEAN]

TypeOK ==
  /\ next \in 1 .. Len(program.trees) + 1
  /\ control \in Outcomes \cup {"generating"}
  /\ stack \in Seq([node : DOMAIN nodes, got : Seq(Nat), of : Seq(Nat)])
  /\ values \in Seq(Value_)
  /\ \A v \in DOMAIN values : \A i \in DOMAIN values[v].args :
       values[v].args[i] \in 1 .. v - 1
  /\ \A f \in DOMAIN functions : \A b \in DOMAIN functions[f].blocks :
       functions[f].blocks[b] \in Seq(DOMAIN values)
  /\ \A x \in DOMAIN namedValues : namedValues[x] \in DOMAIN values
  /\ \A at \in {insertion} \cup ({currentBB} \ {<<>>}) :
       at[1] \in DOMAIN functions /\ at[2] \in DOMAIN functions[at[1]].blocks
  /\ currentFunction \in {NoFunction} \cup DOMAIN functions
  /\ shouldReturn \in BOOLEAN

Instructions(f) ==
  UNION { Range(functions[f].blocks[b]) : b \in DOMAIN functions[f].blocks }

(* The arity is compared before the arguments are generated, and those may *)
(* be calls themselves: still, an instruction that calls a function of the *)
(* module has as many arguments as that function has parameters.  Only the *)
(* library calls printf with more.                                         *)
ArityRespected ==
  \A f \in DOMAIN functions \ {PrintFunction} : \A v \in Instructions(f) :
    values[v].op = "call" =>
      Len(values[v].args) = Len(functions[values[v].of[1]].params)

(* namedValues is stale in a motif whose name is taken.  An instruction    *)
(* that uses a parameter of another function is in such a motif, of a      *)
(* function declared before the other: by an extern, by a motif that has   *)
(* a block already, or by the library (printf has none).  In a motif that  *)
(* declares its name, every variable is one of its own parameters.         *)
ScopeRespected ==
  \A f \in DOMAIN functions : \A v \in Instructions(f) :
    \A i \in DOMAIN values[v].args :
      LET arg == values[values[v].args[i]] IN
      (arg.op = "param" /\ arg.of[1] # f) =>
        /\ f < arg.of[1]
        /\ \/ Len(functions[f].blocks) > 1 \/ f = Printf
           \/ \E k \in 1 .. next - 1 : ~Source!IsMotif(program, k)
                                       /\ Source!NameOf(program, k) = functions[f].name

Completed(k) == k < next - 1 \/ (k = next - 1 /\ stack = <<>>)

(* Whatever a tree set on its way, the next one starts from fields without *)
(* a trace of it, in a module that LLVM accepts: what is generated later   *)
(* never breaks a function that was verified, and the verification of the  *)
(* whole module cannot fail.                                               *)
CleanBetweenTrees ==
  Between =>
    /\ currentFunction = NoFunction /\ currentBB = <<>> /\ shouldReturn
    /\ \A f \in DOMAIN functions : Verified(functions, values, f)

\* The values read back as terms.
TermOf(value, args) ==
  CASE value.op = "param" -> Source!Term("param", <<value.of[2]>>, <<>>)
    [] value.op = "call"  -> Source!Term("call", <<functions[value.of[1]].name>>, args)
    [] OTHER              -> Source!Term(value.op, value.of, args)

Terms ==
  LET term[v \in DOMAIN values] ==
        LET args == values[v].args
        IN  TermOf(values[v], [i \in DOMAIN args |-> term[args[i]]])
  IN term

\* What function f returns: the terminator of its first block decides.
Returns(f) ==
  LET blocks    == functions[f].blocks
      end(b)    == values[Last(blocks[b])]
      result(b) == Terms[end(b).args[1]]
  IN IF end(1).op = "br"
       THEN Source!Term("cond", <<>>, <<result(1), result(end(1).of[1]), result(end(1).of[2])>>)
       ELSE result(1)

(* The code of a motif that declares its name returns what its body says:  *)
(* the operations, in their nesting, on the parameters of its prototype,   *)
(* with the branches of a conditional where they belong.                   *)
MeaningPreserved ==
  \A k \in DOMAIN program.trees :
    (Completed(k) /\ Source!IsMotif(program, k) /\ Source!IsFresh(program, k)
      /\ Source!NameOf(program, k) # "main")
    => Returns(Named(functions, Source!NameOf(program, k)))
         = Source!TermsIn(program, k)[Source!Body(program, k)]

\* The calls of a block, as terms.
CallsOf(f, b) ==
  LET block == functions[f].blocks[b]
  IN  FlattenSeq([i \in DOMAIN block |->
        IF values[block[i]].op = "call" THEN <<Terms[block[i]]>> ELSE <<>>])

(* The calls of a body are made once each, in the order of the source, in  *)
(* its own block, and those of the branches of a conditional in the block  *)
(* of the branch.  The n-th expression at top level fills the n-th block   *)
(* of main (and only the first is ever entered).                           *)
EffectsInOrder ==
  \A k \in DOMAIN program.trees :
    (Completed(k) /\ Source!HasBody(program, k)
      /\ \/ Source!IsFresh(program, k)
         \/ Source!NameOf(program, k) = "main" /\ Source!DeclaredOnce(program))
    =>
    LET f     == Named(functions, Source!NameOf(program, k))
        block == Cardinality({ j \in 1 .. k : Source!IsMotif(program, j)
                               /\ Source!NameOf(program, j) = Source!NameOf(program, k) })
        body  == Source!Body(program, k)
        calls == Source!CallsIn(program, k)
    IN IF nodes[body].kind = "cond"
         THEN LET end == values[Last(functions[f].blocks[block])] IN
              /\ CallsOf(f, block) = calls[nodes[body].kids[1]]
              /\ CallsOf(f, end.of[1]) = calls[nodes[body].kids[2]]
              /\ CallsOf(f, end.of[2]) = calls[nodes[body].kids[3]]
         ELSE CallsOf(f, block) = calls[body]

Compiled == control \in {"written", "unwritten"}

(* Bitcode is produced only for a program that has a meaning, with two     *)
(* exceptions: an operation on constants, which LLVM may fold without a    *)
(* check, and a top-level expression that is nothing but a variable of a   *)
(* declaration before it, which namedValues still holds and no instruction *)
(* uses.                                                                   *)
RejectsIllFormed ==
  (Compiled /\ Source!DeclaredOnce(program)) =>
    \/ Source!MixesConstants(program)
    \/ \A k \in DOMAIN program.trees :
         Source!HasMeaning(program, k) \/ Source!StaleVariable(program, k)

(* Every program with a meaning is compiled: the generator gets to the end *)
(* and neither refuses it nor hands LLVM something it aborts at.           *)
AcceptsWellFormed ==
  (Source!DeclaredOnce(program) /\ Source!WellFormed(program)) ~> Compiled

=============================================================================
