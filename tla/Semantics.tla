------------------------------ MODULE Semantics ------------------------------
(***************************************************************************)
(* A reference for the code generator: which programs have a meaning, and  *)
(* what each body means, by the AST alone.  A name belongs to the          *)
(* parameters of the prototype it stands under, a call to the first        *)
(* declaration of its callee, and an expression has a type; there is no    *)
(* module, no builder and no field.                                        *)
(*                                                                         *)
(* A program p is a record [nodes, trees]: a heap of nodes                 *)
(* [kind, name, kids] and the roots of its top-level items.                *)
(***************************************************************************)
EXTENDS Naturals, Sequences, FiniteSets, SequencesExt

Library == {"print", "printf"}

IsMotif(p, k)  == p.nodes[p.trees[k]].kind = "motif"
Proto(p, k)    == IF IsMotif(p, k) THEN p.nodes[p.trees[k]].kids[1] ELSE p.trees[k]
NameOf(p, k)   == p.nodes[Proto(p, k)].name
ParamsOf(p, k) == LET kids == p.nodes[Proto(p, k)].kids
                  IN  [i \in DOMAIN kids |-> p.nodes[kids[i]].name]
HasBody(p, k)  == IsMotif(p, k) /\ Len(p.nodes[p.trees[k]].kids) = 2
Body(p, k)     == p.nodes[p.trees[k]].kids[2]

\* A top-level expression: the body of a main without parameters.
IsExpression(p, k) == IsMotif(p, k) /\ NameOf(p, k) = "main" /\ ParamsOf(p, k) = <<>>

\* No tree before k has its name, and the library does not.
IsFresh(p, k) ==
  NameOf(p, k) \notin Library \cup { NameOf(p, j) : j \in 1 .. k - 1 }

\* Every name is declared once; there may be any number of expressions.
DeclaredOnce(p) ==
  \A k \in DOMAIN p.trees :
    \/ IsFresh(p, k)
    \/ /\ IsExpression(p, k)
       /\ \A j \in 1 .. k - 1 : NameOf(p, j) = "main" => IsExpression(p, j)

-----------------------------------------------------------------------------
(* Types *)

\* What tree k may call: the library, itself and the trees before it.
Callable(p, k) == Library \cup { NameOf(p, j) : j \in 1 .. k }

ArityOf(p, name) ==
  IF name \in Library THEN 1
  ELSE Len(ParamsOf(p, CHOOSE k \in DOMAIN p.trees :
                         NameOf(p, k) = name /\ IsFresh(p, k)))

\* print has no result, main and printf have an integer.
ResultOf(name) ==
  CASE name = "print"             -> "void"
    [] name \in {"main", "printf"} -> "i32"
    [] OTHER                      -> "double"

\* The type of node n under tree k, whose kids are of these types; "none"
\* where it has no meaning.
TypeOf(p, k, n, types) ==
  LET node    == p.nodes[n]
      doubles == \A i \in DOMAIN types : types[i] = "double"
  IN
  CASE node.kind = "number" -> "double"
    [] node.kind = "variable" ->
         IF node.name \in Range(ParamsOf(p, k)) THEN "double" ELSE "none"
    [] node.kind = "binary" /\ doubles ->
         CASE node.name \in {"+", "-", "*", "/"} -> "double"
           [] node.name = "<"                    -> "i1"
           [] OTHER                              -> "none"
    [] node.kind = "call" /\ doubles ->
         IF /\ node.name \in Callable(p, k) \ {"printf"}
            /\ ArityOf(p, node.name) = Len(node.kids)
           THEN ResultOf(node.name)
           ELSE "none"
    [] OTHER -> "none"

TypesIn(p, k) ==
  LET type[n \in DOMAIN p.nodes] ==
        LET kids == p.nodes[n].kids
        IN  TypeOf(p, k, n, [i \in DOMAIN kids |-> type[kids[i]]])
  IN type

\* A motif returns a double, or one of two by a condition; main returns 0
\* whatever the type of its body.
HasMeaning(p, k) ==
  IF ~IsMotif(p, k) THEN TRUE
  ELSE IF ~HasBody(p, k) THEN NameOf(p, k) = "main"
  ELSE LET type == TypesIn(p, k)
           body == p.nodes[Body(p, k)]
       IN  IF NameOf(p, k) = "main" THEN type[Body(p, k)] # "none"
           ELSE \/ type[Body(p, k)] = "double"
                \/ /\ body.kind = "cond"
                   /\ [i \in 1 .. 3 |-> type[body.kids[i]]] = <<"i1", "double", "double">>

WellFormed(p) == \A k \in DOMAIN p.trees : HasMeaning(p, k)

\* A top-level expression after the first that is only a parameter of the
\* last declaration before it.
StaleVariable(p, k) ==
  /\ IsExpression(p, k) /\ HasBody(p, k) /\ ~IsFresh(p, k)
  /\ p.nodes[Body(p, k)].kind = "variable"
  /\ p.nodes[Body(p, k)].name \in
       Range(ParamsOf(p, Max({ j \in 1 .. k - 1 : IsFresh(p, j) })))

\* Which nodes LLVM evaluates when the program is compiled.
Constants(p) ==
  LET constant[n \in DOMAIN p.nodes] ==
        \/ p.nodes[n].kind = "number"
        \/ p.nodes[n].kind = "binary" /\ \A m \in Range(p.nodes[n].kids) : constant[m]
  IN constant

\* An operation on constants one of which is no number: their types are not
\* checked.
MixesConstants(p) ==
  \E n \in DOMAIN p.nodes :
    /\ p.nodes[n].kind = "binary" /\ Constants(p)[n]
    /\ \E m \in Range(p.nodes[n].kids) : p.nodes[m].name = "<"

-----------------------------------------------------------------------------
(* Meaning *)

Term(op, of, args) == [op |-> op, of |-> of, args |-> args]

\* Node n as a tree, with the parameters by number.
TermOf(p, k, n, args) ==
  LET node == p.nodes[n] IN
  CASE node.kind = "number"   -> Term("number", <<n>>, <<>>)
    [] node.kind = "variable" ->
         Term("param", <<Max({ i \in DOMAIN ParamsOf(p, k) :
                               ParamsOf(p, k)[i] = node.name })>>, <<>>)
    [] node.kind = "binary"   -> Term(node.name, <<>>, args)
    [] node.kind = "call"     -> Term("call", <<node.name>>, args)
    [] node.kind = "cond"     -> Term("cond", <<>>, args)

TermsIn(p, k) ==
  LET term[n \in DOMAIN p.nodes] ==
        LET kids == p.nodes[n].kids
        IN  TermOf(p, k, n, [i \in DOMAIN kids |-> term[kids[i]]])
  IN term

\* The calls below a node, as terms, in the order they are made: arguments
\* and left operands first.
CallsIn(p, k) ==
  LET terms == TermsIn(p, k)
      calls[n \in DOMAIN p.nodes] ==
        FlattenSeq([i \in DOMAIN p.nodes[n].kids |-> calls[p.nodes[n].kids[i]]])
        \o IF p.nodes[n].kind = "call" THEN <<terms[n]>> ELSE <<>>
  IN calls

=============================================================================
