-------------------------------- MODULE AST --------------------------------
(***************************************************************************)
(* Which trees the cases of the enum AST are meant for.  The enum lets any *)
(* case hold any other, and an array of any length; that the trees are of  *)
(* this shape is up to the parser, and the code generator relies on it.    *)
(*                                                                         *)
(* The trees are drawn in a heap h of nodes [kind, kids, ...].             *)
(***************************************************************************)
EXTENDS Naturals, Sequences

ExpressionKinds == {"number", "variable", "binary", "call", "cond"}

\* The kinds of the children a node of this kind may have.
KidsOf(kind) ==
  CASE kind = "prototype"             -> {"param"}
    [] kind \in {"number", "variable", "param"} -> {}
    [] OTHER                          -> ExpressionKinds

\* A cond or an operation has all of its parts, a motif begins with its
\* prototype, and only expressions are below an expression.
IsComplete(h, node) ==
  /\ \A i \in DOMAIN node.kids :
       IF node.kind = "motif" /\ i = 1
         THEN h[node.kids[i]].kind = "prototype"
         ELSE h[node.kids[i]].kind \in KidsOf(node.kind)
  /\ node.kind = "binary" => Len(node.kids) = 2
  /\ node.kind = "cond"   => Len(node.kids) = 3
  /\ node.kind = "motif"  => Len(node.kids) \in {1, 2}

\* The roots are declarations and definitions: a conditional stands in a motif.
CompleteTrees(h, roots) ==
  /\ \A n \in DOMAIN h : IsComplete(h, h[n])
  /\ \A k \in DOMAIN roots : h[roots[k]].kind \in {"prototype", "motif"}

=============================================================================
