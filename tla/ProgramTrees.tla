----------------------------- MODULE ProgramTrees -----------------------------
(***************************************************************************)
(* Programs written as trees, and the heap of nodes that stands for them   *)
(* in the code generator.                                                  *)
(***************************************************************************)
EXTENDS Naturals, Sequences, SequencesExt

AST(kind, name, kids) == [kind |-> kind, name |-> name, kids |-> kids]

One            == AST("number", "1", <<>>)
Var(x)         == AST("variable", x, <<>>)
Op(op, l, r)   == AST("binary", op, <<l, r>>)
Call(f, args)  == AST("call", f, args)
Cond(c, i, e)  == AST("cond", "is", <<c, i, e>>)
Extern(f, ps)  == AST("prototype", f, [i \in DOMAIN ps |-> AST("param", ps[i], <<>>)])
Motif(f, ps, body) == AST("motif", "", <<Extern(f, ps)>> \o body)
Main(body)     == Motif("main", <<>>, <<body>>)

-----------------------------------------------------------------------------
(* The trees of a program as a heap *)

RECURSIVE Heap(_, _)
Heap(heap, tree) ==
  LET inner == FoldLeft(LAMBDA acc, kid :
                          LET h == Heap(acc.heap, kid)
                          IN  [heap |-> h, kids |-> Append(acc.kids, Len(h))],
                        [heap |-> heap, kids |-> <<>>], tree.kids)
  IN Append(inner.heap, [tree EXCEPT !.kids = inner.kids])

Program(trees) ==
  LET heaps == FoldLeft(LAMBDA acc, tree :
                          LET h == Heap(acc.nodes, tree)
                          IN  [nodes |-> h, trees |-> Append(acc.trees, Len(h))],
                        [nodes |-> <<>>, trees |-> <<>>], trees)
  IN heaps

=============================================================================
