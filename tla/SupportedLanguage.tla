------------------------- MODULE SupportedLanguage -------------------------
(***************************************************************************)
(* A reference for the parser: programs paired with the trees they mean,   *)
(* generated from a grammar without any notion of a cursor.                *)
(*                                                                         *)
(* The grammar is the part of the README's language the parser supports.   *)
(* It has to tell two kinds of expression apart, by where the parser's     *)
(* cursor stops: a `settled' one on its last token (a number, a name, a    *)
(* call), a `passing' one after it (an operator with its operands).  A     *)
(* condition and a body that more program follows must be passing, the     *)
(* operands and the middle of a conditional settled, a left operand cannot *)
(* be a call with a passing argument, and a nested call or operators of    *)
(* different precedence may only end the program.                          *)
(*                                                                         *)
(* Each operator takes o, the position of the first token, and gives a set *)
(* of phrases: records of the tokens and of the tree (of a program, trees) *)
(* with the positions its parts come from.                                 *)
(***************************************************************************)
EXTENDS Naturals, Sequences

CONSTANTS
  BinaryOperators,   \* the operators of arithmetic phrases
  Names              \* the ways a prototype lists its parameters

Tree(kind, at, kids) == [kind |-> kind, at |-> at, kids |-> kids]
Phrase(text, tree)   == [text |-> text, tree |-> tree]
After(o, p)          == o + Len(p.text)

Value(o) == { Phrase(<<"number">>, Tree("number", o, <<>>)) }
Name(o)  == { Phrase(<<"identifier">>, Tree("variable", o, <<>>)) }
Leaf(o)  == Value(o) \cup Name(o)

Binary(o, ops, Left(_), Right(_)) ==
  UNION { { Phrase(l.text \o <<op>> \o r.text,
                   Tree("binary", After(o, l), <<l.tree, r.tree>>)) :
            r \in Right(After(o, l) + 1), op \in ops } : l \in Left(o) }

Call(o, Argument(_)) ==
  { Phrase(<<"identifier", "(">> \o a.text \o <<")">>, Tree("call", o, <<a.tree>>)) :
    a \in Argument(o + 2) }
  \cup { Phrase(<<"identifier", "(", ")">>, Tree("call", o, <<>>)) }

Simple(o)     == Binary(o, BinaryOperators, Leaf, Leaf)
Calls(o)      == LET Argument(a) == Leaf(a) \cup Simple(a) IN Call(o, Argument)
Settled(o)    == Leaf(o) \cup Calls(o)
Operand(o)    == Leaf(o) \cup Call(o, Leaf)
Passing(o)    == Binary(o, BinaryOperators, Operand, Settled)
Comparison(o) == Binary(o, {"<"}, Name, Value)

Product(o) == Binary(o, {"*"}, Leaf, Leaf)

\* Each operator binds tighter than the one before: they group to the right.
Sum(o)      == Binary(o, {"+"}, Leaf, Product)
Climbing(o) == Sum(o) \cup Binary(o, {"<"}, Leaf, Sum)

Conditional(o, If(_), Else(_)) ==
  UNION { UNION { { Phrase(<<"is">> \o c.text \o <<"?">> \o i.text \o <<":">> \o e.text,
                           Tree("cond", o, <<c.tree, i.tree, e.tree>>)) :
                    e \in Else(After(After(o, c) + 2, i) + 1) } :
                  i \in If(After(o, c) + 2) } : c \in Comparison(o + 1) }

Choice(o)       == LET Else(e) == Binary(e, BinaryOperators, Leaf, Settled)
                   IN  Conditional(o, Leaf, Else)
NestedChoice(o) == Conditional(o, Leaf, Choice)

\* The body of a definition that more program may follow.
Body(o) == Passing(o) \cup Choice(o) \cup NestedChoice(o)

Prototype(o) ==
  { Phrase(<<"identifier", "(">> \o n.text \o <<")">>,
           Tree("prototype", o,
                [i \in DOMAIN n.at |-> Tree("param", o + 1 + n.at[i], <<>>)])) :
    n \in Names }

Extern(o) == { Phrase(<<"extern">> \o p.text, p.tree) : p \in Prototype(o + 1) }

Motif(o, Bodies(_)) ==
  UNION { { Phrase(<<"motif">> \o p.text \o <<"{">> \o b.text \o <<"}">>,
                   Tree("motif", 0, <<p.tree, b.tree>>)) :
            b \in Bodies(After(o + 2, p)) } : p \in Prototype(o + 1) }

EmptyMotif(o) ==
  { Phrase(<<"motif">> \o p.text \o <<"{", "}">>, Tree("motif", 0, <<p.tree>>)) :
    p \in Prototype(o + 1) }

Main(p) == Phrase(p.text, Tree("motif", 0, <<Tree("prototype", 0, <<>>), p.tree>>))

NumberLast(p) == p.text[Len(p.text)] # "identifier"

\* The expression that ends a program: its last token cannot be a name.
LastExpression(o) ==
  { Main(p) : p \in { q \in Passing(o) \cup Climbing(o) : NumberLast(q) }
                    \cup Calls(o) \cup Call(o, Calls) }

\* After a definition it must not begin with an operand and an operator.
LastCall(o) == { Main(p) : p \in Calls(o) \cup Call(o, Calls) }
CallOfCall(o)    == LET Leaves(a) == Call(a, Leaf) IN { Main(p) : p \in Call(o, Leaves) }

Program(trees, text) == [text |-> text, trees |-> trees]

\* Programs of one item, and of a declaration followed by one item.
Programs ==
  LET Single == UNION { Extern(1), Motif(1, Body), Motif(1, Leaf), EmptyMotif(1),
                        Motif(1, Climbing),
                        LastExpression(1) }
      Pairs(First, Second(_)) ==
        UNION { { Program(<<p.tree, q.tree>>, p.text \o q.text) :
                  q \in Second(After(1, p)) } : p \in First }
      Declarations(o) == UNION { Extern(o), Motif(o, Simple), Motif(o, Climbing),
                                 EmptyMotif(o), LastCall(o) }
  IN  { Program(<<p.tree>>, p.text) : p \in Single }
      \cup Pairs(Motif(1, Simple), Declarations)
      \cup Pairs(Motif(1, Choice), CallOfCall)
      \cup Pairs(EmptyMotif(1), Declarations)
      \cup Pairs(Extern(1), LastExpression)
      \cup Pairs(Extern(1), Declarations)

=============================================================================
