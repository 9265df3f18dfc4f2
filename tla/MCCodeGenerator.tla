--------------------------- MODULE MCCodeGenerator ---------------------------
(***************************************************************************)
(* Programs for the code generator.  Expressions of every kind, well typed *)
(* or not, as the only body of a program; declarations of every kind, in   *)
(* sequences of three, so that names are taken, redeclared and reused.     *)
(***************************************************************************)
EXTENDS CodeGenerator, ProgramTrees

CONSTANT Binary   \* the operators of the expressions

Leaves     == { One, Var("a"), Var("b") }
Operations(L, R) == { Op(op, l, r) : op \in Binary, l \in L, r \in R }
Calls(Args)      == { Call(f, <<x>>) : f \in {"f", "print", "main", "printf"}, x \in Args }
CallsOfTwo == { Call("f", <<x, Call("f", <<y, x>>)>>) : x \in Leaves, y \in Leaves }

Simple == Operations(Leaves, Leaves) \cup Calls(Leaves) \cup { Call("f", <<>>) }
Values == {One, Var("a"), Call("f", <<Var("a")>>), Op("<", Var("a"), One), Op("<", One, One)}

Conditions == { Op("<", Var("a"), One), Op("<", Call("f", <<Var("a")>>), Call("f", <<One>>)),
                Var("a"), Call("print", <<One>>) }
Branches   == { Var("a"), Op("+", Call("f", <<Var("a")>>), Call("f", <<One>>)),
                Call("print", <<Var("a")>>), Op("<", Var("a"), One),
                Cond(Op("<", Var("a"), One), Var("a"), One) }
Conditionals == { Cond(c, i, e) : c \in Conditions, i \in Branches, e \in Branches }

Bodies ==
  Leaves \cup Simple \cup CallsOfTwo \cup Conditionals
  \cup Operations(Values, Values) \cup Calls(Simple)
  \cup { Op("+", Var("a"), c) : c \in { Cond(Var("a"), One, One),
                                        Cond(Op("<", Var("a"), One), One, One) } }
  \cup Calls({ Cond(Op("<", Var("a"), One), One, One) })

Alone ==
  { << Motif("f", ps, <<body>>) >> :
      ps \in { <<"a">>, <<"a", "b">>, <<"a", "a">> }, body \in Bodies }
  \cup { << Motif("f", <<"a">>, <<Var("a")>>), Main(body) >> : body \in Bodies }

\* Declarations, definitions and expressions that take each other's names.
Items ==
  { Extern("f", <<"a">>), Extern("f", <<"a", "b">>), Extern("g", <<"b">>),
    Motif("f", <<"a">>, <<Var("a")>>),
    Motif("f", <<"b", "a">>, <<Op("-", Var("a"), Var("b"))>>),
    Motif("f", <<"a">>, <<Cond(Op("<", Var("a"), One), Call("g", <<Var("a")>>), One)>>),
    Motif("g", <<"b">>, <<Call("f", <<Var("b")>>)>>),
    Motif("g", <<"b">>, <<Call("f", <<Op("/", Var("a"), Var("b"))>>)>>),
    Motif("f", <<>>, <<>>), Motif("g", <<>>, <<One>>),
    Motif("main", <<"a">>, <<Var("a")>>),
    Motif("printf", <<"a">>, <<Op("+", Var("a"), One)>>),
    Motif("print", <<"a">>, <<>>), Extern("print", <<"a">>),
    Main(Call("print", <<Call("f", <<One>>)>>)),
    Main(Op("+", Call("f", <<One>>), Call("g", <<One>>))),
    Main(Call("print", <<Var("a")>>)), Main(One), Main(Var("b")),
    Main(Call("f", <<One, Call("g", <<>>)>>)) }

MCPrograms ==
  { Program(trees) : trees \in Alone \cup BoundedSeq(Items, 3) }

=============================================================================
