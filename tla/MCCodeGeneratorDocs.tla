------------------------- MODULE MCCodeGeneratorDocs -------------------------
(***************************************************************************)
(* Programs that a comment of the source says the code generator handles,  *)
(* and that it does not.                                                   *)
(***************************************************************************)
EXTENDS CodeGenerator, ProgramTrees

\* extern f(a, b)  motif f(b, a) { a }
RedeclaredPrograms ==
  { Program(<< Extern("f", <<"a", "b">>), Motif("f", <<"b", "a">>, <<Var(x)>>) >>) :
    x \in {"a", "b"} }

(* namedValues is used for the arguments of a function inside of its body: *)
(* what a body returns is made of the parameters that its own prototype    *)
(* names.                                                                  *)
BodiesUseTheirPrototype ==
  \A k \in DOMAIN program.trees :
    (Completed(k) /\ Source!HasBody(program, k)) =>
      Returns(Named(functions, Source!NameOf(program, k)))
        = Source!TermsIn(program, k)[Source!Body(program, k)]

=============================================================================
