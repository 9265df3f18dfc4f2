---------------------------- MODULE MCPipelineDocs ----------------------------
(***************************************************************************)
(* A file that README.md and the errors of the lexer say is not compiled   *)
(* in part, and that is.                                                   *)
(***************************************************************************)
EXTENDS MCPipeline

\* motif f(a) { a + 1 } 1.2.5 print(1), and the same with 1.5.
LiteralFiles ==
  { MotifText(<<"a", "+", "1">>) \o Text(literal \o <<" ", "print", "(", "1", ")">>) :
    literal \in { <<"1", ".", "2", ".", "5">>, <<"1", ".", "5">> } }

MCLiteralInvocations == Invoke(<<"program">>, LiteralFiles)

(* README.md:74: a source file is compiled.  Bitcode stands for the whole  *)
(* file: what getToken() throws at is not passed over in silence.          *)
WholeFileCompiled ==
  "bitcode" \in shown => \A p \in DOMAIN text :
    \/ Lex!IsBlank(text[p]) \/ Lex!Commented(p)
    \/ \E i \in DOMAIN lexemes : Lex!Spans(i, p)

=============================================================================
