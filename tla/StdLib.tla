------------------------------- MODULE StdLib -------------------------------
(***************************************************************************)
(* What StdLib.swift puts into the module before any tree is generated:    *)
(* printf, a declaration, and print, which calls it and is verified.       *)
(***************************************************************************)
EXTENDS LLVMModule

Printf == 1
PrintFunction == 2

\* registerPrintf: the one parameter that counts for a call is the format.
PrintfDeclaration == Function("printf", "i32", <<"i8*">>, TRUE)

\* registerPrint: the body calls printf with the format and the parameter.
PrintDefinition ==
  [Function("print", "void", <<"double">>, FALSE) EXCEPT !.blocks = << <<4, 5>> >>]

StdFunctions == <<PrintfDeclaration, PrintDefinition>>

StdValues ==
  ParametersOf(Printf, PrintfDeclaration.params)
  \o ParametersOf(PrintFunction, PrintDefinition.params)
  \o << Constant("format", "i8*", <<>>),
        CallOf(StdFunctions, Printf, <<3, 2>>),
        ReturnOf(<<>>) >>

\* Where registerPrint leaves the builder that the generator goes on with.
StdInsertion == <<PrintFunction, 1>>

=============================================================================
