------------------------------- MODULE Driver -------------------------------
(***************************************************************************)
(* The command-line program of Cobain/main.swift as its user sees it: it   *)
(* reads its arguments, runs the stages in order, and ends having shown    *)
(* the output of one of them, an error, or bitcode in result.bc.  How a    *)
(* stage ends is left open.                                                *)
(***************************************************************************)
EXTENDS Sequences, SequencesExt

CONSTANT Files   \* the names that can be opened as a file

VARIABLES
  arguments,   \* of the command line: never changes
  stage,       \* what main is doing, or how the process ended
  shown        \* what it printed or wrote: tokens, ast, ir, error, bitcode

vars == <<arguments, stage, shown>>

Has(flag) == flag \in Range(arguments)

Init == stage = "start" /\ shown = {}

Go(s) == stage' = s /\ UNCHANGED <<arguments, shown>>

\* Leave main, or call exit(0): the status is 0 in either case.
Exit(output) ==
  /\ stage' = "exited"
  /\ shown' = output
  /\ UNCHANGED arguments

\* The first argument is the file, `try!' if it cannot be read.
Start ==
  /\ stage = "start"
  /\ IF arguments = <<>> \/ Head(arguments) \in Files
       THEN Go("lexing")
       ELSE Go("crashed")

EndLexing ==
  /\ stage = "lexing"
  /\ IF Has("-emit-tokens") THEN Exit({"tokens"}) ELSE Go("parsing")

EndParsing ==
  /\ stage = "parsing"
  /\ IF Has("-emit-ast") THEN Exit({"ast"}) ELSE Go("generating")

\* The module is dumped before it is verified and written; generate's result
\* says whether the file could be written, and is not used.
EndGenerating(output) ==
  /\ stage = "generating"
  /\ output \in {{}, {"bitcode"}}
  /\ Exit(output \cup (IF Has("-emit-llvm") THEN {"ir"} ELSE {}))

\* An error of the parser or the generator is caught and printed.
CatchError == stage \in {"parsing", "generating"} /\ Exit({"error"})

\* A fatalError, an overflow, an exhausted memory, an abort of LLVM.
Crash == stage \in {"lexing", "parsing", "generating"} /\ Go("crashed")

EndStage ==
  \/ EndLexing \/ EndParsing \/ CatchError \/ Crash
  \/ \E output \in SUBSET {"bitcode"} : EndGenerating(output)

Next == Start \/ EndStage

Spec == Init /\ [][Next]_vars

\* Of the stages only the parser may go on for ever.
FairSpec ==
  /\ Spec
  /\ WF_vars(Start)
  /\ WF_vars(stage # "parsing" /\ EndStage)

=============================================================================
