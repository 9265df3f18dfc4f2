------------------------------ MODULE MCParser ------------------------------
(***************************************************************************)
(* Inputs for the parser: every short token sequence, and longer ones cut  *)
(* to reach the code that short ones cannot: prototypes with several       *)
(* parameters, bodies followed by more program, conditionals, operators    *)
(* and arguments.                                                          *)
(***************************************************************************)
EXTENDS Parser

CONSTANTS
  Alphabet,     \* the tokens of the short inputs
  MaxLength,    \* and their length
  Fragments     \* the tokens of the parts that vary in the longer ones

Short == BoundedSeq(Alphabet, MaxLength)

Parameters == { <<>>, <<"identifier">>, <<"identifier", ",", "identifier">> }

Tails == { <<>>,
           <<"identifier", "(", "number", ")">>,
           <<"number", "+", "number">>,
           <<"extern", "identifier", "(", "identifier", ")">>,
           <<"identifier", "(", "identifier", "(", "number", ")", ")">> }

Definitions ==
  { <<"motif", "identifier", "(">> \o p \o <<")", "{">> \o body \o <<"}">> \o tail :
    p \in Parameters, body \in BoundedSeq(Fragments, 3), tail \in Tails }

Expressions == BoundedSeq(Fragments, 2) \cup { <<"number", "*", "identifier">> }

Conditionals ==
  { <<"is", "identifier", "<", "number", "?">> \o then \o <<":">> \o else \o rest :
    then \in Expressions, else \in Expressions, rest \in { <<>>, <<"}">> } }

Operations == { s \o <<"number">> : s \in BoundedSeq({"number", "<", "+", "*"}, 5) }

Calls ==
  { <<"identifier", "(">> \o s : s \in BoundedSeq({"identifier", "number", "+", ",", "(", ")"}, 4) }

MCInputs == Short \cup Definitions \cup Conditionals \cup Operations \cup Calls

\* Room for two calls a token, and for two more.
ASSUME RoomAssumption == \A t \in Inputs : 2 * (Len(t) + 1) <= StackLimit

=============================================================================
