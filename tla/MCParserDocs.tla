---------------------------- MODULE MCParserDocs ----------------------------
(***************************************************************************)
(* Programs that the README, the comments and the messages of the source   *)
(* say the parser handles, and that it does not.  A configuration takes    *)
(* one of the sets of inputs below.                                        *)
(***************************************************************************)
EXTENDS Parser

Motif(body) ==
  <<"motif", "identifier", "(", "identifier", ")", "{">> \o body \o <<"}">>

Choice(if, else) ==
  <<"is", "identifier", "<", "number", "?">> \o if \o <<":">> \o else

Operation(op) == <<"identifier", op, "number">>
CallOf(arg)   == <<"identifier", "(">> \o arg \o <<")">>

\* motif f(a) { is a < 1 ? a * 2 : a + 2 }
ConditionalInputs ==
  { Motif(Choice(Operation(op), Operation("+"))) : op \in {"+", "*"} }

\* motif fib(a) { is a < 2 ? a : fib(a - 1) + fib(a - 2) }
FibonacciInputs ==
  LET Recur == CallOf(Operation("-"))
  IN  { Motif(Choice(<<"identifier">>, Recur \o <<"+">> \o Recur)) }

\* f(a, b)
ArgumentInputs ==
  { CallOf(first \o <<",">> \o second) :
    first, second \in { <<"identifier">>, <<"number">> } }

\* motif f(a) { a + b * 2 } extern g(c)
ClimbingInputs ==
  { Motif(<<"identifier", low>> \o Operation("*")) \o <<"extern">> \o CallOf(<<"identifier">>) :
    low \in {"<", "+"} }

\* motif f(a) { a + a - a } and 1 + 1 - 1
ChainInputs ==
  LET chain(operand, first, second) == <<operand, first, operand, second, operand>>
      levels == { {"+", "-"}, {"*", "/"} }
  IN  UNION { UNION { { Motif(chain("identifier", first, second)),
                        chain("number", first, second) } :
                      first, second \in level } : level \in levels }

(* A program written in the documented language is parsed to the end.      *)
ProgramsParse == ~Running => control = "returned"

(* A "," after an argument is one of the two tokens parseIdentifier looks  *)
(* for, as the message it throws says: the next thing it reads is another  *)
(* argument, and the comma itself is not refused.                          *)
CommaContinuesArguments ==
  (control = "threw" /\ Current = ",") =>
    \A i \in DOMAIN stack : stack[i].fn = "argument" => stack[i].kids = <<>>

(* A declaration the parser was given is a declaration in its result: no   *)
(* read inside an expression steps over the keyword that begins it.        *)
DeclarationsSurvive ==
  control = "returned" =>
    \A i \in DOMAIN tokens : tokens[i] \in Keywords =>
      \E n \in DOMAIN nodes : nodes[n].kind = "prototype" /\ nodes[n].at = i + 1

=============================================================================
