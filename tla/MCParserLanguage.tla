-------------------------- MODULE MCParserLanguage --------------------------
(***************************************************************************)
(* The parser against the reference of SupportedLanguage.                  *)
(***************************************************************************)
EXTENDS Parser

CONSTANTS BinaryOperators

\* A parameter list, and where in it the names stand.
Names ==
  { [text |-> <<>>, at |-> <<>>],
    [text |-> <<"identifier">>, at |-> <<1>>],
    [text |-> <<"identifier", ",", "identifier">>, at |-> <<1, 3>>] }

Reference == INSTANCE SupportedLanguage

Programs == Reference!Programs
MCInputs == { p.text : p \in Programs }

\* The heap of nodes read back as trees.
TreeOf ==
  LET tree[n \in DOMAIN nodes] ==
        [nodes[n] EXCEPT !.kids = [i \in DOMAIN @ |-> tree[@[i]]]]
  IN tree

Result == [i \in DOMAIN syntaxTree |-> TreeOf[syntaxTree[i]]]

(* Every program of the supported language is parsed to the end, and to    *)
(* the trees the reference gives it: no token is lost, none moves to       *)
(* another function, and the operators group by precedence.                *)
ParsesToReference ==
  <>(control = "returned" /\ [text |-> tokens, trees |-> Result] \in Programs)

=============================================================================
