------------------------------- MODULE Syntax -------------------------------
(***************************************************************************)
(* The vocabulary the stages of the compiler share: the tokens the lexer   *)
(* hands to the parser, and the nodes of the AST the parser hands to the   *)
(* code generator.                                                         *)
(*                                                                         *)
(* A token is abstracted to what the parser's switches tell apart.  The    *)
(* spelling of an identifier matters only when it is "is", which           *)
(* parseIdentifier singles out, and the value of a number never does.      *)
(***************************************************************************)
EXTENDS Naturals, Sequences

Keywords    == {"motif", "extern"}
Identifiers == {"identifier", "is"}
Operators   == {"<", ">", "+", "-", "*", "/"}

\* .unknown(c): an operator, a bracket or separator the parser looks for, or
\* any other character ("other").
Unknown == Operators \cup {"(", ")", "{", "}", ",", "?", ":", "other"}
Token   == Keywords \cup Identifiers \cup {"number"} \cup Unknown

\* nil where the source has a Token?.
NoToken == "nil"

\* Plausible bug: the comparison operators climb like the additive ones.
FlatPrecedence(c) == IF c \in {"*", "/"} THEN 40 ELSE 20

\* Character.precedence, for the characters that have one.
Precedence(c) ==
  CASE c \in {"<", ">"} -> 10
    [] c \in {"+", "-"} -> 20
    [] c \in {"*", "/"} -> 40

(***************************************************************************)
(* The indirect enum AST is a heap: a sequence of nodes that only grows,   *)
(* in which a child is named by its index and nil by 0.  Every part of a   *)
(* node that the source copies from a token (a name, a number, an          *)
(* operator, a parameter) is kept as the position of that token, and 0     *)
(* where the parser invents it (the name "main").                          *)
(*   number, variable, param  no children (param: one name of a prototype) *)
(*   binary                   <<left, right>>                              *)
(*   call                     the arguments                                *)
(*   cond                     <<condition, if, else>>                      *)
(*   prototype                its params                                   *)
(*   motif                    <<prototype>> or <<prototype, body>>         *)
(***************************************************************************)
NodeKinds == {"number", "variable", "param", "binary", "call", "cond",
              "prototype", "motif"}

Nil == 0

Node(kind, at, kids) == [kind |-> kind, at |-> at, kids |-> kids]

=============================================================================
