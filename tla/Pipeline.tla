------------------------------ MODULE Pipeline ------------------------------
(***************************************************************************)
(* The compiler from the characters of a file to bitcode: Driver composed  *)
(* with Lexer, Parser and CodeGenerator, each of which runs when the       *)
(* driver has reached its stage, on what the one before it produced.       *)
(*                                                                         *)
(* The stages abstract from different things: a token of the parser is the *)
(* class of a word of the text, and a name of the code generator is what   *)
(* the token at that position spells.                                      *)
(***************************************************************************)
EXTENDS Syntax, SequencesExt

CONSTANTS
  Invocations,                \* [arguments, text]: a command line, and the
                              \* text it names or the default program
  Files,                      \* the names that can be opened
  Letters, Digits, Others,    \* the characters
  Motif, Extern, Is,          \* the words the stages single out
  NameOfWord(_),                 \* the name a word spells
  CallLimit, StackLimit, MemoryLimit

VARIABLES
  arguments, stage, shown,                               \* main
  text, read, mode, start, calls, lexemes,               \* Lexer
  pos, parserControl, parserStack, value, nodes, syntaxTree,   \* Parser
  next, control, stack, values, functions, insertion,    \* CodeGenerator
  namedValues, currentFunction, currentBB, shouldReturn

main      == <<arguments, stage, shown>>
lexer     == <<text, read, mode, start, calls, lexemes>>
parser    == <<pos, parserControl, parserStack, value, nodes, syntaxTree>>
generator == <<next, control, stack, values, functions, insertion,
               namedValues, currentFunction, currentBB, shouldReturn>>
vars      == <<main, lexer, parser, generator>>

-----------------------------------------------------------------------------
(* What a stage hands to the next *)

WordOf(t) == SubSeq(text, t.from, t.to)

\* Token, as the parser's switches tell tokens apart.
ClassOf(t) ==
  CASE t.kind = "identifier" /\ WordOf(t) = Is -> "is"
    [] t.kind = "unknown" ->
         IF text[t.from] \in Unknown THEN text[t.from] ELSE "other"
    [] OTHER -> t.kind

TokenList == [i \in DOMAIN lexemes |-> ClassOf(lexemes[i])]

\* What a node copies from its token, and the name it is given without one.
Spelled(node) ==
  CASE node.at = 0           -> "main"
    [] node.kind = "number"  -> "number"
    [] node.kind = "binary"  -> text[lexemes[node.at].from]
    [] OTHER                 -> NameOfWord(WordOf(lexemes[node.at]))

Program ==
  [nodes |-> [n \in DOMAIN nodes |->
                [kind |-> nodes[n].kind, name |-> Spelled(nodes[n]), kids |-> nodes[n].kids]],
   trees |-> syntaxTree]

Main == INSTANCE Driver

Lex == INSTANCE Lexer WITH Texts <- {}, tokens <- lexemes

Parse == INSTANCE Parser WITH
  Inputs <- {}, tokens <- TokenList, control <- parserControl, stack <- parserStack

Generate == INSTANCE CodeGenerator WITH Programs <- {}, program <- Program

ASSUME CharactersAssumption ==
  /\ Lex!NoCharacter \notin Lex!Character
  /\ Letters \cap (Digits \cup Others \cup Lex!Special) = {}
  /\ Digits \cap (Others \cup Lex!Special) = {}
  /\ Others \cap Lex!Special = {}

ASSUME LimitsAssumption == CallLimit \in Nat /\ StackLimit \in Nat /\ MemoryLimit \in Nat

ASSUME InvocationsAssumption == \A i \in Invocations : i.text \in Seq(Lex!Character)

\* So the literals are; the provers have to be told.
ASSUME StringsAssumption == Operators \cup {"main", "number"} \subseteq STRING

\* LLVM renames a function with a character no word has.
ASSUME NamesAssumption ==
  \A i \in Invocations : \A from \in 1 .. Len(i.text) : \A to \in from .. Len(i.text) :
    (\A p \in from .. to : Lex!IsAlphanumeric(i.text[p]))
      => NameOfWord(SubSeq(i.text, from, to)) \in STRING \ {Generate!Renamed}

-----------------------------------------------------------------------------

Init ==
  /\ \E i \in Invocations : arguments = i.arguments /\ text = i.text
  /\ Main!Init
  /\ Lex!Fresh
  /\ Parse!Fresh
  /\ Generate!Fresh

Start == Main!Start /\ UNCHANGED <<lexer, parser, generator>>

RunLexer ==
  /\ stage = "lexing" /\ Lex!Running
  /\ Lex!Next
  /\ UNCHANGED <<main, parser, generator>>

\* `tokens' is complete, and does not tell whether the text is.
EndLexing ==
  /\ CASE mode \in {"ended", "cut"} -> Main!EndLexing
       [] OTHER -> ~Lex!Running /\ stage = "lexing" /\ Main!Crash
  /\ UNCHANGED <<lexer, parser, generator>>

RunParser ==
  /\ stage = "parsing" /\ Parse!Running
  /\ UNCHANGED <<main, lexer, generator>>
  /\ Parse!Next

EndParsing ==
  /\ CASE parserControl = "returned" -> Main!EndParsing
       [] parserControl = "threw"    -> stage = "parsing" /\ Main!CatchError
       [] OTHER -> ~Parse!Running /\ stage = "parsing" /\ Main!Crash
  /\ UNCHANGED <<lexer, parser, generator>>

RunGenerator ==
  /\ stage = "generating" /\ control = "generating"
  /\ UNCHANGED <<main, lexer, parser>>
  /\ Generate!Next

EndGenerating ==
  /\ stage = "generating"
  /\ CASE control = "written"   -> Main!EndGenerating({"bitcode"})
       [] control = "unwritten" -> Main!EndGenerating({})
       [] control = "threw"     -> Main!CatchError
       [] control = "aborted"   -> Main!Crash
       [] OTHER                 -> FALSE
  /\ UNCHANGED <<lexer, parser, generator>>

Exited == stage \in {"exited", "crashed"} /\ UNCHANGED vars

Next ==
  \/ Start \/ RunLexer \/ EndLexing \/ RunParser \/ EndParsing
  \/ RunGenerator \/ EndGenerating \/ Exited

Spec == Init /\ [][Next]_vars

\* One process, one thread.
FairSpec == Spec /\ WF_vars(Next)

-----------------------------------------------------------------------------
(* Properties *)

(* What the parser returns is what the code generator takes for granted,   *)
(* whatever the text: the children of a node are there and have the kinds  *)
(* that the case for the node expects, and every root is a definition or a *)
(* declaration, so a conditional always stands in a motif.                 *)
ParserFeedsGenerator == stage = "generating" => Generate!Generatable(Program)

(* The compiler is the program its user sees: a stage runs after the one   *)
(* before it, what is shown fits how it ended, and unless the parser spins *)
(* the process ends.                                                       *)
ImplementsDriver == Main!FairSpec

=============================================================================
