-------------------------------- MODULE Lexer --------------------------------
(***************************************************************************)
(* The tokenizer of CobainFramework/Lexer/Lexer.swift: getToken(), one     *)
(* action per way its loops go on or end, and the loop of `tokens' around  *)
(* it.  The stream is a cursor over the text; a token keeps the span of    *)
(* text it was made from, which is what the properties are about.          *)
(*                                                                         *)
(* A character is a member of one of the classes the lexer tells apart.    *)
(* Swift reads a carriage return and a line feed in a row as one           *)
(* Character, which is neither Character.newline nor .carriageReturn: it   *)
(* is a character like any other (Others).                                 *)
(***************************************************************************)
EXTENDS Naturals, Sequences, FiniteSets

CONSTANTS
  Texts,          \* the source texts
  Letters,        \* isAlpha
  Digits,         \* isDigit
  Others,         \* the characters no test singles out
  Motif, Extern,  \* the spellings of the two keywords
  CallLimit       \* the calls of getToken() that the thread's stack holds

Special   == {".", "#", " ", "newline", "return"}
Character == Letters \cup Digits \cup Others \cup Special

\* nil where the source has a Character?: in no class.
NoCharacter == "nil"

ASSUME TextsAssumption == Texts \subseteq Seq(Character)
ASSUME ClassesAreDisjoint ==
  /\ NoCharacter \notin Character
  /\ Letters \cap (Digits \cup Others \cup Special) = {}
  /\ Digits \cap (Others \cup Special) = {}
  /\ Others \cap Special = {}
ASSUME LimitAssumption == CallLimit \in Nat

VARIABLES
  text,     \* the source: never changes
  read,     \* how many of its characters the stream has given out
  mode,     \* the loop getToken() is in, or how the lexer ended
  start,    \* where the identifier or number being read begins
  calls,    \* the calls of getToken() that wait for the one that runs
  tokens    \* the tokens so far: [kind, from, to]

vars == <<text, read, mode, start, calls, tokens>>

Running == mode \notin {"ended", "cut", "overflowed"}

-----------------------------------------------------------------------------
(* The character classes and the stream *)

IsAlphanumeric(c) == c \in Letters \cup Digits

IsDigitOrDot(c) == c \in Digits \cup {"."}

IsNewline(c) == c \in {"newline", "return"}

\* What the lexer skips between tokens.
IsBlank(c) == c \in {" ", "newline"}

AtEnd == read = Len(text)
Stalk == IF AtEnd THEN NoCharacter ELSE text[read + 1]

Word(from, to) == SubSeq(text, from, to)

\* Token(identifier:), once the whole word is known.
WordKind(word) ==
  CASE word = Motif  -> "motif"
    [] word = Extern -> "extern"
    [] OTHER         -> "identifier"

\* What Double(number) accepts of digits and dots: at most one dot, and not
\* the dot alone.
IsNumeral(from, to) ==
  /\ \A i, j \in from .. to : text[i] = "." /\ text[j] = "." => i = j
  /\ ~(from = to /\ text[from] = ".")

-----------------------------------------------------------------------------
(* Actions *)

Fresh ==
  /\ read = 0
  /\ mode = "between"
  /\ start = 0
  /\ calls = 0
  /\ tokens = <<>>

Init == text \in Texts /\ Fresh

\* Consume a character and go on in the loop m.
Consume(m) ==
  /\ read' = read + 1
  /\ mode' = m
  /\ UNCHANGED <<text, tokens>>

\* Plausible bug: the next token is asked for before getToken() returns.
EmitInPlace(kind, from, to) ==
  /\ tokens' = Append(tokens, [kind |-> kind, from |-> from, to |-> to])
  /\ mode' = "between"
  /\ calls' = calls + 1
  /\ UNCHANGED <<text, start>>

\* All the calls return; append a token that ends at `to' and start again.
Emit(kind, from, to) ==
  /\ tokens' = Append(tokens, [kind |-> kind, from |-> from, to |-> to])
  /\ mode' = "between"
  /\ calls' = 0
  /\ UNCHANGED <<text, start>>

Between == mode = "between" /\ calls <= CallLimit

\* A call too many ends the process.
Overflow ==
  /\ mode = "between"
  /\ calls > CallLimit
  /\ mode' = "overflowed"
  /\ UNCHANGED <<text, read, start, calls, tokens>>

SkipBlank ==
  /\ Between
  /\ IsBlank(Stalk)
  /\ Consume("between")
  /\ UNCHANGED <<start, calls>>

\* getToken() returns nil and the list of tokens is complete.
End ==
  /\ Between
  /\ AtEnd
  /\ mode' = "ended"
  /\ UNCHANGED <<text, read, start, calls, tokens>>

BeginIdentifier ==
  /\ Between
  /\ Stalk \in Letters
  /\ Consume("identifier")
  /\ start' = read + 1
  /\ UNCHANGED calls

ExtendIdentifier ==
  /\ mode = "identifier"
  /\ IsAlphanumeric(Stalk)
  /\ Consume("identifier")
  /\ UNCHANGED <<start, calls>>

\* Plausible bug: the word keeps the character that ends it, still unread.
EndIdentifierPast ==
  /\ mode = "identifier"
  /\ ~IsAlphanumeric(Stalk)
  /\ LET to == IF AtEnd THEN read ELSE read + 1
     IN  Emit(WordKind(Word(start, to)), start, to)
  /\ UNCHANGED read

EndIdentifier ==
  /\ mode = "identifier"
  /\ ~IsAlphanumeric(Stalk)
  /\ Emit(WordKind(Word(start, read)), start, read)
  /\ UNCHANGED read

BeginNumber ==
  /\ Between
  /\ IsDigitOrDot(Stalk)
  /\ Consume("number")
  /\ start' = read + 1
  /\ UNCHANGED calls

ExtendNumber ==
  /\ mode = "number"
  /\ IsDigitOrDot(Stalk)
  /\ Consume("number")
  /\ UNCHANGED <<start, calls>>

EndOfNumber == mode = "number" /\ ~IsDigitOrDot(Stalk)

EndNumber ==
  /\ EndOfNumber
  /\ IsNumeral(start, read)
  /\ Emit("number", start, read)
  /\ UNCHANGED read

\* getToken() throws; `tokens' takes the error for the end of the text.
RejectNumber ==
  /\ EndOfNumber
  /\ ~IsNumeral(start, read)
  /\ mode' = "cut"
  /\ UNCHANGED <<text, read, start, calls, tokens>>

BeginComment ==
  /\ Between
  /\ Stalk = "#"
  /\ Consume("comment")
  /\ UNCHANGED <<start, calls>>

\* Consume a character of the comment; after the last one getToken() calls
\* itself.
InCommentUpTo(last) ==
  /\ Consume(IF last THEN "between" ELSE "comment")
  /\ calls' = IF last THEN calls + 1 ELSE calls
  /\ UNCHANGED start

\* Plausible bug: the comment goes on after the last character.
InCommentPastEnd == mode = "comment" /\ InCommentUpTo(IsNewline(Stalk))

\* Plausible bug: only a line feed ends a comment.
InCommentToLineFeed == mode = "comment" /\ ~AtEnd /\ InCommentUpTo(Stalk = "newline")

InComment == mode = "comment" /\ ~AtEnd /\ InCommentUpTo(IsNewline(Stalk))

\* Plausible bug: the loop waits for a line break after the last character.
AwaitNewline ==
  /\ mode = "comment"
  /\ AtEnd
  /\ UNCHANGED vars

\* The text may end in a comment.
EndComment ==
  /\ mode = "comment"
  /\ AtEnd
  /\ mode' = "between"
  /\ calls' = calls + 1
  /\ UNCHANGED <<text, read, start, tokens>>

UnknownCharacter ==
  /\ Between
  /\ Stalk \in Others \cup {"return"}
  /\ read' = read + 1
  /\ Emit("unknown", read + 1, read + 1)

Ended == ~Running /\ UNCHANGED vars

Next ==
  \/ SkipBlank \/ End
  \/ BeginIdentifier \/ ExtendIdentifier \/ EndIdentifier
  \/ BeginNumber \/ ExtendNumber \/ EndNumber \/ RejectNumber
  \/ BeginComment \/ InComment \/ EndComment
  \/ UnknownCharacter \/ Overflow \/ Ended

Spec == Init /\ [][Next]_vars

\* The lexer runs to its end in the thread that asks for the tokens.
FairSpec == Spec /\ WF_vars(Next)

-----------------------------------------------------------------------------
(* Properties *)

TokenKinds == {"motif", "extern", "identifier", "number", "unknown"}

TypeOK ==
  /\ text \in Seq(Character)
  /\ read \in 0 .. Len(text)
  /\ mode \in {"between", "identifier", "number", "comment", "ended", "cut",
              "overflowed"}
  /\ start \in 0 .. read
  /\ calls \in Nat
  /\ tokens \in Seq([kind : TokenKinds, from : Nat, to : Nat])

\* The definition of a comment, by the text alone: a # and what follows it up
\* to and with the first line break.
Commented(p) ==
  \E h \in 1 .. p :
    /\ text[h] = "#"
    /\ \A i \in h .. p - 1 : ~IsNewline(text[i])

Spans(i, p) == tokens[i].from <= p /\ p <= tokens[i].to

\* p belongs to the identifier or number being read.
Pending(p) == mode \in {"identifier", "number", "cut"} /\ start <= p

(* Of the text read so far, the tokens and the lexeme in progress hold     *)
(* every character that is neither blank nor in a comment, and no other:   *)
(* nothing between two lexemes is dropped, no comment becomes code.        *)
TokensAreTheText ==
  \A p \in 1 .. read :
    (\E i \in DOMAIN tokens : Spans(i, p)) \/ Pending(p)
      <=> ~IsBlank(text[p]) /\ ~Commented(p)

(* The tokens come in the order of the text and share no character.        *)
TokensInOrder ==
  \A i, j \in DOMAIN tokens : i < j => tokens[i].to < tokens[j].from

\* The characters from .. to all satisfy Class, and the next one does not.
IsMaximal(from, to, Class(_)) ==
  /\ \A p \in from .. to : Class(text[p])
  /\ to < Len(text) => ~Class(text[to + 1])

(* A word or a number is as long as the text allows: neither is ever split *)
(* in two tokens, and a word never keeps what belongs to the next token.   *)
MaximalMunch ==
  \A i \in DOMAIN tokens :
    LET t == tokens[i] IN
    /\ t.from <= t.to
    /\ t.kind \in {"identifier", "motif", "extern"} => IsMaximal(t.from, t.to, IsAlphanumeric)
    /\ t.kind = "number" => IsMaximal(t.from, t.to, IsDigitOrDot)

LastEnd == IF tokens = <<>> THEN 0 ELSE tokens[Len(tokens)].to

\* The comments that begin after the last token.
CommentsSince ==
  { p \in LastEnd + 1 .. read : text[p] = "#" /\ \A h \in 1 .. p - 1 :
      text[h] = "#" => \E i \in h .. p - 1 : IsNewline(text[i]) }

(* getToken() calls itself after a comment, so its recursion is as deep as *)
(* there are comments with no token between them, and no deeper: blank     *)
(* lines and what comes before the last token do not count.                *)
OverflowOnlyAfterComments ==
  mode = "overflowed" => Cardinality(CommentsSince) > CallLimit

\* p continues a word, by the text alone.
InWord(p) ==
  \E h \in 1 .. p : text[h] \in Letters /\ \A i \in h .. p : IsAlphanumeric(text[i])

InLiteral(p) == IsDigitOrDot(text[p]) /\ ~InWord(p) /\ ~Commented(p)

\* Every literal of the text is a number.
LiteralsAreNumbers ==
  \A from, to \in DOMAIN text :
    /\ \A p \in from .. to : InLiteral(p)
    /\ from <= to
    /\ from > 1 => ~InLiteral(from - 1)
    /\ to < Len(text) => ~InLiteral(to + 1)
    => IsNumeral(from, to)

(* The lexer stops, whatever the text, and it has then read all of it if   *)
(* its literals are numbers.  Only one that is not cuts the text off.      *)
LexerEnds ==
  <>( \/ mode = "ended" /\ AtEnd /\ LiteralsAreNumbers
      \/ mode = "cut" /\ ~LiteralsAreNumbers
      \/ mode = "overflowed" )

=============================================================================
