----------------------------- MODULE LexerProofs -----------------------------
(***************************************************************************)
(* The lexer's safety properties for every text and every alphabet.        *)
(*                                                                         *)
(* LexerInv adds to the properties what relates the loop getToken() is in  *)
(* to the text it has read: the lexeme in progress lies after every token, *)
(* is made of characters of its class, and the lexer is in the comment     *)
(* loop exactly while a comment is open at the cursor.  CallsInv counts    *)
(* the calls that wait by the comments that begin after the last token.    *)
(***************************************************************************)
EXTENDS Lexer, FiniteSetTheorems, TLAPS

\* The text leaves a comment open after its first r characters.
OpenAfter(r) ==
  \E h \in 1 .. r : text[h] = "#" /\ \A i \in h .. r : ~IsNewline(text[i])

InLexeme == mode \in {"identifier", "number", "cut"}

LexemeInv ==
  /\ InLexeme => 1 <= start
  /\ mode = "identifier" => \A p \in start .. read : IsAlphanumeric(text[p])
  /\ mode \in {"number", "cut"} => \A p \in start .. read : IsDigitOrDot(text[p])

TokensInv ==
  \A i \in DOMAIN tokens :
    /\ 1 <= tokens[i].from /\ tokens[i].from <= tokens[i].to
    /\ tokens[i].to <= read
    /\ InLexeme => tokens[i].to < start

CommentInv ==
  /\ mode = "comment" => OpenAfter(read)
  /\ OpenAfter(read) => mode = "comment" \/ AtEnd

LexerInv ==
  /\ TypeOK
  /\ LexemeInv
  /\ TokensInv
  /\ CommentInv
  /\ TokensInOrder
  /\ MaximalMunch
  /\ TokensAreTheText

-----------------------------------------------------------------------------
(* Facts about the operators *)

\* A character that is there is in a class, and the end of the text in none.
LEMMA StalkIsNext ==
  ASSUME TypeOK, Stalk # NoCharacter
  PROVE  ~AtEnd /\ read + 1 \in 1 .. Len(text) /\ Stalk = text[read + 1]
  BY DEF TypeOK, Stalk, AtEnd, NoCharacter

LEMMA TokenType ==
  ASSUME TypeOK, NEW i \in DOMAIN tokens
  PROVE  tokens[i].from \in Nat /\ tokens[i].to \in Nat /\ tokens[i].kind \in TokenKinds
<1> DEFINE T == [kind : TokenKinds, from : Nat, to : Nat]
<1>1. tokens \in Seq(T)
  BY DEF TypeOK
<1>2. tokens[i] \in T
  <2> HIDE DEF T
  <2> QED  BY <1>1
<1> QED  BY <1>2

LEMMA WordKinds ==
  ASSUME NEW w PROVE WordKind(w) \in {"motif", "extern", "identifier"}
  BY DEF WordKind

\* A character is in a comment when one is open before it or it opens one.
LEMMA CommentedIff ==
  ASSUME NEW p \in Nat \ {0}
  PROVE  Commented(p) <=> OpenAfter(p - 1) \/ text[p] = "#"
<1>1. ASSUME Commented(p) PROVE OpenAfter(p - 1) \/ text[p] = "#"
  <2>1. PICK h \in 1 .. p : text[h] = "#" /\ \A i \in h .. p - 1 : ~IsNewline(text[i])
    BY <1>1 DEF Commented
  <2>2. CASE h = p  BY <2>1, <2>2
  <2>3. CASE h # p
    <3>1. h \in 1 .. p - 1  BY <2>3
    <3> QED  BY <3>1, <2>1 DEF OpenAfter
  <2> QED  BY <2>2, <2>3
<1>2. ASSUME OpenAfter(p - 1) PROVE Commented(p)
  <2>1. PICK h \in 1 .. p - 1 :
          text[h] = "#" /\ \A i \in h .. p - 1 : ~IsNewline(text[i])
    BY <1>2 DEF OpenAfter
  <2>2. h \in 1 .. p  OBVIOUS
  <2> QED  BY <2>1, <2>2 DEF Commented
<1>3. ASSUME text[p] = "#" PROVE Commented(p)
  <2>1. p \in 1 .. p /\ \A i \in p .. p - 1 : ~IsNewline(text[i])  OBVIOUS
  <2> QED  BY <2>1, <1>3 DEF Commented
<1> QED  BY <1>1, <1>2, <1>3

\* How a comment is opened, goes on and is closed by the next character.
LEMMA OpenAfterNext ==
  ASSUME NEW p \in Nat \ {0}
  PROVE  OpenAfter(p) <=> (OpenAfter(p - 1) \/ text[p] = "#") /\ ~IsNewline(text[p])
<1>1. ASSUME OpenAfter(p)
      PROVE  (OpenAfter(p - 1) \/ text[p] = "#") /\ ~IsNewline(text[p])
  <2>1. PICK h \in 1 .. p : text[h] = "#" /\ \A i \in h .. p : ~IsNewline(text[i])
    BY <1>1 DEF OpenAfter
  <2>2. ~IsNewline(text[p])  BY <2>1
  <2>3. CASE h = p  BY <2>1, <2>2, <2>3
  <2>4. CASE h # p
    <3>1. h \in 1 .. p - 1  BY <2>4
    <3>2. \A i \in h .. p - 1 : i \in h .. p  OBVIOUS
    <3> QED  BY <3>1, <3>2, <2>1, <2>2 DEF OpenAfter
  <2> QED  BY <2>3, <2>4
<1>2. ASSUME OpenAfter(p - 1), ~IsNewline(text[p]) PROVE OpenAfter(p)
  <2>1. PICK h \in 1 .. p - 1 :
          text[h] = "#" /\ \A i \in h .. p - 1 : ~IsNewline(text[i])
    BY <1>2 DEF OpenAfter
  <2>2. h \in 1 .. p /\ \A i \in h .. p : i \in h .. p - 1 \/ i = p  OBVIOUS
  <2> QED  BY <2>1, <2>2, <1>2 DEF OpenAfter
<1>3. ASSUME text[p] = "#", ~IsNewline(text[p]) PROVE OpenAfter(p)
  <2>1. p \in 1 .. p /\ \A i \in p .. p : i = p  OBVIOUS
  <2> QED  BY <2>1, <1>3 DEF OpenAfter
<1> QED  BY <1>1, <1>2, <1>3

-----------------------------------------------------------------------------
(* What the steps that consume one character have in common *)

\* The tokens stay as they are; the character is held unless it is a blank or
\* in a comment.
LEMMA OneMoreCharacter ==
  ASSUME LexerInv, ~AtEnd,
         read' = read + 1, UNCHANGED <<text, tokens>>,
         \A p \in 1 .. read : Pending(p)' <=> Pending(p),
         \A p : p = read + 1 => (Pending(p)' <=> ~IsBlank(Stalk) /\ ~Commented(p))
  PROVE  TokensInOrder' /\ MaximalMunch' /\ TokensAreTheText'
<1>1. read \in Nat /\ Stalk = text[read + 1]
  BY DEF LexerInv, TypeOK, Stalk
<1>2. TokensInOrder'  BY DEF LexerInv, TokensInOrder
<1>3. MaximalMunch'
  BY DEF LexerInv, MaximalMunch, IsMaximal, IsAlphanumeric, IsDigitOrDot
<1>4. ASSUME NEW p \in 1 .. read + 1
      PROVE  (\E i \in DOMAIN tokens : Spans(i, p)) \/ Pending(p)'
               <=> ~IsBlank(text[p]) /\ ~Commented(p)
  <2>1. CASE p \in 1 .. read
    BY <2>1 DEF LexerInv, TokensAreTheText
  <2>2. CASE p = read + 1
    <3>1. ASSUME NEW i \in DOMAIN tokens PROVE ~Spans(i, p)
      <4>1. tokens[i].to <= read /\ tokens[i].to \in Nat
        BY TokenType DEF LexerInv, TokensInv
      <4> QED  BY <1>1, <2>2, <4>1 DEF Spans
    <3> QED  BY <1>1, <2>2, <3>1
  <2> QED  BY <1>1, <2>1, <2>2
<1>5. TokensAreTheText'
  BY <1>1, <1>4 DEF TokensAreTheText, Spans, Commented
<1> QED  BY <1>2, <1>3, <1>5

\* A token made of the lexeme in progress takes over what was pending.
LEMMA LexemeBecomesToken ==
  ASSUME LexerInv, mode \in {"identifier", "number"},
         NEW kind \in TokenKinds, Emit(kind, start, read), UNCHANGED read,
         kind \in {"identifier", "motif", "extern"} => IsMaximal(start, read, IsAlphanumeric),
         kind = "number" => IsMaximal(start, read, IsDigitOrDot)
  PROVE  LexerInv'
<1> DEFINE t == [kind |-> kind, from |-> start, to |-> read]
<1>1. /\ t \in [kind : TokenKinds, from : Nat, to : Nat]
      /\ 1 <= start /\ start <= read /\ read \in Nat /\ start \in Nat
  BY DEF LexerInv, TypeOK, LexemeInv, InLexeme
<1>2. /\ tokens' = Append(tokens, t) /\ mode' = "between" /\ calls' = 0
      /\ UNCHANGED <<text, start, read>>
  BY DEF Emit
<1>3. TypeOK'  BY <1>1, <1>2 DEF LexerInv, TypeOK
<1>4. LexemeInv'  BY <1>2 DEF LexemeInv, InLexeme
<1>5. /\ DOMAIN tokens' = DOMAIN tokens \cup {Len(tokens) + 1}
      /\ \A i \in DOMAIN tokens : tokens'[i] = tokens[i] /\ i < Len(tokens) + 1
      /\ tokens'[Len(tokens) + 1] = t
  BY <1>1, <1>2 DEF LexerInv, TypeOK
<1>6. TokensInv'  BY <1>1, <1>2, <1>5 DEF LexerInv, TokensInv, InLexeme
<1>7. CommentInv'  BY <1>2 DEF LexerInv, CommentInv, OpenAfter, AtEnd
<1>8. \A i \in DOMAIN tokens : tokens[i].to < start
  BY DEF LexerInv, TokensInv, InLexeme
<1>9. TokensInOrder'
  BY <1>5, <1>8 DEF LexerInv, TypeOK, TokensInOrder
<1>10. MaximalMunch'
  BY <1>1, <1>2, <1>5 DEF LexerInv, MaximalMunch, IsMaximal, IsAlphanumeric, IsDigitOrDot
<1>11. TokensAreTheText'
  <2>1. ASSUME NEW p \in 1 .. read
        PROVE  (\E i \in DOMAIN tokens : Spans(i, p)) \/ Pending(p)
                 <=> (\E i \in DOMAIN tokens' : Spans(i, p)')
    <3>1. Pending(p) <=> start <= p /\ p <= read
      BY DEF Pending
    <3>2. \A i \in DOMAIN tokens' : Spans(i, p)'
            <=> (i \in DOMAIN tokens /\ Spans(i, p))
                  \/ (i = Len(tokens) + 1 /\ start <= p /\ p <= read)
      BY <1>5 DEF Spans
    <3> QED  BY <1>5, <3>1, <3>2
  <2>2. \A p : ~Pending(p)'  BY <1>2 DEF Pending
  <2> QED  BY <1>2, <2>1, <2>2 DEF LexerInv, TokensAreTheText, Commented
<1> QED  BY <1>3, <1>4, <1>6, <1>7, <1>9, <1>10, <1>11 DEF LexerInv

-----------------------------------------------------------------------------
(* One lemma per action *)

\* An uncommented position that is consumed: what CommentInv says of it.
LEMMA NextIsCommented ==
  ASSUME LexerInv, ~AtEnd
  PROVE  /\ read \in Nat /\ Stalk = text[read + 1]
         /\ mode = "comment" <=> OpenAfter(read)
         /\ Commented(read + 1) <=> mode = "comment" \/ Stalk = "#"
         /\ OpenAfter(read + 1) <=>
              (mode = "comment" \/ Stalk = "#") /\ ~IsNewline(Stalk)
<1>1. read \in Nat /\ Stalk = text[read + 1]
  BY DEF LexerInv, TypeOK, Stalk
<1>2. mode = "comment" <=> OpenAfter(read)
  BY DEF LexerInv, CommentInv
<1>3. read + 1 \in Nat \ {0} /\ read + 1 - 1 = read
  BY <1>1
<1> QED  BY <1>1, <1>2, <1>3, CommentedIff, OpenAfterNext

\* What Stalk is in the classes the guards test.
LEMMA Classes ==
  /\ ~IsBlank("#") /\ ~IsNewline("#")
  /\ \A c : c \in Letters \/ IsAlphanumeric(c) \/ IsDigitOrDot(c) \/ c \in Others \cup {"return"}
            => c # "#" /\ ~IsBlank(c) /\ c # NoCharacter
  /\ \A c : c \in Letters => IsAlphanumeric(c)
  /\ \A c : IsBlank(c) => c # "#" /\ c # NoCharacter
  BY ClassesAreDisjoint DEF IsBlank, IsNewline, IsAlphanumeric, IsDigitOrDot,
     NoCharacter, Character, Special

\* Between lexemes a character that belongs to none is consumed.
LEMMA SkipBlankStep ==
  ASSUME LexerInv, SkipBlank PROVE LexerInv'
<1>1. ~AtEnd /\ IsBlank(Stalk) /\ mode = "between"
  BY StalkIsNext, Classes DEF SkipBlank, Between, LexerInv
<1>2. /\ read' = read + 1 /\ mode' = "between"
      /\ UNCHANGED <<text, start, calls, tokens>>
  BY DEF SkipBlank, Consume
<1>3. TypeOK' /\ LexemeInv' /\ TokensInv'
  BY <1>1, <1>2, TokenType DEF LexerInv, TypeOK, LexemeInv, TokensInv, InLexeme, AtEnd
<1>4. CommentInv'
  BY <1>1, <1>2, NextIsCommented, Classes DEF LexerInv, CommentInv, OpenAfter
<1>5. TokensInOrder' /\ MaximalMunch' /\ TokensAreTheText'
  <2>1. \A p : ~Pending(p) /\ ~Pending(p)'
    BY <1>1, <1>2 DEF Pending
  <2> QED  BY <1>1, <1>2, <2>1, OneMoreCharacter
<1> QED  BY <1>3, <1>4, <1>5 DEF LexerInv

LEMMA BeginLexemeStep ==
  ASSUME LexerInv, BeginIdentifier \/ BeginNumber PROVE LexerInv'
<1>1. /\ ~AtEnd /\ mode = "between"
      /\ ~IsBlank(Stalk) /\ Stalk # "#"
      /\ mode' = "identifier" => IsAlphanumeric(Stalk)
      /\ mode' = "number" => IsDigitOrDot(Stalk)
  BY StalkIsNext, Classes DEF BeginIdentifier, BeginNumber, Between, Consume, LexerInv
<1>2. /\ read' = read + 1 /\ start' = read + 1 /\ mode' \in {"identifier", "number"}
      /\ UNCHANGED <<text, calls, tokens>>
  BY DEF BeginIdentifier, BeginNumber, Consume
<1>3. TypeOK' /\ TokensInv'
  BY <1>1, <1>2, TokenType DEF LexerInv, TypeOK, TokensInv, InLexeme, AtEnd
<1>4. LexemeInv'
  BY <1>1, <1>2, NextIsCommented
  DEF LexerInv, LexemeInv, InLexeme, IsAlphanumeric, IsDigitOrDot
<1>5. CommentInv'
  BY <1>1, <1>2, NextIsCommented DEF LexerInv, CommentInv, OpenAfter
<1>6. TokensInOrder' /\ MaximalMunch' /\ TokensAreTheText'
  <2>1. \A p \in 1 .. read : ~Pending(p) /\ ~Pending(p)'
    BY <1>1, <1>2, NextIsCommented DEF Pending
  <2>2. \A p : p = read + 1 => Pending(p)'
    BY <1>2, NextIsCommented, <1>1 DEF Pending
  <2> QED  BY <1>1, <1>2, <2>1, <2>2, NextIsCommented, OneMoreCharacter
<1> QED  BY <1>3, <1>4, <1>5, <1>6 DEF LexerInv

LEMMA ExtendLexemeStep ==
  ASSUME LexerInv, ExtendIdentifier \/ ExtendNumber PROVE LexerInv'
<1>1. /\ ~AtEnd /\ mode \in {"identifier", "number"}
      /\ ~IsBlank(Stalk) /\ Stalk # "#"
      /\ mode = "identifier" => IsAlphanumeric(Stalk)
      /\ mode = "number" => IsDigitOrDot(Stalk)
  BY StalkIsNext, Classes DEF ExtendIdentifier, ExtendNumber, Consume, LexerInv
<1>2. /\ read' = read + 1 /\ UNCHANGED <<text, mode, start, calls, tokens>>
  BY DEF ExtendIdentifier, ExtendNumber, Consume
<1>3. TypeOK' /\ TokensInv'
  BY <1>1, <1>2, TokenType DEF LexerInv, TypeOK, TokensInv, InLexeme, AtEnd
<1>4. LexemeInv'
  <2>1. start \in Nat /\ read \in Nat /\ Stalk = text[read + 1]
    BY <1>1, NextIsCommented DEF LexerInv, TypeOK
  <2>2. \A p \in start .. read + 1 : p \in start .. read \/ p = read + 1
    BY <2>1
  <2> QED  BY <1>1, <1>2, <2>1, <2>2
           DEF LexerInv, LexemeInv, InLexeme, IsAlphanumeric, IsDigitOrDot
<1>5. CommentInv'
  BY <1>1, <1>2, NextIsCommented DEF LexerInv, CommentInv, OpenAfter
<1>6. TokensInOrder' /\ MaximalMunch' /\ TokensAreTheText'
  <2>1. \A p \in 1 .. read : Pending(p)' <=> Pending(p)
    BY <1>2 DEF Pending
  <2>2. \A p : p = read + 1 => Pending(p)'
    BY <1>1, <1>2 DEF Pending, LexerInv, TypeOK
  <2> QED  BY <1>1, <1>2, <2>1, <2>2, NextIsCommented, OneMoreCharacter
<1> QED  BY <1>3, <1>4, <1>5, <1>6 DEF LexerInv

LEMMA CommentStep ==
  ASSUME LexerInv, BeginComment \/ InComment PROVE LexerInv'
<1>1. /\ ~AtEnd /\ mode \in {"between", "comment"}
      /\ mode = "comment" \/ Stalk = "#"
      /\ mode' = (IF IsNewline(Stalk) THEN "between" ELSE "comment")
  BY StalkIsNext, Classes
  DEF BeginComment, InComment, InCommentUpTo, Between, Consume, LexerInv, NoCharacter
<1>2. /\ read' = read + 1 /\ calls' \in {calls, calls + 1}
      /\ UNCHANGED <<text, start, tokens>>
  BY DEF BeginComment, InComment, InCommentUpTo, Consume
<1>3. TypeOK' /\ LexemeInv' /\ TokensInv'
  BY <1>1, <1>2, TokenType DEF LexerInv, TypeOK, LexemeInv, TokensInv, InLexeme, AtEnd
<1>4. CommentInv'
  BY <1>1, <1>2, NextIsCommented DEF LexerInv, CommentInv, OpenAfter
<1>5. TokensInOrder' /\ MaximalMunch' /\ TokensAreTheText'
  <2>1. \A p : ~Pending(p) /\ ~Pending(p)'
    BY <1>1, <1>2 DEF Pending
  <2> QED  BY <1>1, <1>2, <2>1, NextIsCommented, OneMoreCharacter
<1> QED  BY <1>3, <1>4, <1>5 DEF LexerInv

LEMMA EndLexemeStep ==
  ASSUME LexerInv, EndIdentifier \/ EndNumber PROVE LexerInv'
<1>1. TypeOK /\ LexemeInv  BY DEF LexerInv
<1>2. \A i \in {read + 1} : read < Len(text) => Stalk = text[i]
  BY <1>1 DEF TypeOK, Stalk, AtEnd
<1>3. CASE EndIdentifier
  <2>1. IsMaximal(start, read, IsAlphanumeric)
    BY <1>1, <1>2, <1>3 DEF EndIdentifier, LexemeInv, IsMaximal
  <2>2. WordKind(Word(start, read)) \in {"motif", "extern", "identifier"}
    BY WordKinds
  <2> QED  BY <1>3, <2>1, <2>2, LexemeBecomesToken DEF EndIdentifier, TokenKinds
<1>4. CASE EndNumber
  <2>1. IsMaximal(start, read, IsDigitOrDot)
    BY <1>1, <1>2, <1>4 DEF EndNumber, EndOfNumber, LexemeInv, IsMaximal
  <2> QED  BY <1>4, <2>1, LexemeBecomesToken DEF EndNumber, EndOfNumber, TokenKinds
<1> QED  BY <1>3, <1>4

LEMMA UnknownCharacterStep ==
  ASSUME LexerInv, UnknownCharacter PROVE LexerInv'
<1> DEFINE t == [kind |-> "unknown", from |-> read + 1, to |-> read + 1]
<1>1. /\ ~AtEnd /\ mode = "between"
      /\ ~IsBlank(Stalk) /\ Stalk # "#"
  BY StalkIsNext, Classes DEF UnknownCharacter, Between, LexerInv
<1>2. /\ read' = read + 1 /\ mode' = "between" /\ tokens' = Append(tokens, t)
      /\ calls' = 0 /\ UNCHANGED <<text, start>>
  BY DEF UnknownCharacter, Emit
<1>3. read \in Nat /\ t \in [kind : TokenKinds, from : Nat, to : Nat]
  BY <1>1, NextIsCommented DEF TokenKinds
<1>4. TypeOK' /\ LexemeInv'
  BY <1>1, <1>2, <1>3 DEF LexerInv, TypeOK, LexemeInv, InLexeme, AtEnd
<1>5. /\ DOMAIN tokens' = DOMAIN tokens \cup {Len(tokens) + 1}
      /\ \A i \in DOMAIN tokens : tokens'[i] = tokens[i] /\ i < Len(tokens) + 1
      /\ tokens'[Len(tokens) + 1] = t
  BY <1>2, <1>3 DEF LexerInv, TypeOK
<1>6. \A i \in DOMAIN tokens : tokens[i].to \in Nat /\ tokens[i].to <= read
  BY TokenType DEF LexerInv, TokensInv
<1>7. TokensInv'
  BY <1>2, <1>3, <1>5, <1>6 DEF LexerInv, TokensInv, InLexeme
<1>8. CommentInv'
  BY <1>1, <1>2, NextIsCommented DEF LexerInv, CommentInv, OpenAfter
<1>9. TokensInOrder'
  BY <1>3, <1>5, <1>6 DEF LexerInv, TypeOK, TokensInOrder
<1>10. MaximalMunch'
  BY <1>2, <1>3, <1>5 DEF LexerInv, MaximalMunch, IsMaximal, IsAlphanumeric, IsDigitOrDot
<1>11. TokensAreTheText'
  <2>1. \A p : ~Pending(p) /\ ~Pending(p)'
    BY <1>1, <1>2 DEF Pending
  <2>2. ASSUME NEW p \in 1 .. read + 1
        PROVE  (\E i \in DOMAIN tokens' : Spans(i, p)')
                 <=> ~IsBlank(text[p]) /\ ~Commented(p)
    <3>1. \A i \in DOMAIN tokens' : Spans(i, p)'
            <=> (i \in DOMAIN tokens /\ Spans(i, p))
                  \/ (i = Len(tokens) + 1 /\ p = read + 1)
      BY <1>3, <1>5 DEF Spans
    <3>2. CASE p \in 1 .. read
      BY <1>3, <1>5, <2>1, <3>1, <3>2 DEF LexerInv, TokensAreTheText
    <3>3. CASE p = read + 1
      BY <1>1, <1>5, <3>1, <3>3, NextIsCommented
    <3> QED  BY <1>3, <3>2, <3>3
  <2> QED  BY <1>2, <2>1, <2>2 DEF TokensAreTheText, Commented
<1> QED  BY <1>4, <1>7, <1>8, <1>9, <1>10, <1>11 DEF LexerInv

\* The steps that consume nothing and append nothing.
LEMMA EndingStep ==
  ASSUME LexerInv, End \/ Overflow \/ RejectNumber \/ EndComment \/ UNCHANGED vars
  PROVE  LexerInv'
<1>1. /\ UNCHANGED <<text, read, start, tokens>>
      /\ calls' \in {calls, calls + 1}
      /\ mode' # mode => \/ mode = "between" /\ mode' = "ended" /\ AtEnd
                         \/ mode = "between" /\ mode' = "overflowed"
                         \/ mode = "number" /\ mode' = "cut"
                         \/ mode = "comment" /\ mode' = "between" /\ AtEnd
  BY DEF End, Overflow, RejectNumber, EndOfNumber, EndComment, Between, vars
<1>2. TypeOK' /\ LexemeInv' /\ TokensInv' /\ CommentInv'
  BY <1>1 DEF LexerInv, TypeOK, LexemeInv, TokensInv, CommentInv, InLexeme, OpenAfter,
     AtEnd, IsAlphanumeric, IsDigitOrDot
<1>3. TokensInOrder' /\ MaximalMunch'
  BY <1>1 DEF LexerInv, TokensInOrder, MaximalMunch, IsMaximal, IsAlphanumeric, IsDigitOrDot
<1>4. TokensAreTheText'
  <2>1. \A p : Pending(p)' <=> Pending(p)
    BY <1>1 DEF Pending
  <2> QED  BY <1>1, <2>1 DEF LexerInv, TokensAreTheText, Spans, Commented
<1> QED  BY <1>2, <1>3, <1>4 DEF LexerInv

-----------------------------------------------------------------------------
(* The recursion of getToken() *)

\* A comment begins at p.
Begins(p) == text[p] = "#" /\ ~OpenAfter(p - 1)

CallsInv ==
  /\ mode = "comment" => Cardinality(CommentsSince) = calls + 1
  /\ mode # "comment" => Cardinality(CommentsSince) = calls
  /\ mode = "overflowed" => calls > CallLimit

LEMMA LastEndIsRead == ASSUME LexerInv PROVE LastEnd \in 0 .. read
<1>1. read \in Nat
  BY DEF LexerInv, TypeOK
<1>2. CASE tokens = <<>>
  BY <1>1, <1>2 DEF LastEnd
<1>3. CASE tokens # <<>>
  <2>1. Len(tokens) \in DOMAIN tokens
    BY <1>3 DEF LexerInv, TypeOK
  <2>2. tokens[Len(tokens)].to \in Nat /\ tokens[Len(tokens)].to <= read
    BY <2>1, TokenType DEF LexerInv, TokensInv
  <2> QED  BY <1>1, <1>3, <2>2 DEF LastEnd
<1> QED  BY <1>2, <1>3

LEMMA CommentsAreFinite ==
  ASSUME LexerInv
  PROVE  IsFiniteSet(CommentsSince) /\ CommentsSince \subseteq 1 .. read
<1>1. CommentsSince \subseteq LastEnd + 1 .. read /\ LastEnd + 1 \in Int /\ read \in Int
  BY LastEndIsRead DEF CommentsSince, LexerInv, TypeOK
<1>2. LastEnd + 1 .. read \subseteq 1 .. read
  BY LastEndIsRead DEF LexerInv, TypeOK
<1> QED  BY <1>1, <1>2, FS_Interval, FS_Subset

\* Among the comments that begin after the last token is the one that begins
\* with the next character, if one does.
LEMMA CommentsAfterNext ==
  ASSUME LexerInv, read' = read + 1, UNCHANGED <<text, tokens>>
  PROVE  CommentsSince' = IF Begins(read + 1) THEN CommentsSince \cup {read + 1}
                                              ELSE CommentsSince
<1>1. read \in Nat /\ LastEnd \in 0 .. read /\ LastEnd' = LastEnd
  BY LastEndIsRead DEF LexerInv, TypeOK, LastEnd
<1>2. CommentsSince = { p \in LastEnd + 1 .. read : Begins(p) }
  BY DEF CommentsSince, Begins, OpenAfter
<1>3. CommentsSince' = { p \in LastEnd + 1 .. read + 1 : Begins(p) }
  BY <1>1 DEF CommentsSince, Begins, OpenAfter
<1>4. LastEnd + 1 .. read + 1 = (LastEnd + 1 .. read) \cup {read + 1}
  BY <1>1
<1> HIDE DEF Begins
<1> QED  BY <1>2, <1>3, <1>4

LEMMA CountedAfterNext ==
  ASSUME LexerInv, read' = read + 1, UNCHANGED <<text, tokens>>
  PROVE  Cardinality(CommentsSince') = IF Begins(read + 1) THEN Cardinality(CommentsSince) + 1
                                                           ELSE Cardinality(CommentsSince)
<1>1. read + 1 \notin CommentsSince
  BY CommentsAreFinite DEF LexerInv, TypeOK
<1> QED  BY <1>1, CommentsAreFinite, CommentsAfterNext, FS_AddElement

\* A token that ends at the cursor leaves no comment to count.
LEMMA NoneAfterToken ==
  ASSUME LexerInv, NEW kind, NEW from, Emit(kind, from, read'), read' \in Nat
  PROVE  CallsInv'
<1>1. mode' = "between" /\ calls' = 0
  BY DEF Emit
<1>2. LastEnd' = read'
  <2> DEFINE t == [kind |-> kind, from |-> from, to |-> read']
  <2>1. tokens' = Append(tokens, t) /\ t.to = read'
    BY DEF Emit
  <2>2. tokens' # <<>> /\ tokens'[Len(tokens')] = t
    <3> HIDE DEF t
    <3> QED  BY <2>1 DEF LexerInv, TypeOK
  <2> QED  BY <2>1, <2>2 DEF LastEnd
<1>3. CommentsSince' = {}
  BY <1>2 DEF CommentsSince
<1> QED  BY <1>1, <1>3, FS_EmptySet DEF CallsInv

LEMMA CallsStep == ASSUME LexerInv, CallsInv, [Next]_vars PROVE CallsInv'
<1>1. CASE SkipBlank \/ BeginIdentifier \/ ExtendIdentifier \/ BeginNumber \/ ExtendNumber
  <2>1. /\ ~AtEnd /\ Stalk # "#" /\ mode # "comment"
        /\ read' = read + 1 /\ UNCHANGED <<text, calls, tokens>>
        /\ mode' \notin {"comment", "overflowed"}
    BY <1>1, StalkIsNext, Classes
    DEF SkipBlank, BeginIdentifier, ExtendIdentifier, BeginNumber, ExtendNumber, Between,
        Consume, LexerInv
  <2>2. ~Begins(read + 1)
    BY <2>1, NextIsCommented DEF Begins
  <2> QED  BY <2>1, <2>2, CountedAfterNext DEF CallsInv
<1>2. CASE BeginComment
  <2>1. /\ ~AtEnd /\ Stalk = "#" /\ mode = "between" /\ mode' = "comment"
        /\ read' = read + 1 /\ UNCHANGED <<text, calls, tokens>>
    BY <1>2, StalkIsNext DEF BeginComment, Between, Consume, LexerInv, NoCharacter
  <2>2. Begins(read + 1)
    BY <2>1, NextIsCommented DEF Begins
  <2> QED  BY <2>1, <2>2, CountedAfterNext DEF CallsInv
<1>3. CASE InComment
  <2>1. /\ ~AtEnd /\ mode = "comment" /\ read' = read + 1 /\ UNCHANGED <<text, tokens>>
        /\ \/ mode' = "comment" /\ calls' = calls
           \/ mode' = "between" /\ calls' = calls + 1
    BY <1>3 DEF InComment, InCommentUpTo, Consume
  <2>2. ~Begins(read + 1)
    BY <2>1, NextIsCommented DEF Begins
  <2> QED  BY <2>1, <2>2, CountedAfterNext DEF CallsInv
<1>4. CASE EndIdentifier \/ EndNumber
  BY <1>4, NoneAfterToken DEF EndIdentifier, EndNumber, LexerInv, TypeOK
<1>5. CASE UnknownCharacter
  BY <1>5, NoneAfterToken DEF UnknownCharacter, LexerInv, TypeOK
<1>6. CASE EndComment \/ End \/ RejectNumber \/ Overflow \/ UNCHANGED vars
  <2>1. CommentsSince' = CommentsSince
    BY <1>6 DEF EndComment, End, RejectNumber, Overflow, vars, CommentsSince, LastEnd
  <2> QED  BY <1>6, <2>1 DEF EndComment, End, RejectNumber, EndOfNumber, Overflow, Between,
                             vars, CallsInv
<1> QED  BY <1>1, <1>2, <1>3, <1>4, <1>5, <1>6 DEF Next, Ended

-----------------------------------------------------------------------------
(* The theorems *)

LEMMA FreshLexer == ASSUME text \in Seq(Character), Fresh PROVE LexerInv
<1>1. Len(text) \in Nat
  OBVIOUS
<1>2. ~OpenAfter(read)  BY DEF Fresh, OpenAfter
<1> QED
  BY <1>1, <1>2 DEF Fresh, LexerInv, TypeOK, LexemeInv, InLexeme, TokensInv, CommentInv,
     TokensInOrder, MaximalMunch, TokensAreTheText

LEMMA NextLexer == ASSUME LexerInv, [Next]_vars PROVE LexerInv'
  BY SkipBlankStep, BeginLexemeStep, ExtendLexemeStep, CommentStep, EndLexemeStep,
     UnknownCharacterStep, EndingStep DEF Next, Ended

THEOREM LexerInvariant == Spec => []LexerInv
<1>1. Init => LexerInv
  BY TextsAssumption, FreshLexer DEF Init
<1>2. LexerInv /\ [Next]_vars => LexerInv'
  BY NextLexer
<1> QED  BY <1>1, <1>2, PTL DEF Spec

(* The cursor stays within the text, whatever the text (Stream.read).      *)
THEOREM TypeCorrect == Spec => []TypeOK
<1>1. LexerInv => TypeOK  BY DEF LexerInv
<1> QED  BY <1>1, LexerInvariant, PTL

(* getToken() drops nothing of the text but blanks and comments, and takes *)
(* nothing from inside a comment for a token.                              *)
THEOREM NothingIsDropped == Spec => []TokensAreTheText
<1>1. LexerInv => TokensAreTheText  BY DEF LexerInv
<1> QED  BY <1>1, LexerInvariant, PTL

(* The list `tokens' is in the order of the text, and no two tokens share  *)
(* a character.                                                            *)
THEOREM TokensAreInOrder == Spec => []TokensInOrder
<1>1. LexerInv => TokensInOrder  BY DEF LexerInv
<1> QED  BY <1>1, LexerInvariant, PTL

(* The loops of getToken() read a word or a number to its end and no       *)
(* further.                                                                *)
THEOREM LexemesAreMaximal == Spec => []MaximalMunch
<1>1. LexerInv => MaximalMunch  BY DEF LexerInv
<1> QED  BY <1>1, LexerInvariant, PTL

(* The stack is exhausted only by comments with no token between them:     *)
(* what a call of getToken() found before it returned is of no account.    *)
THEOREM RecursionIsOverComments == Spec => []OverflowOnlyAfterComments
<1>1. Init => CallsInv
  <2>1. Init => CommentsSince = {}
    BY DEF Init, Fresh, CommentsSince, LastEnd
  <2> QED  BY <2>1, FS_EmptySet DEF Init, Fresh, CallsInv
<1>2. LexerInv /\ CallsInv /\ [Next]_vars => CallsInv'
  BY CallsStep
<1>3. CallsInv => OverflowOnlyAfterComments
  BY DEF CallsInv, OverflowOnlyAfterComments
<1> QED  BY <1>1, <1>2, <1>3, LexerInvariant, PTL DEF Spec

=============================================================================
