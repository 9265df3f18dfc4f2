--------------------------- MODULE PipelineProofs ---------------------------
(***************************************************************************)
(* The whole compiler, for every text and every alphabet.                  *)
(***************************************************************************)
EXTENDS Pipeline, SequenceTheorems, TLAPS

(* The stages with what is proved of them: an instance of the module of    *)
(* the proofs, of which the Same... lemmas say that it has the actions of  *)
(* the instance the composition is made from.                              *)
L == INSTANCE LexerProofs WITH Texts <- {}, tokens <- lexemes

P == INSTANCE ParserProofs WITH
  Inputs <- {}, tokens <- TokenList, control <- parserControl, stack <- parserStack

-----------------------------------------------------------------------------
(* The parser of the composition and the parser of the proofs *)

LEMMA SameWords ==
  /\ Parse!Keywords = P!Keywords /\ Parse!Identifiers = P!Identifiers
  /\ Parse!Operators = P!Operators /\ Parse!Unknown = P!Unknown
  /\ Parse!NoToken = P!NoToken /\ Parse!Nil = P!Nil /\ Parse!Outcomes = P!Outcomes
  /\ Parse!Running <=> P!Running
  BY DEF Parse!Keywords, P!Keywords, Parse!Identifiers, P!Identifiers, Parse!Operators,
     P!Operators, Parse!Unknown, P!Unknown, Parse!NoToken, P!NoToken, Parse!Nil, P!Nil,
     Parse!Outcomes, P!Outcomes, Parse!Running, P!Running

LEMMA SameCursor ==
  /\ \A i : Parse!TokenAt(i) = P!TokenAt(i)
  /\ Parse!Current = P!Current /\ Parse!Stalk = P!Stalk
  /\ \A n : Parse!Reads(n) = P!Reads(n)
  /\ \A c : Parse!Precedence(c) = P!Precedence(c)
<1>1. \A i : Parse!TokenAt(i) = P!TokenAt(i)
  BY SameWords DEF Parse!TokenAt, P!TokenAt
<1>2. \A n : Parse!Reads(n) = P!Reads(n)
  BY DEF Parse!Reads, P!Reads
<1>3. \A c : Parse!Precedence(c) = P!Precedence(c)
  BY DEF Parse!Precedence, P!Precedence
<1> QED  BY <1>1, <1>2, <1>3 DEF Parse!Current, P!Current, Parse!Stalk, P!Stalk

LEMMA SameFrames ==
  /\ \A s : Parse!Last(s) = P!Last(s) /\ Parse!Front(s) = P!Front(s)
  /\ \A f : Parse!Replace(f) = P!Replace(f)
  /\ \A f : Parse!AtTop(f) <=> P!AtTop(f)
  /\ \A a, b, c, d : Parse!Frame(a, b, c, d) = P!Frame(a, b, c, d)
  /\ \A a, b, c : Parse!Node(a, b, c) = P!Node(a, b, c)
  /\ \A a, b : Parse!LoopFrame(a, b) = P!LoopFrame(a, b)
<1>1. \A s : Parse!Last(s) = P!Last(s) /\ Parse!Front(s) = P!Front(s)
  BY DEF Parse!Last, P!Last, Parse!Front, P!Front
<1>2. \A a, b, c, d : Parse!Frame(a, b, c, d) = P!Frame(a, b, c, d)
  BY DEF Parse!Frame, P!Frame
<1>3. \A a, b, c : Parse!Node(a, b, c) = P!Node(a, b, c)
  BY DEF Parse!Node, P!Node
<1> QED  BY <1>1, <1>2, <1>3 DEF Parse!Replace, P!Replace, Parse!AtTop, P!AtTop,
     Parse!LoopFrame, P!LoopFrame

LEMMA SameSteps ==
  /\ \A s, n : Parse!CallExpression(s, n) <=> P!CallExpression(s, n)
  /\ \A v, s, n : Parse!Return(v, s, n) <=> P!Return(v, s, n)
  /\ \A v, s, n : Parse!ReturnNew(v, s, n) <=> P!ReturnNew(v, s, n)
  /\ \A o : Parse!Halt(o) <=> P!Halt(o)
  BY SameCursor, SameFrames DEF Parse!CallExpression, P!CallExpression, Parse!Return,
     P!Return, Parse!ReturnNew, P!ReturnNew, Parse!Halt, P!Halt

LEMMA SameParse == Parse!Parse <=> P!Parse
<1> USE SameWords, SameCursor, SameFrames, SameSteps
<1>1. Parse!Finish <=> P!Finish
  BY DEF Parse!Finish, P!Finish
<1>2. Parse!SkipSeparator <=> P!SkipSeparator
  BY DEF Parse!SkipSeparator, P!SkipSeparator, Parse!InLoop, P!InLoop, Parse!vars,
     P!vars
<1>3. Parse!BeginPrototype <=> P!BeginPrototype
  BY DEF Parse!BeginPrototype, P!BeginPrototype, Parse!InLoop, P!InLoop
<1>4. Parse!RejectPrototype <=> P!RejectPrototype
  BY DEF Parse!RejectPrototype, P!RejectPrototype, Parse!InLoop, P!InLoop
<1>5. Parse!DropLastBracket <=> P!DropLastBracket
  BY DEF Parse!DropLastBracket, P!DropLastBracket, Parse!IsTopLevel, P!IsTopLevel,
     Parse!LastBracket, P!LastBracket, Parse!InLoop, P!InLoop
<1>6. Parse!BeginTopLevel <=> P!BeginTopLevel
  BY DEF Parse!BeginTopLevel, P!BeginTopLevel, Parse!IsTopLevel, P!IsTopLevel,
     Parse!LastBracket, P!LastBracket, Parse!InLoop, P!InLoop
<1>7. Parse!ExhaustMemory <=> P!ExhaustMemory
  BY DEF Parse!ExhaustMemory, P!ExhaustMemory
<1>8. Parse!EndTopLevel <=> P!EndTopLevel
  BY DEF Parse!EndTopLevel, P!EndTopLevel
<1>9. Parse!EndDefinition <=> P!EndDefinition
  BY DEF Parse!EndDefinition, P!EndDefinition
<1> QED  BY <1>1, <1>2, <1>3, <1>4, <1>5, <1>6, <1>7, <1>8, <1>9
  DEF Parse!Parse, P!Parse

LEMMA SameParsePrototype == Parse!ParsePrototype <=> P!ParsePrototype
<1> USE SameWords, SameCursor, SameFrames, SameSteps
<1>1. Parse!AddParameter <=> P!AddParameter
  BY DEF Parse!AddParameter, P!AddParameter
<1>2. Parse!EndPrototype <=> P!EndPrototype
  BY DEF Parse!EndPrototype, P!EndPrototype
<1>3. Parse!RejectParameter <=> P!RejectParameter
  BY DEF Parse!RejectParameter, P!RejectParameter
<1> QED  BY <1>1, <1>2, <1>3
  DEF Parse!ParsePrototype, P!ParsePrototype

LEMMA SameParsePrimary == Parse!ParsePrimary <=> P!ParsePrimary
<1> USE SameWords, SameCursor, SameFrames, SameSteps
<1>1. Parse!Overflow <=> P!Overflow
  BY DEF Parse!Overflow, P!Overflow
<1>2. Parse!NoPrimary <=> P!NoPrimary
  BY DEF Parse!NoPrimary, P!NoPrimary, Parse!AtPrimary, P!AtPrimary
<1>3. Parse!Number <=> P!Number
  BY DEF Parse!Number, P!Number, Parse!AtPrimary, P!AtPrimary
<1>4. Parse!Variable <=> P!Variable
  BY DEF Parse!Variable, P!Variable, Parse!AtPrimary, P!AtPrimary
<1>5. Parse!CallWithoutArguments <=> P!CallWithoutArguments
  BY DEF Parse!CallWithoutArguments, P!CallWithoutArguments, Parse!IsCall, P!IsCall,
     Parse!AtPrimary, P!AtPrimary
<1>6. Parse!CallCutShort <=> P!CallCutShort
  BY DEF Parse!CallCutShort, P!CallCutShort, Parse!IsCall, P!IsCall,
     Parse!AtPrimary, P!AtPrimary
<1>7. Parse!CallWithArguments <=> P!CallWithArguments
  BY DEF Parse!CallWithArguments, P!CallWithArguments, Parse!IsCall, P!IsCall,
     Parse!AtPrimary, P!AtPrimary
<1>8. Parse!BeginTernary <=> P!BeginTernary
  BY DEF Parse!BeginTernary, P!BeginTernary, Parse!AtPrimary, P!AtPrimary
<1>9. Parse!OperatorAsPrimary <=> P!OperatorAsPrimary
  BY DEF Parse!OperatorAsPrimary, P!OperatorAsPrimary, Parse!AtPrimary, P!AtPrimary
<1>10. Parse!BeginParentheses <=> P!BeginParentheses
  BY DEF Parse!BeginParentheses, P!BeginParentheses, Parse!AtPrimary, P!AtPrimary
<1>11. Parse!BeginCurlyBrackets <=> P!BeginCurlyBrackets
  BY DEF Parse!BeginCurlyBrackets, P!BeginCurlyBrackets, Parse!AtPrimary,
     P!AtPrimary
<1>12. Parse!UnknownToken <=> P!UnknownToken
  BY DEF Parse!UnknownToken, P!UnknownToken, Parse!AtPrimary, P!AtPrimary
<1> QED  BY <1>1, <1>2, <1>3, <1>4, <1>5, <1>6, <1>7, <1>8, <1>9, <1>10, <1>11,
     <1>12
  DEF Parse!ParsePrimary, P!ParsePrimary

LEMMA SameParseOperators == Parse!ParseOperators <=> P!ParseOperators
<1> USE SameWords, SameCursor, SameFrames, SameSteps
<1>1. Parse!BeginOperators <=> P!BeginOperators
  BY DEF Parse!BeginOperators, P!BeginOperators
<1>2. Parse!TakeOperator <=> P!TakeOperator
  BY DEF Parse!TakeOperator, P!TakeOperator, Parse!Climbs, P!Climbs
<1>3. Parse!EndOperators <=> P!EndOperators
  BY DEF Parse!EndOperators, P!EndOperators, Parse!Climbs, P!Climbs
<1>4. Parse!ClimbOperators <=> P!ClimbOperators
  BY DEF Parse!ClimbOperators, P!ClimbOperators, Parse!Climbs, P!Climbs
<1>5. Parse!CombineOperand <=> P!CombineOperand
  BY DEF Parse!CombineOperand, P!CombineOperand, Parse!Climbs, P!Climbs,
     Parse!Combine, P!Combine
<1>6. Parse!CombineNested <=> P!CombineNested
  BY DEF Parse!CombineNested, P!CombineNested, Parse!Combine, P!Combine
<1> QED  BY <1>1, <1>2, <1>3, <1>4, <1>5, <1>6
  DEF Parse!ParseOperators, P!ParseOperators

LEMMA SameResume == Parse!Resume <=> P!Resume
<1> USE SameWords, SameCursor, SameFrames, SameSteps
<1>1. Parse!PropagateNil <=> P!PropagateNil
  BY DEF Parse!PropagateNil, P!PropagateNil
<1>2. Parse!EndArguments <=> P!EndArguments
  BY DEF Parse!EndArguments, P!EndArguments, Parse!AtArgument, P!AtArgument
<1>3. Parse!NextArgument <=> P!NextArgument
  BY DEF Parse!NextArgument, P!NextArgument, Parse!AtArgument, P!AtArgument
<1>4. Parse!RejectArguments <=> P!RejectArguments
  BY DEF Parse!RejectArguments, P!RejectArguments, Parse!AtArgument, P!AtArgument
<1>5. Parse!EndCondition <=> P!EndCondition
  BY DEF Parse!EndCondition, P!EndCondition
<1>6. Parse!EndThen <=> P!EndThen
  BY DEF Parse!EndThen, P!EndThen
<1>7. Parse!EndElse <=> P!EndElse
  BY DEF Parse!EndElse, P!EndElse
<1>8. Parse!EndParentheses <=> P!EndParentheses
  BY DEF Parse!EndParentheses, P!EndParentheses
<1>9. Parse!EndCurlyBrackets <=> P!EndCurlyBrackets
  BY DEF Parse!EndCurlyBrackets, P!EndCurlyBrackets
<1> QED  BY <1>1, <1>2, <1>3, <1>4, <1>5, <1>6, <1>7, <1>8, <1>9
  DEF Parse!Resume, P!Resume

LEMMA SameParser == Parse!Next => P!Next
  BY SameWords, SameParse, SameParsePrototype, SameParsePrimary, SameParseOperators, SameResume
  DEF Parse!Next, P!Next, Parse!Ended, P!Ended, Parse!vars, P!vars

LEMMA SameTrees == \A h, roots : Generate!CompleteTrees(h, roots) <=> P!CompleteTrees(h, roots)
<1>1. Generate!ExpressionKinds = P!ExpressionKinds
  BY DEF Generate!ExpressionKinds, P!ExpressionKinds
<1>2. \A kind : Generate!KidsOf(kind) = P!KidsOf(kind)
  BY <1>1 DEF Generate!KidsOf, P!KidsOf
<1>3. \A h, node : Generate!IsComplete(h, node) <=> P!IsComplete(h, node)
  BY <1>2 DEF Generate!IsComplete, P!IsComplete
<1> QED  BY <1>3 DEF Generate!CompleteTrees, P!CompleteTrees

-----------------------------------------------------------------------------
(* The lexer of the composition and the lexer of the proofs *)

LEMMA SameCharacters ==
  /\ Lex!Character = L!Character /\ Lex!NoCharacter = L!NoCharacter
  /\ Lex!Special = L!Special /\ Lex!Stalk = L!Stalk
  /\ (Lex!AtEnd <=> L!AtEnd) /\ (Lex!Running <=> L!Running) /\ (Lex!Between <=> L!Between)
  /\ \A c : Lex!IsAlphanumeric(c) <=> L!IsAlphanumeric(c)
  /\ \A c : Lex!IsDigitOrDot(c) <=> L!IsDigitOrDot(c)
  /\ \A c : Lex!IsNewline(c) <=> L!IsNewline(c)
  /\ \A c : Lex!IsBlank(c) <=> L!IsBlank(c)
  BY DEF Lex!Character, L!Character, Lex!NoCharacter, L!NoCharacter, Lex!Special, L!Special,
     Lex!Stalk, L!Stalk, Lex!AtEnd, L!AtEnd, Lex!Running, L!Running, Lex!Between, L!Between,
     Lex!IsAlphanumeric, L!IsAlphanumeric,
     Lex!IsDigitOrDot, L!IsDigitOrDot, Lex!IsNewline, L!IsNewline, Lex!IsBlank, L!IsBlank

LEMMA SameLexemes ==
  /\ \A m : Lex!Consume(m) <=> L!Consume(m)
  /\ \A kind, from, to : Lex!Emit(kind, from, to) <=> L!Emit(kind, from, to)
  /\ \A from, to : Lex!IsNumeral(from, to) <=> L!IsNumeral(from, to)
  /\ \A from, to : Lex!WordKind(Lex!Word(from, to)) = L!WordKind(L!Word(from, to))
<1>1. \A from, to : Lex!Word(from, to) = L!Word(from, to)
  BY DEF Lex!Word, L!Word
<1>2. \A word : Lex!WordKind(word) = L!WordKind(word)
  BY DEF Lex!WordKind, L!WordKind
<1> QED  BY <1>1, <1>2 DEF Lex!Consume, L!Consume, Lex!Emit, L!Emit, Lex!IsNumeral, L!IsNumeral

LEMMA SameLexer == Lex!Next => L!Next
<1> USE SameCharacters, SameLexemes
<1>1. Lex!SkipBlank \/ Lex!End \/ Lex!Overflow => L!SkipBlank \/ L!End \/ L!Overflow
  BY DEF Lex!SkipBlank, Lex!End, Lex!Overflow, L!SkipBlank, L!End, L!Overflow
<1>2. Lex!BeginIdentifier \/ Lex!ExtendIdentifier \/ Lex!EndIdentifier
        => L!BeginIdentifier \/ L!ExtendIdentifier \/ L!EndIdentifier
  BY DEF Lex!BeginIdentifier, Lex!ExtendIdentifier, Lex!EndIdentifier,
     L!BeginIdentifier, L!ExtendIdentifier, L!EndIdentifier
<1>3. Lex!BeginNumber \/ Lex!ExtendNumber \/ Lex!EndNumber \/ Lex!RejectNumber
        => L!BeginNumber \/ L!ExtendNumber \/ L!EndNumber \/ L!RejectNumber
  BY DEF Lex!BeginNumber, Lex!ExtendNumber, Lex!EndNumber, Lex!RejectNumber, Lex!EndOfNumber,
     L!BeginNumber, L!ExtendNumber, L!EndNumber, L!RejectNumber, L!EndOfNumber
<1>4. Lex!BeginComment \/ Lex!InComment \/ Lex!EndComment
        => L!BeginComment \/ L!InComment \/ L!EndComment
  BY DEF Lex!BeginComment, Lex!InComment, Lex!InCommentUpTo, Lex!EndComment,
     L!BeginComment, L!InComment, L!InCommentUpTo, L!EndComment
<1>5. Lex!UnknownCharacter \/ Lex!Ended => L!UnknownCharacter \/ L!Ended
  BY DEF Lex!UnknownCharacter, Lex!Ended, L!UnknownCharacter, L!Ended, Lex!vars, L!vars
<1> QED  BY <1>1, <1>2, <1>3, <1>4, <1>5 DEF Lex!Next, L!Next

LEMMA LexerStep == ASSUME L!LexerInv, Lex!Next \/ UNCHANGED lexer PROVE L!LexerInv'
<1>1. L!Next \/ UNCHANGED L!vars
  BY SameLexer DEF lexer, L!vars
<1> QED  BY <1>1, L!NextLexer, CharactersAssumption, LimitsAssumption, SameCharacters

LEMMA FirstLexer == ASSUME Init PROVE L!LexerInv
<1>1. text \in Seq(L!Character)
  BY InvocationsAssumption, SameCharacters DEF Init
<1> QED  BY <1>1, L!FreshLexer, CharactersAssumption, LimitsAssumption, SameCharacters
        DEF Init, Lex!Fresh, L!Fresh

-----------------------------------------------------------------------------
(* From lexemes to tokens *)

\* A lexeme lies in the text, and a word is made of letters and digits.
LEMMA LexemeFacts ==
  ASSUME L!LexerInv, NEW i \in DOMAIN lexemes
  PROVE  /\ lexemes[i].kind \in L!TokenKinds
         /\ lexemes[i].from \in 1 .. Len(text) /\ lexemes[i].to \in lexemes[i].from .. Len(text)
         /\ lexemes[i].kind = "identifier"
              => \A p \in lexemes[i].from .. lexemes[i].to : L!IsAlphanumeric(text[p])
<1>1. /\ lexemes[i].kind \in L!TokenKinds
      /\ lexemes[i].from \in Nat /\ lexemes[i].to \in Nat
  BY L!TokenType, CharactersAssumption, LimitsAssumption, SameCharacters DEF L!LexerInv
<1>2. /\ 1 <= lexemes[i].from /\ lexemes[i].from <= lexemes[i].to
      /\ lexemes[i].to <= read /\ read \in 0 .. Len(text) /\ Len(text) \in Nat
  BY DEF L!LexerInv, L!TokensInv, L!TypeOK
<1>3. lexemes[i].kind = "identifier"
        => \A p \in lexemes[i].from .. lexemes[i].to : L!IsAlphanumeric(text[p])
  BY DEF L!LexerInv, L!MaximalMunch, L!IsMaximal
<1> QED  BY <1>1, <1>2, <1>3

LEMMA TokenFacts ==
  ASSUME L!LexerInv, NEW i \in DOMAIN lexemes
  PROVE  /\ i \in DOMAIN TokenList /\ TokenList[i] = ClassOf(lexemes[i])
         /\ TokenList[i] \in P!Token
         /\ TokenList[i] \in P!Identifiers => lexemes[i].kind = "identifier"
         /\ TokenList[i] \in P!Operators => text[lexemes[i].from] \in P!Operators
<1>1. i \in DOMAIN TokenList /\ TokenList[i] = ClassOf(lexemes[i])
  BY DEF TokenList
<1>2. lexemes[i].kind \in {"motif", "extern", "identifier", "number", "unknown"}
  BY LexemeFacts DEF L!TokenKinds
<1>3. CASE lexemes[i].kind = "identifier"
  <2>1. TokenList[i] \in {"identifier", "is"}
    BY <1>1, <1>3 DEF ClassOf
  <2> QED  BY <1>1, <1>3, <2>1 DEF P!Token, P!Identifiers, P!Operators
<1>4. CASE lexemes[i].kind = "unknown"
  <2>1. /\ TokenList[i] \in Unknown
        /\ TokenList[i] # "other" => TokenList[i] = text[lexemes[i].from]
    BY <1>1, <1>4 DEF ClassOf, Unknown
  <2> QED
    BY <1>1, <2>1 DEF Unknown, Operators, P!Token, P!Unknown, P!Identifiers, P!Operators
<1>5. CASE lexemes[i].kind \in {"motif", "extern", "number"}
  <2>1. TokenList[i] = lexemes[i].kind
    BY <1>1, <1>5 DEF ClassOf
  <2> QED  BY <1>1, <1>5, <2>1 DEF P!Token, P!Keywords, P!Identifiers, P!Operators
<1> QED  BY <1>2, <1>3, <1>4, <1>5

LEMMA TokenListType == ASSUME L!LexerInv PROVE TokenList \in Seq(P!Token)
<1>1. PICK n \in Nat : DOMAIN lexemes = 1 .. n
  BY DEF L!LexerInv, L!TypeOK
<1>2. TokenList \in [1 .. n -> P!Token]
  BY <1>1, TokenFacts DEF TokenList
<1> QED  BY <1>2, SeqDef

-----------------------------------------------------------------------------
(* The invariant of the composition *)

\* The parser waits for the whole list of tokens.
ParserWaits == stage \in {"start", "lexing"}

FrontInv ==
  /\ L!LexerInv
  /\ \E i \in Invocations : text = i.text
  /\ IF ParserWaits THEN P!Fresh ELSE P!TreesInv /\ P!CopiesInv

LEMMA ParserReady ==
  ASSUME FrontInv PROVE P!TreesInv /\ P!CopiesInv
<1> USE LimitsAssumption
<1>1. CASE ParserWaits
  <2>1. TokenList \in Seq(P!Token) /\ P!Fresh
    BY <1>1, TokenListType DEF FrontInv
  <2> QED  BY <2>1, P!FreshTrees, P!FreshCopies
<1> QED  BY <1>1 DEF FrontInv

LEMMA ParserStep ==
  ASSUME FrontInv, UNCHANGED lexer, Parse!Next \/ UNCHANGED parser
  PROVE  P!TreesInv' /\ P!CopiesInv'
<1>1. TokenList' = TokenList
  BY DEF lexer, TokenList, ClassOf, WordOf
<1>2. P!Next \/ UNCHANGED P!vars
  BY <1>1, SameParser DEF parser, P!vars
<1> QED  BY <1>2, ParserReady, P!NextTrees, P!NextCopies, LimitsAssumption

LEMMA FirstFront == ASSUME Init PROVE FrontInv
<1>1. P!Fresh
  BY DEF Init, Parse!Fresh, P!Fresh, Parse!Nil, P!Nil
<1> QED  BY <1>1, FirstLexer DEF Init, Main!Init, FrontInv, ParserWaits

LEMMA NextFront == ASSUME FrontInv, [Next]_vars PROVE FrontInv'
<1>1. CASE RunLexer
  <2>1. L!LexerInv' /\ text' = text
    BY <1>1, LexerStep DEF RunLexer, FrontInv, Lex!Next, Lex!SkipBlank, Lex!End, Lex!Consume,
       Lex!BeginIdentifier, Lex!ExtendIdentifier, Lex!EndIdentifier, Lex!Emit,
       Lex!BeginNumber, Lex!ExtendNumber, Lex!EndNumber, Lex!RejectNumber,
       Lex!BeginComment, Lex!InComment, Lex!InCommentUpTo, Lex!EndComment, Lex!UnknownCharacter,
       Lex!Overflow, Lex!Ended, Lex!vars
  <2>2. ParserWaits /\ ParserWaits'
    BY <1>1 DEF RunLexer, ParserWaits, main
  <2>3. P!Fresh'
    BY <1>1, <2>2 DEF RunLexer, FrontInv, P!Fresh, parser
  <2> QED  BY <2>1, <2>2, <2>3 DEF FrontInv
<1>2. ASSUME UNCHANGED lexer, Parse!Next \/ UNCHANGED parser, ~ParserWaits'
      PROVE  FrontInv'
  <2>1. L!LexerInv' /\ text' = text
    BY <1>2, LexerStep DEF FrontInv, lexer
  <2> QED  BY <1>2, <2>1, ParserStep DEF FrontInv
<1>3. ASSUME UNCHANGED <<lexer, parser>>, ParserWaits' => ParserWaits
      PROVE  FrontInv'
  <2>1. CASE ParserWaits'
    <3>1. L!LexerInv' /\ text' = text
      BY <1>3, LexerStep DEF FrontInv, lexer
    <3>2. P!Fresh'
      BY <1>3, <2>1 DEF FrontInv, P!Fresh, parser
    <3> QED  BY <2>1, <3>1, <3>2 DEF FrontInv
  <2> QED  BY <1>2, <1>3, <2>1
<1>4. CASE RunParser
  BY <1>2, <1>4 DEF RunParser, ParserWaits, main
<1>5. CASE Start \/ EndLexing \/ EndParsing
  <2>1. ParserWaits' => ParserWaits
    BY <1>5 DEF Start, EndLexing, EndParsing, ParserWaits, Main!Start, Main!EndLexing,
       Main!EndParsing, Main!CatchError, Main!Crash, Main!Exit, Main!Go
  <2> QED  BY <1>3, <1>5, <2>1 DEF Start, EndLexing, EndParsing
<1>6. CASE RunGenerator \/ EndGenerating
  <2>1. ParserWaits' => ParserWaits
    BY <1>6 DEF RunGenerator, EndGenerating, main, ParserWaits,
       Main!EndGenerating, Main!CatchError, Main!Crash, Main!Exit, Main!Go
  <2> QED  BY <1>3, <1>6, <2>1 DEF RunGenerator, EndGenerating
<1>7. CASE Exited \/ UNCHANGED vars
  BY <1>3, <1>7 DEF Exited, vars, main, ParserWaits
<1> QED  BY <1>1, <1>4, <1>5, <1>6, <1>7 DEF Next

-----------------------------------------------------------------------------
(* What the parser hands over *)

LEMMA NamesAreStrings ==
  ASSUME FrontInv, NEW n \in DOMAIN nodes
  PROVE  Spelled(nodes[n]) \in STRING \ {Generate!Renamed}
<1> DEFINE at == nodes[n].at
           lexeme == lexemes[at]
<1>1. P!NodeCopies(nodes[n]) /\ n \in 1 .. Len(nodes) /\ nodes[n].kind \in NodeKinds
  <2> DEFINE K == [kind : P!NodeKinds, at : Nat, kids : Seq(Nat)]
  <2>1. nodes \in Seq(K)
    BY ParserReady DEF P!CopiesInv, P!ParserInv, P!TypeOK
  <2>2. n \in 1 .. Len(nodes) /\ nodes[n] \in K
    <3> HIDE DEF K
    <3> QED  BY <2>1
  <2>3. nodes[n].kind \in P!NodeKinds
    BY <2>2
  <2> QED  BY <2>2, <2>3, ParserReady DEF P!CopiesInv, P!NodesCopy, P!NodeKinds, NodeKinds
<1>2. CASE at = 0
  <2>1. 0 \notin DOMAIN TokenList
    BY DEF FrontInv, L!LexerInv, L!TypeOK, TokenList
  <2>2. nodes[n].kind \notin {"number", "binary"}
    BY <1>1, <1>2, <2>1 DEF P!NodeCopies, P!IsToken
  <2>3. Spelled(nodes[n]) = "main"
    BY <1>2, <2>2 DEF Spelled
  <2> QED  BY <2>3, StringsAssumption DEF Generate!Renamed
<1>3. CASE at # 0 /\ nodes[n].kind = "number"
  <2>1. Spelled(nodes[n]) = "number"
    BY <1>3 DEF Spelled
  <2> QED  BY <2>1, StringsAssumption DEF Generate!Renamed
<1>4. ASSUME at # 0 PROVE at \in DOMAIN lexemes /\ nodes[n].kind # "motif"
                           /\ TokenList[at] \in P!CopiedBy(nodes[n].kind)
  BY <1>1, <1>4 DEF P!NodeCopies, P!IsToken, TokenList
<1>5. L!LexerInv
  BY DEF FrontInv
<1>6. CASE at # 0 /\ nodes[n].kind = "binary"
  <2>1. text[lexeme.from] \in P!Operators
    BY <1>4, <1>5, <1>6, TokenFacts DEF P!CopiedBy
  <2> QED  BY <1>6, <2>1, StringsAssumption DEF Spelled, P!Operators, Operators, Generate!Renamed
<1>7. CASE at # 0 /\ nodes[n].kind \notin {"number", "binary"}
  <2>1. TokenList[at] \in P!Identifiers
    BY <1>1, <1>4, <1>7 DEF P!CopiedBy, P!Identifiers, NodeKinds
  <2>2. lexeme.kind = "identifier"
    BY <1>4, <1>5, <1>7, <2>1, TokenFacts
  <2>3. /\ lexeme.from \in 1 .. Len(text) /\ lexeme.to \in lexeme.from .. Len(text)
        /\ \A p \in lexeme.from .. lexeme.to : Lex!IsAlphanumeric(text[p])
    BY <1>4, <1>5, <1>7, <2>2, LexemeFacts, SameCharacters
  <2>4. NameOfWord(SubSeq(text, lexeme.from, lexeme.to)) \in STRING \ {Generate!Renamed}
    BY <2>3, NamesAssumption DEF FrontInv
  <2> QED  BY <1>7, <2>4 DEF Spelled, WordOf
<1> QED  BY <1>2, <1>3, <1>6, <1>7

LEMMA FrontGeneratable == ASSUME FrontInv PROVE Generate!Generatable(Program)
<1> DEFINE K == [kind : P!NodeKinds, at : Nat, kids : Seq(Nat)]
           G == [kind : Generate!ExpressionKinds \cup {"param", "prototype", "motif"},
                 name : STRING \ {Generate!Renamed}, kids : Seq(Nat)]
<1>1. /\ nodes \in Seq(K) /\ syntaxTree \in Seq(DOMAIN nodes)
      /\ \A n \in DOMAIN nodes : \A i \in DOMAIN nodes[n].kids : nodes[n].kids[i] \in 1 .. n - 1
      /\ P!CompleteTrees(nodes, syntaxTree)
  BY ParserReady DEF P!TreesInv, P!ParserInv, P!TypeOK, P!TreesAreComplete
<1>2. PICK m \in Nat : DOMAIN nodes = 1 .. m
  BY <1>1
<1>3. /\ DOMAIN Program.nodes = DOMAIN nodes /\ Program.trees = syntaxTree
      /\ \A n \in DOMAIN nodes : /\ Program.nodes[n].kind = nodes[n].kind
                                /\ Program.nodes[n].kids = nodes[n].kids
                                /\ Program.nodes[n].name = Spelled(nodes[n])
  BY DEF Program
<1>4. \A n \in DOMAIN nodes : Program.nodes[n] \in G
  <2> SUFFICES ASSUME NEW n \in DOMAIN nodes PROVE Program.nodes[n] \in G
    OBVIOUS
  <2>1. nodes[n].kind \in P!NodeKinds /\ nodes[n].kids \in Seq(Nat)
    <3>1. nodes[n] \in K
      <4> HIDE DEF K
      <4> QED  BY <1>1
    <3> QED  BY <3>1
  <2>2. nodes[n].kind \in Generate!ExpressionKinds \cup {"param", "prototype", "motif"}
    BY <2>1 DEF P!NodeKinds, Generate!ExpressionKinds
  <2> QED  BY <2>1, <2>2, NamesAreStrings DEF Program
<1>5. Program.nodes \in Seq(G)
  <2>1. Program.nodes \in [1 .. m -> G]
    <3> DEFINE f == Program.nodes
    <3>1. f = [n \in 1 .. m |-> f[n]]
      BY <1>2 DEF Program
    <3>2. \A n \in 1 .. m : f[n] \in G
      BY <1>2, <1>4
    <3> HIDE DEF G, f
    <3>3. f \in [1 .. m -> G]
      BY <3>1, <3>2
    <3> QED  BY <3>3 DEF f
  <2> HIDE DEF G
  <2> QED  BY <2>1, SeqDef
<1>6. Generate!CompleteTrees(Program.nodes, Program.trees)
  <2>1. \A kids \in Seq(Nat) : \A i \in DOMAIN kids : kids[i] \in Nat
    OBVIOUS
  <2>2. \A n \in DOMAIN nodes : P!IsComplete(Program.nodes, Program.nodes[n])
    <3> SUFFICES ASSUME NEW n \in DOMAIN nodes PROVE P!IsComplete(Program.nodes, Program.nodes[n])
      OBVIOUS
    <3>1. P!IsComplete(nodes, nodes[n])
      BY <1>1 DEF P!CompleteTrees
    <3>2. \A i \in DOMAIN nodes[n].kids : nodes[n].kids[i] \in DOMAIN nodes
      BY <1>1, <1>2
    <3> QED  BY <1>3, <3>1, <3>2 DEF P!IsComplete
  <2>3. \A k \in DOMAIN syntaxTree : syntaxTree[k] \in DOMAIN nodes
    BY <1>1
  <2>4. P!CompleteTrees(Program.nodes, Program.trees)
    BY <1>1, <1>3, <2>2, <2>3 DEF P!CompleteTrees
  <2> QED  BY <2>4, SameTrees
<1> QED  BY <1>1, <1>3, <1>5, <1>6 DEF Generate!Generatable

(* The generator is never handed a tree it has no case for, whatever the   *)
(* text: each stage keeps what the next one takes for granted.             *)
THEOREM TheParserFeedsTheGenerator == Spec => []ParserFeedsGenerator
<1>1. Init => FrontInv
  BY FirstFront
<1>2. FrontInv /\ [Next]_vars => FrontInv'
  BY NextFront
<1>3. FrontInv => ParserFeedsGenerator
  BY FrontGeneratable DEF ParserFeedsGenerator
<1> QED  BY <1>1, <1>2, <1>3, PTL DEF Spec

=============================================================================
