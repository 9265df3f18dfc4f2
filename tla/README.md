# Verification of the Cobain compiler

Cobain compiles a small expression language to LLVM bitcode. This directory holds TLA+
modules of its stages, the TLC configurations that check them on small instances, and proofs
about them for every value of their constants. Paths are relative to `src/`.

## The system

| Component | State | Operations | Modelled by |
|---|---|---|---|
| Stream (`CobainFramework/Lexer/Stream.swift`, `Extensions/SequenceExtensions.swift`) | the sequence that remains, `current` | `read`, `stalk`, `isEmpty`, `map`, `consume` (unused) | the cursors of `Lexer` and `Parser` |
| Lexer (`Lexer/Lexer.swift`, `Extensions/CharacterExtensions.swift`) | a stream of characters, the text of the token being read, the calls of `getToken` that wait, the tokens | `tokens`, `getToken` | `Lexer`, `MCLexer`, `LexerProofs` |
| Token, AST (`Lexer/Token.swift`, `Parser/AST.swift`) | data | printing | `Syntax`, `AST` |
| Parser (`Parser/Parser.swift`, `OperatorPrecedence.swift`, `ParserError.swift`) | a stream of tokens, the call stack, the trees built | `parse` and twelve parsing functions | `Parser`, `MCParser`, `MCParserLanguage`, `MCParserDocs`, `ParserProofs`, `ParserTokens` |
| LLVMCodeGenerator (`Codegen/LLVMCodeGenerator.swift`) | the LLVM module and builder, `namedValues`, `currentFunction`, `currentBB`, `shouldReturn` | `generate`, `getValue` | `CodeGenerator`, `Semantics`, `ProgramTrees`, `MCCodeGenerator`, `MCCodeGeneratorDocs`, `CodeGeneratorProofs`, `CodeGeneratorWalk`, `CodeGeneratorMeaning`, `Recursion` |
| StdLib (`Stdlib/StdLib.swift`) | the functions `printf` and `print` of the module | `initialize` | `StdLib` |
| Driver (`Cobain/main.swift`) | the command line | choose a text, run the stages, print an error | `Driver`, `Pipeline`, `MCPipeline`, `MCPipelineDocs`, `PipelineProofs` |
| LLVM (`LLVM/include`, external) | functions, blocks, instructions; the position of the builder | build, insert, fold, verify, write | `LLVMModule` |

They work as a pipeline in one thread. The driver hands the characters of a file to the lexer;
the parser takes the complete list of tokens; the code generator takes the complete list of
trees, and owns the LLVM module that StdLib fills first. Nothing is shared between stages and
nothing runs concurrently; no stage restarts or retries. An error of a stage is printed by the
driver and the process ends with status 0; a `fatalError`, a `try!`, an LLVM verification
failure or a stack overflow ends it at once.

### What is hard about it

No test of the repository reaches past two inputs of the parser, and the test target does not
compile (it builds `AST.root`, a case `AST` does not have). The code goes wrong in long
sequences of individually plausible steps:

- **The cursor.** The parsing functions do not agree on where they leave the stream. A number,
  a name or a call without operators leaves it *on* its last token; a binary expression *past*
  it; an expression that climbed to a tighter operator one token *further*. Every caller
  assumes one of the three. What a caller then skips, or sees twice, shows up several calls
  later.
- **nil.** `nil` says "no expression", "the input ended" and "this token is my caller's" alike.
  Some callers propagate it, one ignores it, `parse()` drops it: an expression can disappear
  without an error while its tokens stay consumed.
- **Progress.** `parse()` goes round its loop whatever an item read, also when it read nothing
  (`","`, a lone number, a closing bracket). `parseToken` calls `parseExpression` on an operator
  without reading it, so the recursion never ends.
- **Ends.** The lexer turns an error into the end of the text, and calls itself once more after
  every comment; a read past the end is silent.
- **The code generator's fields** (`namedValues`, `currentBB`, `shouldReturn`) are set in one
  branch of a recursive function and read in another, and are stale after a redefinition, in a
  nested conditional, or after an error.

### What makes each component correct

- *Stream*: the cursor stops one past the end, however many reads follow.
- *Lexer*: the tokens are the text, without its blanks and comments, in order, each word and
  number as long as it can be; the lexer ends, and with all of the text unless it met a literal
  that is no number; its recursion is bounded by what it has not yet made a token of.
- *Parser*: a program of the language gives its trees and no other; whatever the input, a tree
  reads in the order of the text, no token is used twice in a result, operators group by
  precedence, and every function returns or ends the parser.
- *Code generator*: a program that has a meaning is compiled, one that has none is not; the
  code of a motif returns what its body says, on its own parameters, and makes the calls of the
  body once each and in order; a tree leaves nothing behind in the fields that the next one sees.
- *LLVM module*: what the generator hands over has one terminator per block, and every call has
  the arity of its callee.
- *Driver*: a stage runs once, on the complete output of the one before it; the process shows
  the output of one stage, or an error, or writes bitcode for a program that all stages accepted.

## The modules

Definitions introduced by "Plausible bug" are not part of the models. Each is a variant of the
definition after it, which some run's property refutes.

### Syntax

The tokens and the nodes the stages exchange. A token is what a `switch` of the parser tells
apart: identifiers are equal except `is`, which `parseIdentifier` singles out, numbers are
equal, `.unknown` characters are operators, brackets, separators or `other`. The AST is a heap
`nodes` that only grows: a node names its children by index and keeps, instead of the string
or number it copies from a token, the *position* of that token. That is what lets properties
say which token went where.

### AST

The shape of the trees, which the enum `AST` does not fix (any case may hold any other, an array
may have any length): an operation has two parts and a conditional three, a definition begins
with its prototype, only expressions are below an expression, only declarations and definitions
are roots. `Parser` states it as what it promises (`TreesAreComplete`), `CodeGenerator` as what it
takes for granted (`Generatable`).

### Lexer

`text` and `read` are the stream; `mode` is the loop of `getToken()` that is running (`between`
tokens, in an `identifier`, a `number`, a `comment`) or how the lexer ended (`ended`; `cut`
when `Double()` refused a literal and `try?` made nil of the error; `overflowed`); `start` is where
the lexeme in progress begins, in place of the string the code accumulates; `tokens` keeps each
token with its span. After a comment `getToken()` calls itself, and these calls return when the
innermost has a token: `calls` counts the ones that wait, and a call that has no room on the stack
(`CallLimit`) ends the process. There is one action per way a loop goes on or ends: `SkipBlank`,
`Begin/Extend/EndIdentifier`, `Begin/Extend/EndNumber`, `RejectNumber`, `BeginComment`,
`InComment`, `EndComment`, `UnknownCharacter`, `Overflow`, `End`. A character is a member of a class;
Swift's `"\r\n"` is one `Character` equal to neither line break and belongs to `Others`.

### Parser

`pos` is the cursor (`tokens.current` is `tokens[pos]`, one past the end is `nil`; `parse()`'s
first read is part of `Init`). The recursion is an explicit `stack`: a frame is a call that
waits for the one above it, with the token its node will copy (`at`), its `leftPrecedence` and
the nodes it has (`kids`). `control` is the function about to run, `"return"` when one has just
returned `value` (a node or `Nil`), or the way the parser ended: `returned`, `threw`, `trapped`
(`fatalError`), `overflowed` (the thread's stack) or `exhausted` (memory, by a loop that
appends trees for ever). An action is a function up to its next call, or from a call's return
to the next one, with every read between:

| Source | Actions |
|---|---|
| `parse` | `Finish`, `SkipSeparator`, `DropLastBracket`, `ExhaustMemory` |
| `parseFunctionDefinition`, `parseExtern`, `parsePrototype` | `BeginPrototype`, `RejectPrototype`, `AddParameter`, `RejectParameter`, `EndPrototype`, `EndDefinition` |
| `parseTopLevelExpression` | `BeginTopLevel`, `EndTopLevel` |
| `parsePrimary`, `parseNumber`, `parseToken` | `NoPrimary`, `Number`, `OperatorAsPrimary`, `UnknownToken`, `Overflow` |
| `parseIdentifier` | `Variable`, `CallWithoutArguments`, `CallCutShort`, `CallWithArguments`, `EndArguments`, `NextArgument`, `RejectArguments` |
| `parseTernary` | `BeginTernary`, `EndCondition`, `EndThen`, `EndElse` |
| `parseParentheses`, `parseCurlyBrackets` | `BeginParentheses`, `EndParentheses`, `BeginCurlyBrackets`, `EndCurlyBrackets` |
| `parseExpression`, `parseBinaryOperatorRHS` | `BeginOperators`, `TakeOperator`, `ClimbOperators`, `CombineOperand`, `CombineNested`, `EndOperators` |
| `guard let ... else { return nil }` | `PropagateNil` |

### SupportedLanguage and MCParserLanguage

The abstract specification of the parser: a grammar, without a cursor, that generates programs
*together with the trees they mean*. `ParsesToReference` says that the parser ends on each of
them with exactly those trees. The grammar is the part of the documented language that the
parser gets right; its side conditions (which kind of expression may stand where) are the
precise statement of the restrictions the cursor imposes, and the violation runs below are
programs just outside of them.

### LLVMModule and StdLib

`LLVMModule` is what the generator relies on in LLVM 3.8, of which only the headers are vendored.
Types, values, instructions and the builder are translated from the headers; the symbol table and
the verifier are external. It has no variables, only operators on a sequence of functions and a sequence of
values: an instruction names its operands by their place among the values. The places where LLVM
surprises its caller are kept. `LLVMAddFunction` renames a function whose name is taken
(`UniqueName`). The builder appends to the block it was last positioned at (`InsertInto`). It
folds an operation on two constants into a constant without looking at their types
(`Operation`). A constructor asserts the types of its operands, in builds with assertions
(`WellTyped`). The verifier wants exactly one terminator, at the end of every block, operands of
the right type, and parameters of the function itself (`Verified`).

`StdLib` is the module the generator starts with: the declaration of `printf`, the definition of
`print`, and the builder left at the end of `print`.

### CodeGenerator

The recursion of `getValue` is an explicit `stack`, as in the parser: a frame is a call, with the
node it is at, the values it `got` from the calls it has made, and what it keeps in local
variables (`of`: the callee of a call, the blocks of a conditional, the block of a motif).
`functions`, `values` and `insertion` are the LLVM module and the builder; `namedValues`,
`currentFunction`, `currentBB` and `shouldReturn` are the fields of the class. `control` is
`"generating"` or how it ended: `written`, `unwritten` (the file could not be written; the
status is dropped), `threw`, `aborted` (an assertion or the verifier of LLVM).

| Source | Actions |
|---|---|
| `generate` | `BeginTree`, `Write` |
| `getValue`, `.number`, `.variable`, `.binary` | `Number`, `Variable`, `UnknownVariable`, `Operand`, `BinaryOperation`, `UnknownOperator` |
| `getValue`, `.call` | `BeginCall`, `Argument`, `BuildCall` |
| `getValue`, `.prototype` | `Prototype` |
| `getValue`, `.motif` | `BeginMotif`, `BeginKnownMotif`, `EndMotif` |
| `getValue`, `.cond` | `BeginIf`, `BeginElse`, `BeginCondition`, `BuildBranch` |

`Generatable` is what `generate` takes for granted of the trees it is given. It is the
assumption of the proofs (`ProgramsAssumption`), and TLC evaluates it on every program of
`codegen`. That the parser provides it is `ParserFeedsGenerator`, which `pipeline` checks and
`PipelineProofs` proves of the composition, names included.

### Semantics and ProgramTrees

`Semantics` is the reference for the generator: by the trees alone, with no module, builder or
field, which programs have a meaning (`WellFormed`: scopes, arities and the types `double`, `i1`,
`i32` and `void`), what the body of a motif means (`TermsIn`) and which calls it makes, each a
term, in which order (`CallsIn`). `MeaningPreserved` and `EffectsInOrder` read the generated blocks back as terms
and compare. `ProgramTrees` turns programs written as trees into heaps of nodes, for the MC
modules.

### Driver and Pipeline

`Driver` is `main.swift` as its user sees it: the arguments, the stage that runs, what has been
shown. How a stage ends is left open. `Pipeline` composes `Driver`, `Lexer`, `Parser` and
`CodeGenerator`, each an INSTANCE on its own variables. The driver's action starts a stage, the
stage runs, the driver's next action sees how it ended. `TokenList` and `Program` are what one
stage hands to the next: `ClassOf` gives the parser the class of a lexeme, `Spelled` gives the
generator the name that the token at a node's position spells. That is what lets a single model go
from characters to instructions. `ImplementsDriver` says that the composition implements
`Driver!FairSpec`. What it adds to the way the composition is written is that the stages end:
the driver's fairness is about the end of a stage, and the composition's about its next step.

## The runs

| Run | Inputs | What it shows |
|---|---|---|
| `lexer` | every text of at most 5 characters over 9 characters | `TypeOK`, `TokensAreTheText`, `TokensInOrder`, `MaximalMunch`, `OverflowOnlyAfterComments`, `LexerEnds` |
| `parser_inputs` | every sequence of at most 3 of 16 tokens; definitions, conditionals, operator chains and calls of up to 19 tokens, most of them ill-formed | what the parser never does, whatever it is given |
| `parser_language` | every program of `SupportedLanguage` over two operators | `ParsesToReference` |
| `codegen` | some 380 bodies of every kind, well typed or not, in a motif with one, two, or two equal parameters and in `main`; every sequence of at most three of 20 declarations, definitions and expressions that share names | what is generated, and for which programs |
| `pipeline` | the default program, a program with declarations, every file of two of 34 items; the two programs and every single item with each flag, and as a file that does not exist | `ParserFeedsGenerator`, `ImplementsDriver`, `ExamplesCompile` |
| `parser_conditional` | `motif f(a) { is a < 1 ? a * 2 : a + 2 }` | the documented conditional ends the process when its then-branch is an operation |
| `parser_fibonacci` | `motif fib(a) { is a < 2 ? a : fib(a - 1) + fib(a - 2) }` | the example the conditional was written for is refused |
| `parser_argument` | `f(a, b)` | a `,` after an argument is refused, although the parser's message asks for it |
| `parser_climbing` | `motif f(a) { a + b * 2 } extern g(c)` | the declaration after a body that climbed is lost, silently |
| `parser_chain` | `motif f(a) { a + a - a }`, `1 + 1 - 1` | a chain of operators of one precedence is refused in a body and overflows the stack at top level |
| `codegen_redeclared` | `extern f(a, b)`, then `motif f(b, a) { a }` | the body takes its variables from the extern's parameters |
| `pipeline_literal` | `motif f(a) { a + 1 } 1.2.5 print(1)` | the file is compiled as if it ended before `1.2.5`, and nothing says so |

The last seven are disagreements between the source and what its README, comments and messages
say; `PROJECT.json` quotes them under `findings`. Others of the kind, plain to see in the source once
one has met them, have no run:

- `>` is documented (`README.md:21`), lexed and parsed, and `getValue` has no case for it
  (`Codegen/LLVMCodeGenerator.swift:59`): the generator throws `unknownOperator`.
- `README.md:78-80` puts the flag before the file; `main.swift:12` opens the first argument whatever
  it is, and the `try!` of line 13 ends the process.
- A nested call leaves its outer bracket to `parse()` (`Parser.swift:65` takes the inner one for it),
  which stays on it for ever unless it is the very last token (line 21): `f(f(1)) f(1)` does not
  come to an end. `SpinsOnlyAtClosers` allows for it.
- `getToken()` ignores "spaces and newlines" (`Lexer.swift:19`), but a carriage return, which
  `isNewline` counts as one and which ends a comment, becomes an unknown token between two others.

The properties of `lexer`, beside its type invariant:

- `TokensAreTheText`, `TokensInOrder`, `MaximalMunch`: the tokens are the text without its blanks and
  comments, in order, and no word or number is split or keeps a character of the next token.
- `OverflowOnlyAfterComments`: a token gives all the stack back, so only comments with no token
  between them can exhaust it.
- `LexerEnds`: the lexer comes to an end, with all of the text if every literal in it is a number
  (by the text alone, `LiteralsAreNumbers`), and cut off only if one is not.

The properties of `parser_inputs`:

- `TokensUsedOnce`: within one item no token is made into two nodes, although the functions
  leave the cursor in different places.
- `SourceOrder`: the parts of every tree are in the order of the text.
- `ResultUsesTokensOnce`: on many inputs the loop builds the same tree for ever, but the trees
  of a *result* never share a token: an item that leaves the cursor on one of its own tokens is
  either the end of the input or repeated until memory runs out.
- `RightOperandBindsTighter`: precedence climbing groups as it should, with brackets as the
  only exception.
- `TreesAreComplete`: although `nil` travels through most functions and one ignores it, no tree
  lacks a part, and no definition ends up inside an expression or an expression among the roots.
- `OverflowOnlyAtOperator`: unbounded recursion has one cause.
- `ItemReturns`: only the loop of `parse()` can spin; a function it calls comes back or ends the
  parser.
- `SpinsOnlyAtClosers`: that loop spins at a `,`, a `)`, a `}` or a `?` and nowhere else: whatever
  other token an item stops at, the next turn reads on, is refused, or appends a tree.

The properties of `codegen`:

- `ArityRespected`: the arity of a call is compared before its arguments are generated, and they
  may be calls of the same function; what is built still fits.
- `ScopeRespected`: `namedValues` is stale in a motif whose name is taken, and only there: the
  exact set of instructions that can use another function's parameter.
- `CleanBetweenTrees`: a tree starts from fields without a trace of the one before, and no tree
  breaks a function that was verified: the verification of the whole module cannot fail.
- `MeaningPreserved`: what the first block of a motif returns, read back as a term, is its body.
- `EffectsInOrder`: the calls of a body are in its own block, once each and in order, and those
  of a branch in the block of the branch; the n-th top-level expression fills the n-th block of
  `main` (of which only the first is ever entered).
- `RejectsIllFormed`: bitcode is written only for a program with a meaning. There are two exceptions:
  an operation on constants one of which is a truth value, which LLVM folds without a check, and
  `StaleVariable`: after `1 extern g(b)` the expression `b` compiles, because `namedValues` still holds the
  parameter of `g` and no instruction uses it, so that the verifier has nothing to refuse.
- `AcceptsWellFormed`: a program with a meaning is compiled, whatever its calls and
  conditionals do to the builder.

The properties of `pipeline`:

- `ParserFeedsGenerator`: whatever the text, the trees the parser returns satisfy `Generatable`.
- `ImplementsDriver`: the refinement; with it, that the process ends unless the parser spins.
- `ExamplesCompile`: two programs with definitions, recursion, a declaration, a conditional,
  nested calls and comments go through every stage, and the code of their functions, read back,
  is what their text says. It depends on conventions of all three stages at once: the nested
  call of the default program leaves a bracket behind that `parse()` drops.

### Bounds

- *Lexer*: `MaxLength = 5`. The loops distinguish a character only by its class and the
  look-ahead is one character, so a lexeme, its end, a comment, its end and the lexeme after it
  fit. Keywords are spelt `m` and `mx`: a word can be a keyword, a prefix of one or longer.
  `CallLimit = 1`: one call may wait, so two comments in a row overflow, and the same two with a
  token between them do not.
- *Parser*: `MaxLength = 3` for arbitrary sequences over all token classes: every combination of
  `current` and two look-aheads, which is as far as one step sees. Longer inputs are composed in
  `MCParser` so that prototypes with several parameters, bodies followed by more program,
  conditionals, three operators and repeated arguments occur, with every action taken.
- `StackLimit = 40` (30 for the language): room for the calls any input of these sizes makes, so
  that only a runaway recursion overflows. `OverflowOnlyAtOperator` depends on it: with a stack
  of two frames nested brackets would overflow too. For `parser_inputs` the room is
  `RoomAssumption` of `MCParser`, the hypothesis under which the property is proved.
- `MemoryLimit = 5`: more top-level trees than any input has items, so only a loop that repeats
  one exceeds it.

- *Code generator*: a body is compiled by a walk that looks at one node, its fields and what its
  children returned; the bodies have every kind of node below every other where the walk could
  tell the difference (a conditional below an operation, a call, a conditional and `main`;
  constants, truth values and results of `print` as operands; calls as arguments of calls), over
  an arithmetic operator, a comparison and the refused `>`. Across trees only names and fields
  are carried, so sequences of three items over the names `f`, `g`, `main` and the library's
  have a declaration, a redeclaration and a use in every order.
- *Pipeline*: the stages' own inputs are covered by their runs; what is new is what one hands to
  the next. Two items are enough for an item that leaves the cursor or a name in a state the
  next one sees. `CallLimit = 1`, `StackLimit = 30` and `MemoryLimit = 5` are as
  for the stages.

### Fairness

The compiler is one thread that waits for nothing, so `FairSpec` is `Spec` with `WF_vars(Next)`:
a step that can be taken is taken. `Pipeline!FairSpec` and
`CodeGenerator!FairSpec` are the same for one process and one thread. `Driver!FairSpec` is weaker:
`WF` of `Start` and of the end of every stage but the parser, because `parse()` may spin.
Nothing stronger is used. `parse()` on `","` takes steps that
change nothing; `ItemReturns` and `ParsesToReference` hold although such behaviours exist, the
first because it is about the functions below the loop, the second because its programs never
lead there. `SpinsOnlyAtClosers` is about such behaviours: a step that changes
nothing is not one `WF_vars(Next)` asks for, and the parser has no other there.

Every module's specification has a step for a stopped program that changes nothing (`Ended`),
so deadlock is checked in every run and means that an action is missing.

## The proofs

`tlapm` proves the following for every set of inputs, alphabet and limit, from the assumptions
the modules name: `TextsAssumption` and `ClassesAreDisjoint` (texts are sequences of characters,
and a character has one class), `InputsAssumption`, `LimitAssumption` and `LimitsAssumption` (inputs
are sequences of tokens, limits are numbers), `ProgramsAssumption` (a program is `Generatable`); and for the
composition `CharactersAssumption`, `InvocationsAssumption`, `StringsAssumption` and
`NamesAssumption`, which say the same of the alphabet and the command lines, that the literals
are strings, and that a word spells a string other than the name LLVM would rename a function
to. TLC evaluates all of them in the runs. One theorem has a hypothesis (`RunsAwayOnlyAtOperator`,
below).

**LexerProofs.** `TypeCorrect`, `NothingIsDropped` (`TokensAreTheText`), `TokensAreInOrder`
(`TokensInOrder`), `LexemesAreMaximal` (`MaximalMunch`), `RecursionIsOverComments`
(`OverflowOnlyAfterComments`): all the safety properties of the lexer.
None is inductive by itself. `LexerInv` adds what the current loop says of the text it has read:
the lexeme in progress starts after every token and consists of characters of its class
(`LexemeInv`), tokens end before the cursor (`TokensInv`), and the lexer is in its comment loop
exactly while the text read so far leaves a comment open (`CommentInv`) — the fact that makes
"no comment becomes code" true of the next character. `OpenAfter` states it about the text alone;
the lemmas on `Commented` relate the two when one more character is read. `CallsInv` counts the
calls that wait: they are the comments that begin after the last token, but for one that is still
being read. It takes `CommentInv`, since a `#` inside a comment begins none (`CommentsAfterNext`), and
`TokensInv`, since a token ends at the cursor and leaves none to count (`NoneAfterToken`).

**ParserProofs.** `TypeCorrect`: the cursor stays within one of the end of the tokens whatever
the recursion does, children are older than their parents (so the indices draw finite trees),
and `parse()` returns nodes that exist. The work is in the stack. `ParserInv` says that it is one
the recursion of the source can have: a call of `parse()` is at the bottom and nowhere else
(`WellFormed`), every frame but the top one is a call that waits, a frame holds as many nodes as
its call has at that point (`FrameOK`: a loop over operators has its left operand, a nested climb
both), and the function that runs is the one on top (`TopMatchesControl`). Lemmas on `Push`,
`Pop`, `Advance` and `Grow` carry `WellFormed` through calls, returns and new nodes, and
`CallStep`, `ReturnStep`, `ReturnNewStep`, `HaltStep` and `ItemStep` through the ways a step
ends; then there is one lemma per action or group of actions alike.

`TreesComplete` (`TreesAreComplete`): that a node has all of its parts depends on what the call that builds it has collected, over
many steps of other calls. `TreesInv` adds what a waiting call holds (`FrameHolds`): a prototype its
parameters, a loop over operators its left operand, a conditional one expression for each part
that is done; and that a function returns `nil` or an expression. Nodes do not change, so calls in
progress keep what they hold when the heap grows.

`OperatorsGroup` (`RightOperandBindsTighter`): which operator ends up as the
right operand of another is decided by two calls, one above the other on the stack. `PairOK` is
about such a pair: above an operator that waits for its operand there is a bracket that the
token after the operator opens, or a call that makes no operation; above a nested loop there is a
loop that starts with the precedence of its operator plus one. The exception is an operator where
an operand should be: `parseToken` then calls `parseExpression` for ever, and what is on the stack
is of no use to anyone because none of these calls returns (`Runaway`).

`NodesCopyTokens`: the token a node copies its name, number or operator from is of the class that
has one. A function takes it, calls others that move the cursor, and builds the node when they
return; `CopiesInv` says it of the calls that wait, too. `PipelineProofs` needs it.

**ParserTokens.** `TokensMakeOneNode` (`TokensUsedOnce`): the functions do not agree on where they leave the cursor, but
`ClaimsInv` is what they do agree on: the tokens that waiting calls keep for their nodes and those
the item has used are all different (`Apart`) and not after the cursor, and they are before it
when a primary begins or `nil` has been returned (`Behind`). The second half is why an item that is
dropped cannot be built again from the same tokens.

`CallsBoundedByInput` is about the depth of the recursion: if the stack overflows without an
operator where an operand should be, it has no room for two calls for each token and two more.
`RunsAwayOnlyAtOperator` (`OverflowOnlyAtOperator`) follows for every stack that has that room; it
is false of a smaller one, which is why the room is a hypothesis (`MCParser` has it as
`RoomAssumption`). Every call of `parseExpression()` but one comes after a read and is two frames
deeper (`Depths`); the nested `parseBinaryOperatorRHS()` reads nothing, but the operator that waits
there was counted once, for the two frames it has. The one exception is the operator of
`parseToken`, which stays current from then on (`Runaway`).

`TreesReadLikeTheSource` (`SourceOrder`) and `ResultsUseTokensOnce`
(`ResultUsesTokensOnce`). What a call waits with, its own token and the nodes it holds, comes after
what the calls below it wait with, and all of it before `Limit`, the first token that may still be
made into a node. `Limit` is not the cursor: a primary leaves the cursor on its last token, and
whether that token has been used shows only in what it is, what runs and what was returned. The
hard case is the nested climb, which leaves the cursor further on than a plain operand: `Outer`
is about the operator that the call below takes next.

Between items `Limit` may go back by one token, when `parse()` stays on a literal it has made a tree
of. `Stuck` says that the loop then does so until memory runs out (`StuckStays`): such a state has
no result. In the others the roots are apart, item after item (`RootsApart`, `ResultInv`).

`Covered`, the set of tokens of a tree, is defined by recursion. The proofs are about every function `c` that solves the equation
of `Covered` (`Covers`): a node that is added comes after its kids, and the `c` of the longer
heap solves the equation of the shorter one, so each step has to look at one node only.
That the equation has a solution at all is an invariant of the steps, which extend one for each node they
add (`Coverable`), and so `Covered`, which chooses one, solves it (`CoveredCovers`).

**CodeGeneratorProofs.** `GeneratorInvariant` and `TypeCorrect`. `TypeOK` is not inductive: that
the block of an instruction exists depends on where the builder stands, which depends on which
motif the recursion is in. `Shape` says what the recursion and the fields have to do with each
other: a declaration or a motif is at the bottom of the stack and only expressions are above it
(`StackOK`); once a motif is entered, `currentFunction`, `currentBB` and the builder are in its
function, and before that the fields are as at the start (`FieldsOK`); a call that waits for its
arguments has the arity of its callee (`FrameOK`), which `Grown` carries through the growth of
the module. There is a lemma per way to build a value, a function, a block or a frame, one per
action, and `ShapeStays` for the step.

`ArityCorrect` (`ArityRespected`) and `CleanCorrect`
(`CleanBetweenTrees`). Both follow from one description of what a step may do to the module
(`Effect`): values and functions stay, at most one function gets instructions, these are new
values, a new call has the arity of its callee, and new instructions use what the innermost call
of `getValue` has got. `CallsInv` is an invariant of such steps. `CleanInv` says that every
function other than `currentFunction` is verified at all times: `VerifiedStays` shows that the
growth of the module cannot break a verified function, and the motif that ends verifies its own.

`ScopeCorrect` (`ScopeRespected`): a value is *mine* if it is not a
parameter of a function other than the last of the module. `ScopeInv`: `namedValues` names only
such values, because it is bound exactly where a function is added (`NamesMine`); so what the
calls in progress have got is mine (`GotsMine`); a motif that declared its name is the last
function (`Home`); functions without a block were declared by a tree (`Bare`). An instruction
that borrows a parameter is therefore in an older function, of the kind the property names
(`Borrows`).

**Recursion.** A definition `f[v \in 1 .. n] == Step(f, v)` means a function that is *chosen* to solve
its equation, so nothing can be said of it until there is one. `Recursion` has `Step` as a
CONSTANT, with one thing asked of it: that it looks below its second argument (`Looks`). Then at
most one function solves the equation (`Unique`), there is one (`Solvable`), and the one chosen
does (`Solves`). The induction is over the least number where it fails. A theorem of the library
that takes an operator cannot be applied by the provers, but an instance of a module can: the
next modules have five, for `Terms`, `TermsIn`, `TypesIn`, `Constants` and `CallsIn`.

**CodeGeneratorWalk** and **CodeGeneratorMeaning.** `BodiesKeepTheirMeaning` (`MeaningPreserved`),
`MeaningIsRequired` (`RejectsIllFormed`) and `CallsKeepTheirOrder` (`EffectsInOrder`), over the
invariant of `MeaningInvariant`. The reference
goes down a tree and the generator goes up from its leaves into a module; the invariant has to
hold while the one is half done and the other half built. Its parts:

- `Walk`: which child each call of `getValue` in progress is for. The order is not that of the
  tree: a conditional begins with its branches.
- `Symbols`: a name stands for one function, the first that was declared with it, which has the
  parameters and the result that the reference gives it. A function that LLVM renamed has no name.
- `Made`, `Bound`, `LastNames`: a value is as its constructor makes it; in a motif that declares its
  name `namedValues` are its own parameters, by position; otherwise, if names are declared once, those
  of the last declaration.
- `Matches(v, n)`: value `v` reads back as what node `n` means, is a constant only if the node is,
  and has its type unless the program mixes constants. That every value `getValue` returns matches
  its node is false, twice: a top-level expression can use a variable left of another tree, and a
  conditional *inside* an expression moves the builder and leaves its own value behind. But then
  the motif is lost (`Doomed`): an instruction is in it that the verifier will refuse, or a value
  waits that no instruction can use without being refused (`DoomedStays`, `ForeignBreaks`).
- `BodyInv`: while a body is walked, the motif is doomed, or what waits matches the children it is
  the value of (`PairsIn`) and the code is where it belongs: in the block of the motif
  (`PlainLayout`) or, for a conditional, in one block per branch that is done, which ends with the
  return of its branch (`CondLayout`).

A motif that ends was verified, so it was not doomed (`EndIsGood`). `EndHasMeaning` reads the types
off, `EndMeans` the meaning. From then on neither changes: the builder never goes back before the
block of the motif (`Onward`), so the blocks before it are done (`DoneBlocks`, `DoneStay`), and
`Means`, what the code of a function returns, is about done blocks only (`MeansStays`). `Meant` and
`Kept` say of the trees that are done what the first two properties say at the end.

The calls need an invariant of their own, because `BodyInv` says what a block *ends* with and nothing
of the rest of it. The calls that are *due* (`Due`) are those below the children that are done of
every `getValue` in progress, from the outermost to the innermost; a conditional has only those of
the child it has just got, because the builder moves on with the next. `CallsSolve` unfolds `CallsIn`
once, and from it `ExpressionDue` says what a step does to `Due`: nothing, unless it builds a call,
which comes after all of them. `BodyCalls` says the same of the block the builder is in
(`FlattenMore` and the lemmas before it are about `FlattenSeq`, which the library defines by
recursion). Together:

- `OrderInv`: a motif that is not doomed has made the calls that are due, in the block of the motif,
  which is the last of its function (`PlainCalls`), or, for a conditional, where the builder is
  (`CondCallsOpen`); the block of a branch that is done has those below the branch and gets no other
  (`CondCallsTurn`), and the block of the motif is left for the condition, which is generated last.
- `Numbered`: if names are declared once, `main` has a block for each motif of its name that has begun.
  It takes the other invariants: a conditional in `main` would add two blocks, but such a `main` is
  refused by the verifier, since a return follows the branch (`NoCondInMain`).
- `Placed`: what the property says, of the trees that are done. At the end of a motif only a return
  is added, which calls nothing (`EndCalls`), and `DoneStay` keeps the blocks from then on.

**PipelineProofs.** `TheParserFeedsTheGenerator` (`ParserFeedsGenerator`): whatever the text, the
parser gives the generator what it takes for granted. The proofs of the stages are about a lexer
and a parser on variables of their own, so the module makes an instance of `LexerProofs` and
one of `ParserProofs` on the variables of the composition; the lemmas `Same...` say that those
instances have the actions the composition is made of. `FrontInv` is then the invariant of the
lexer at all times and those of the parser once it has begun, for which the list of tokens must
stay as it is (`ParserStep`) and be one of the classes the parser knows (`TokenListType`). The
shape of the trees is `TreesInv`, the order of the nodes `ParserInv`; that each node has a name
the generator can use takes `CopiesInv` and, of the lexer, that a word or a number consists of
characters of its class.

`ImplementsDriver` is left to TLC: what it says beyond the form of the composition is liveness.

### Only model-checked

- Liveness (`LexerEnds`, `ItemReturns`, `SpinsOnlyAtClosers`, `ParsesToReference`,
  `AcceptsWellFormed`, `ExamplesCompile`, and `ImplementsDriver`, which has fairness): outside of what the prover
  handles.

## Not modelled

- The rendering of tokens and trees for `-emit-tokens` and `-emit-ast`: layout.
- The values of numbers and the spelling of names in the parser: no decision of it depends on
  them. `Double(_:)` is modelled by which strings of digits and dots it accepts.
- The depth of the generator's recursion. The parser holds several frames for every level of a
  tree on the same thread, and its stack is bounded in the model.
- The errors `uninitializedContext`, `uninitializedBuilder` and the like, for objects LLVM always
  creates, and the disposal of the builder and the module at the end of the process.
- `Extensions/ArrayExtensions.swift`: copies of arrays for the C interface of LLVM, never freed.
- LLVM 3.8 itself: its headers are vendored, its libraries are not in the repository.
  `LLVMModule` stands for the few calls the generator makes. By size the headers are nearly all
  of the repository's C and C++, and the program is Swift: the definitions that translate the data
  and the inline code of a header (`Types`, `Terminators`, `Value`, `Constant`, `Instruction`,
  `Function`; `InsertInto`, `Operation`, `CallOf`, `Branch`, `ReturnOf`, `WellTyped`, `Emit`,
  `EmitChecked`) are all that the program uses of them.
- The tests: they do not compile; their two programs are in `parser_language`.
- Whether an optimising build turns the call at the end of `getToken()` into a jump: `CallLimit` is
  any number, and no property needs the overflow.
- No promise is stated, and so none is checked, about a file that could not be written (the
  status is dropped) and about the text of a malformed program that the parser skips. The model
  has both behaviours.

## Plan

Done: `Syntax`, `AST`, `Lexer`, `Parser`, `SupportedLanguage`; `LLVMModule`, `StdLib`, `CodeGenerator`,
`Semantics`; `Driver`, `Pipeline` and their refinement; the runs of what the documentation says
otherwise; the proofs above, of every invariant that a run checks. Nothing of the plan is left.
