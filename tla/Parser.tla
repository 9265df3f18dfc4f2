------------------------------- MODULE Parser -------------------------------
(***************************************************************************)
(* The recursive-descent parser of CobainFramework/Parser/Parser.swift.    *)
(*                                                                         *)
(* The parser is one thread, and what makes it hard is its cursor.  No     *)
(* function agrees with its callers on where the cursor stands when it     *)
(* returns: a primary leaves it ON its last token, a binary expression     *)
(* PAST it, a nested call one closing bracket short.  The module keeps     *)
(* every read of the token stream and every nil, throw and fatalError of   *)
(* the source, and turns the recursion into an explicit stack: a frame is  *)
(* a call that waits for the one above it to return.                       *)
(***************************************************************************)
EXTENDS Syntax, AST, SequencesExt

CONSTANTS
  Inputs,       \* the token sequences the lexer may hand over
  StackLimit,   \* the frames the thread's stack holds
  MemoryLimit   \* the top-level trees memory holds

ASSUME InputsAssumption == Inputs \subseteq Seq(Token)
ASSUME LimitsAssumption == StackLimit \in Nat /\ MemoryLimit \in Nat

VARIABLES
  tokens,     \* the input: never changes
  pos,        \* tokens.current is tokens[pos], what remains comes after it
  control,    \* the function being executed, or how the parser ended
  stack,      \* the calls in progress, the innermost last
  value,      \* what the last function returned: a node or Nil
  nodes,      \* the AST nodes built so far
  syntaxTree  \* what parse() returns: the roots of the top-level items

vars == <<tokens, pos, control, stack, value, nodes, syntaxTree>>

Outcomes == {"returned", "threw", "trapped", "overflowed", "exhausted"}
Running  == control \notin Outcomes

-----------------------------------------------------------------------------
(* The token stream *)

TokenAt(i) == IF i \in 1..Len(tokens) THEN tokens[i] ELSE NoToken
Current    == TokenAt(pos)
Stalk      == TokenAt(pos + 1)

\* Plausible bug: nothing guards a read at the end of the stream.
UnguardedReads(n) == pos + n

\* The cursor after n reads: a read at the end leaves current = nil.
Reads(n) == IF pos + n > Len(tokens) THEN Len(tokens) + 1 ELSE pos + n

-----------------------------------------------------------------------------
(* Calls and returns *)

\* at: the token the pending node will copy; prec: leftPrecedence; kids: the
\* nodes obtained so far.
Frame(fn, at, prec, kids) ==
  [fn |-> fn, at |-> at, prec |-> prec, kids |-> kids]

Replace(f)  == Append(Front(stack), f)
AtTop(fn)   == control = "return" /\ Last(stack).fn = fn

\* Read n tokens and call parseExpression() from the calls in s.
CallExpression(s, n) ==
  /\ stack' = Append(s, Frame("parseExpression", 0, 0, <<>>))
  /\ control' = "parsePrimary"
  /\ pos' = Reads(n)
  /\ UNCHANGED <<tokens, value, nodes, syntaxTree>>

\* Read n tokens and return the node v, or nil, to the calls in s.
Return(v, s, n) ==
  /\ value' = v
  /\ control' = "return"
  /\ stack' = s
  /\ pos' = Reads(n)
  /\ UNCHANGED <<tokens, nodes, syntaxTree>>

\* Read n tokens and return a new node to the calls in s.
ReturnNew(node, s, n) ==
  /\ nodes' = Append(nodes, node)
  /\ value' = Len(nodes) + 1
  /\ control' = "return"
  /\ stack' = s
  /\ pos' = Reads(n)
  /\ UNCHANGED <<tokens, syntaxTree>>

\* An error, a trap or the end: the parser is abandoned as it stands.
Halt(outcome) ==
  /\ control' = outcome
  /\ UNCHANGED <<tokens, pos, stack, value, nodes, syntaxTree>>

-----------------------------------------------------------------------------
(* parse(): the loop over the top-level items.  Fresh is the state after its *)
(* first tokens.read().                                                     *)

Fresh ==
  /\ pos = 1
  /\ control = "parse"
  /\ stack = <<>>
  /\ value = Nil
  /\ nodes = <<>>
  /\ syntaxTree = <<>>

Init == tokens \in Inputs /\ Fresh

InLoop ==
  /\ control = "parse"
  /\ pos < Len(tokens)
  /\ Len(syntaxTree) <= MemoryLimit

Finish == control = "parse" /\ pos >= Len(tokens) /\ Halt("returned")

\* "," breaks out of the switch, not out of the loop, and reads nothing.
SkipSeparator == InLoop /\ Current = "," /\ UNCHANGED vars

\* parseFunctionDefinition and parseExtern up to the loop over parameters.
BeginPrototype ==
  /\ InLoop
  /\ Current \in Keywords
  /\ Stalk \in Identifiers /\ TokenAt(pos + 2) = "("
  /\ pos' = Reads(2)
  /\ stack' = <<Frame(Current, pos + 1, 0, <<>>)>>
  /\ control' = "parsePrototype"
  /\ UNCHANGED <<tokens, value, nodes, syntaxTree>>

RejectPrototype ==
  /\ InLoop
  /\ Current \in Keywords
  /\ ~(Stalk \in Identifiers /\ TokenAt(pos + 2) = "(")
  /\ Halt("threw")

\* Anything else is an expression, unless one ")" is all that remains.
IsTopLevel == InLoop /\ Current \notin Keywords \cup {","}

\* Plausible bug: the bracket is looked for before the end only.
LastBracketBeforeEnd == Stalk = ")" /\ pos + 1 < Len(tokens)

LastBracket == Stalk = ")" /\ pos + 1 = Len(tokens)

DropLastBracket ==
  /\ IsTopLevel
  /\ LastBracket
  /\ pos' = Reads(1)
  /\ UNCHANGED <<tokens, control, stack, value, nodes, syntaxTree>>

BeginTopLevel ==
  /\ IsTopLevel
  /\ ~LastBracket
  /\ CallExpression(<<Frame("parseTopLevelExpression", 0, 0, <<>>)>>, 0)

\* The loop appended trees until none fits.
ExhaustMemory ==
  /\ control = "parse" /\ pos < Len(tokens)
  /\ Len(syntaxTree) > MemoryLimit
  /\ Halt("exhausted")

EndTopLevel ==
  /\ AtTop("parseTopLevelExpression")
  /\ control' = "parse"
  /\ stack' = <<>>
  /\ IF value = Nil
       THEN UNCHANGED <<nodes, syntaxTree>>
       ELSE LET main == Len(nodes) + 1 IN
            /\ nodes' = nodes \o << Node("prototype", 0, <<>>),
                                    Node("motif", 0, <<main, value>>) >>
            /\ syntaxTree' = Append(syntaxTree, main + 1)
  /\ UNCHANGED <<tokens, pos, value>>

EndDefinition ==
  /\ AtTop("parseFunctionDefinition")
  /\ control' = "parse"
  /\ stack' = <<>>
  /\ LET proto == Last(stack).kids
         body  == IF value = Nil THEN <<>> ELSE <<value>>
     IN  nodes' = Append(nodes, Node("motif", 0, proto \o body))
  /\ syntaxTree' = Append(syntaxTree, Len(nodes) + 1)
  /\ UNCHANGED <<tokens, pos, value>>

-----------------------------------------------------------------------------
(* parsePrototype(): the loop over the parameters; the commas are optional *)

AddParameter ==
  /\ control = "parsePrototype"
  /\ Stalk \in Identifiers
  /\ nodes' = Append(nodes, Node("param", pos + 1, <<>>))
  /\ stack' = Replace([Last(stack) EXCEPT !.kids = Append(@, Len(nodes) + 1)])
  /\ pos' = IF TokenAt(pos + 2) = "," THEN Reads(2) ELSE Reads(1)
  /\ UNCHANGED <<tokens, control, value, syntaxTree>>

\* An extern is complete; a motif goes on to its body.
EndPrototype ==
  /\ control = "parsePrototype"
  /\ Stalk = ")"
  /\ LET f     == Last(stack)
         proto == Len(nodes) + 1
     IN  /\ nodes' = Append(nodes, Node("prototype", f.at, f.kids))
         /\ IF f.fn = "extern"
              THEN /\ syntaxTree' = Append(syntaxTree, proto)
                   /\ stack' = <<>>
                   /\ control' = "parse"
              ELSE /\ stack' = << Frame("parseFunctionDefinition", 0, 0, <<proto>>),
                                  Frame("parseExpression", 0, 0, <<>>) >>
                   /\ control' = "parsePrimary"
                   /\ UNCHANGED syntaxTree
  /\ pos' = Reads(2)
  /\ UNCHANGED <<tokens, value>>

\* Plausible bug: the loop waits for a ")" that may never come.
AwaitBracket ==
  /\ control = "parsePrototype"
  /\ Stalk \notin Identifiers \cup {")"}
  /\ UNCHANGED vars

RejectParameter ==
  /\ control = "parsePrototype"
  /\ Stalk \notin Identifiers \cup {")"}
  /\ Halt("threw")

-----------------------------------------------------------------------------
(* parsePrimary(), with parseNumber, parseIdentifier and parseToken        *)

AtPrimary == control = "parsePrimary" /\ Len(stack) <= StackLimit

\* A frame too many ends the process.
Overflow ==
  /\ control = "parsePrimary"
  /\ Len(stack) > StackLimit
  /\ Halt("overflowed")

NoPrimary ==
  /\ AtPrimary
  /\ \/ Current \in Keywords \cup {NoToken, "}", ")", "?"}
     \/ Current \in Identifiers /\ Stalk = NoToken
  /\ Return(Nil, stack, 0)

Number ==
  /\ AtPrimary
  /\ Current = "number"
  /\ ReturnNew(Node("number", pos, <<>>), stack, 0)

\* Plausible bug: the test for the "(" of a call is dropped.
VariableBeforeBracket ==
  /\ AtPrimary
  /\ Current = "identifier" /\ Stalk # NoToken
  /\ ReturnNew(Node("variable", pos, <<>>), stack, 0)

Variable ==
  /\ AtPrimary
  /\ Current = "identifier" /\ Stalk \notin {NoToken, "("}
  /\ ReturnNew(Node("variable", pos, <<>>), stack, 0)

IsCall == AtPrimary /\ Current = "identifier" /\ Stalk = "("

CallWithoutArguments ==
  /\ IsCall
  /\ TokenAt(pos + 2) = ")"
  /\ ReturnNew(Node("call", pos, <<>>), stack, 2)

\* Plausible bug: the name and the "(" are looked at and not consumed.
CallCutShortInPlace ==
  /\ IsCall
  /\ TokenAt(pos + 2) \in Keywords \cup {NoToken}
  /\ Return(Nil, stack, 0)

CallCutShort ==
  /\ IsCall
  /\ TokenAt(pos + 2) \in Keywords \cup {NoToken}
  /\ Return(Nil, stack, 2)

CallWithArguments ==
  /\ IsCall
  /\ TokenAt(pos + 2) \notin Keywords \cup {NoToken, ")"}
  /\ CallExpression(Append(stack, Frame("argument", pos, 0, <<>>)), 2)

BeginTernary ==
  /\ AtPrimary
  /\ Current = "is" /\ Stalk # NoToken
  /\ CallExpression(Append(stack, Frame("condition", pos, 0, <<>>)), 1)

\* parseToken calls parseExpression with the operator still current.
OperatorAsPrimary ==
  /\ AtPrimary
  /\ Current \in Operators
  /\ CallExpression(stack, 0)

\* The token read after the first inner one is kept, as `next', in at.
BeginParentheses ==
  /\ AtPrimary
  /\ Current = "("
  /\ IF TokenAt(pos + 2) = NoToken
       THEN Return(Nil, stack, 2)
       ELSE CallExpression(Append(stack, Frame("parentheses", pos + 2, 0, <<>>)), 2)

\* Plausible bug: the "{" is not eaten.
BeginCurlyBracketsInPlace ==
  /\ AtPrimary
  /\ Current = "{"
  /\ CallExpression(Append(stack, Frame("curlyBrackets", 0, 0, <<>>)), 0)

BeginCurlyBrackets ==
  /\ AtPrimary
  /\ Current = "{"
  /\ CallExpression(Append(stack, Frame("curlyBrackets", 0, 0, <<>>)), 1)

UnknownToken ==
  /\ AtPrimary
  /\ Current \in {",", ":", "other"}
  /\ Halt("threw")

-----------------------------------------------------------------------------
(* parseExpression() and parseBinaryOperatorRHS()                          *)

LoopFrame(prec, lhs) == Frame("parseBinaryOperatorRHS", 0, prec, <<lhs>>)

\* parseExpression goes on to its operators once it has a left operand.
BeginOperators ==
  /\ AtTop("parseExpression") /\ value # Nil
  /\ stack' = Replace(LoopFrame(0, value))
  /\ control' = "parseBinaryOperatorRHS"
  /\ UNCHANGED <<tokens, pos, value, nodes, syntaxTree>>

\* The next token is an operator that binds tighter than prec.
Climbs(prec) == Stalk \in Operators /\ Precedence(Stalk) > prec

TakeOperator ==
  LET f == Last(stack) IN
  /\ control = "parseBinaryOperatorRHS"
  /\ Climbs(f.prec)
  /\ stack' = Replace(Frame("operand", pos + 1, f.prec, f.kids))
  /\ control' = "parsePrimary"
  /\ pos' = Reads(2)
  /\ UNCHANGED <<tokens, value, nodes, syntaxTree>>

EndOperators ==
  /\ control = "parseBinaryOperatorRHS"
  /\ ~Climbs(Last(stack).prec)
  /\ Return(Last(stack).kids[1], Front(stack), 0)

\* Plausible bug: the left precedence stands for the operator's own.
ClimbOperatorsFromLeft ==
  LET f == Last(stack) IN
  /\ AtTop("operand") /\ value # Nil
  /\ Climbs(f.prec)
  /\ stack' = Append(Replace(Frame("nested", f.at, f.prec, Append(f.kids, value))),
                     LoopFrame(f.prec + 1, value))
  /\ control' = "parseBinaryOperatorRHS"
  /\ UNCHANGED <<tokens, pos, value, nodes, syntaxTree>>

\* The operator after the right operand is tighter: it takes the operand.
ClimbOperators ==
  LET f    == Last(stack)
      prec == Precedence(tokens[f.at])
  IN
  /\ AtTop("operand") /\ value # Nil
  /\ Climbs(prec)
  /\ stack' = Append(Replace(Frame("nested", f.at, f.prec, Append(f.kids, value))),
                     LoopFrame(prec + 1, value))
  /\ control' = "parseBinaryOperatorRHS"
  /\ UNCHANGED <<tokens, pos, value, nodes, syntaxTree>>

\* Plausible bug: the operands change places.
CombineSwapped(f, rhs) ==
  /\ nodes' = Append(nodes, Node("binary", f.at, <<rhs, f.kids[1]>>))
  /\ stack' = Replace(LoopFrame(f.prec, Len(nodes) + 1))
  /\ control' = "parseBinaryOperatorRHS"
  /\ pos' = Reads(1)
  /\ UNCHANGED <<tokens, value, syntaxTree>>

\* Both operands are there.  The read steps over the right one, or, after a
\* nested loop, over the token that follows it.
Combine(f, rhs) ==
  /\ nodes' = Append(nodes, Node("binary", f.at, <<f.kids[1], rhs>>))
  /\ stack' = Replace(LoopFrame(f.prec, Len(nodes) + 1))
  /\ control' = "parseBinaryOperatorRHS"
  /\ pos' = Reads(1)
  /\ UNCHANGED <<tokens, value, syntaxTree>>

CombineOperand ==
  /\ AtTop("operand") /\ value # Nil
  /\ ~Climbs(Precedence(tokens[Last(stack).at]))
  /\ Combine(Last(stack), value)

CombineNested ==
  /\ AtTop("nested")
  /\ Combine(Last(stack), IF value = Nil THEN Last(stack).kids[2] ELSE value)

-----------------------------------------------------------------------------
(* The rest of parseIdentifier (the arguments), parseTernary,              *)
(* parseParentheses and parseCurlyBrackets, once parseExpression returns.  *)

\* nil travels up through every guard-let.
PropagateNil ==
  /\ control = "return" /\ value = Nil
  /\ Last(stack).fn \in {"parseExpression", "operand", "argument", "condition",
                         "parentheses"}
  /\ Return(Nil, Front(stack), 0)

AtArgument == AtTop("argument") /\ value # Nil

\* ")" may be current (after a binary argument) or still to be read.
EndArguments ==
  LET f == Last(stack) IN
  /\ AtArgument
  /\ ")" \in {Current, Stalk}
  /\ ReturnNew(Node("call", f.at, Append(f.kids, value)), Front(stack),
               IF Current = ")" THEN 0 ELSE 1)

\* The loop comes back to parseExpression with "," as the current token.
NextArgument ==
  /\ AtArgument
  /\ Current # ")" /\ Stalk = ","
  /\ CallExpression(Replace([Last(stack) EXCEPT !.kids = Append(@, value)]), 1)

RejectArguments ==
  /\ AtArgument
  /\ Current # ")" /\ Stalk \notin {")", ","}
  /\ Halt("threw")

EndCondition ==
  LET f == Last(stack) IN
  /\ AtTop("condition") /\ value # Nil
  /\ IF Current = "?"
       THEN CallExpression(Replace(Frame("then", f.at, 0, <<value>>)), 1)
       ELSE Halt("trapped")

\* Plausible bug: the ":" is looked at and not consumed.
EndThenInPlace ==
  LET f == Last(stack) IN
  /\ AtTop("then")
  /\ IF value # Nil /\ Stalk = ":"
       THEN CallExpression(Replace(Frame("else", f.at, 0, Append(f.kids, value))), 0)
       ELSE Halt("trapped")

EndThen ==
  LET f == Last(stack) IN
  /\ AtTop("then")
  /\ IF value # Nil /\ Stalk = ":"
       THEN CallExpression(Replace(Frame("else", f.at, 0, Append(f.kids, value))), 2)
       ELSE Halt("trapped")

\* Plausible bug: an else-branch that is not there is left out.
EndElseWithoutBranch ==
  LET f == Last(stack) IN
  /\ AtTop("else")
  /\ ReturnNew(Node("cond", f.at, f.kids \o (IF value = Nil THEN <<>> ELSE <<value>>)),
               Front(stack), 0)

EndElse ==
  LET f == Last(stack) IN
  /\ AtTop("else")
  /\ IF value = Nil
       THEN Halt("trapped")
       ELSE ReturnNew(Node("cond", f.at, Append(f.kids, value)), Front(stack), 0)

EndParentheses ==
  /\ AtTop("parentheses") /\ value # Nil
  /\ IF tokens[Last(stack).at] \in Unknown \ {")"}
       THEN Halt("threw")
       ELSE Return(value, Front(stack), 0)

EndCurlyBrackets ==
  /\ AtTop("curlyBrackets")
  /\ IF Current \in Unknown \ {"}"}
       THEN Halt("threw")
       ELSE Return(value, Front(stack), 1)

-----------------------------------------------------------------------------

Parse ==
  \/ Finish \/ SkipSeparator \/ BeginPrototype \/ RejectPrototype
  \/ DropLastBracket \/ BeginTopLevel \/ ExhaustMemory
  \/ EndTopLevel \/ EndDefinition

ParsePrototype == AddParameter \/ EndPrototype \/ RejectParameter

ParsePrimary ==
  \/ Overflow \/ NoPrimary \/ Number \/ Variable
  \/ CallWithoutArguments \/ CallCutShort \/ CallWithArguments
  \/ BeginTernary \/ OperatorAsPrimary \/ BeginParentheses
  \/ BeginCurlyBrackets \/ UnknownToken

ParseOperators ==
  \/ BeginOperators \/ TakeOperator \/ EndOperators
  \/ ClimbOperators \/ CombineOperand \/ CombineNested

Resume ==
  \/ PropagateNil \/ EndArguments \/ NextArgument \/ RejectArguments
  \/ EndCondition \/ EndThen \/ EndElse
  \/ EndParentheses \/ EndCurlyBrackets

\* The parser has ended and stays so.
Ended == ~Running /\ UNCHANGED vars

Next ==
  Parse \/ ParsePrototype \/ ParsePrimary \/ ParseOperators \/ Resume \/ Ended

Spec == Init /\ [][Next]_vars

\* One thread runs the parser and nothing else holds it up.
FairSpec == Spec /\ WF_vars(Next)

-----------------------------------------------------------------------------
(* Properties *)

CallSites == Keywords \cup
  {"parseTopLevelExpression", "parseFunctionDefinition", "parseExpression",
   "parseBinaryOperatorRHS", "operand", "nested", "argument", "condition",
   "then", "else", "parentheses", "curlyBrackets"}

(* Every variable has its type; a child is an older node than its parent,  *)
(* so what the indices draw are trees.                                     *)
TypeOK ==
  /\ tokens \in Seq(Token)
  /\ pos \in 1 .. Len(tokens) + 1
  /\ control \in Outcomes \cup {"parse", "parsePrototype", "parsePrimary",
                                "parseBinaryOperatorRHS", "return"}
  /\ stack \in Seq([fn : CallSites, at : Nat, prec : Nat, kids : Seq(Nat)])
  /\ value \in 0 .. Len(nodes)
  /\ nodes \in Seq([kind : NodeKinds, at : Nat, kids : Seq(Nat)])
  /\ \A n \in DOMAIN nodes : \A i \in DOMAIN nodes[n].kids :
       nodes[n].kids[i] \in 1 .. n - 1
  /\ syntaxTree \in Seq(DOMAIN nodes)

(* Each function leaves some node out when its operands are not there, yet *)
(* what the parser builds and returns is always complete: a conditional    *)
(* has three parts and an operation two, a definition begins with its      *)
(* prototype, and no definition is below an expression.  The code          *)
(* generator takes that for granted and the enum AST does not ensure it.   *)
TreesAreComplete == CompleteTrees(nodes, syntaxTree)

(* The cursor conventions differ from function to function, yet within one *)
(* top-level item no token is made into two nodes: between two nodes of    *)
(* the same token an item was completed.                                   *)
TokensUsedOnce ==
  \A m, n \in DOMAIN nodes :
    (m < n /\ nodes[m].at = nodes[n].at /\ nodes[m].at # 0)
      => \E t \in Range(syntaxTree) : m <= t /\ t < n

\* The tokens a node and what is below it are made from.
Covered ==
  LET cover[n \in DOMAIN nodes] ==
        ({nodes[n].at} \ {0}) \cup UNION {cover[k] : k \in Range(nodes[n].kids)}
  IN cover

Before(S, T) == \A i \in S, j \in T : i < j

(* A tree reads like the source: the parts of a node come from the tokens  *)
(* in the order of the text, the operator of a binary between its operands *)
(* and any other head before its children.                                 *)
SourceOrder ==
  LET cover == Covered IN
  \A n \in DOMAIN nodes :
    LET node  == nodes[n]
        kid   == [i \in DOMAIN node.kids |-> cover[node.kids[i]]]
        head  == {node.at} \ {0}
    IN  /\ \A i, j \in DOMAIN kid : i < j => Before(kid[i], kid[j])
        /\ IF node.kind = "binary"
             THEN Before(kid[1], head) /\ Before(head, kid[2])
             ELSE \A i \in DOMAIN kid : Before(head, kid[i])

(* parse() goes round its loop without reading anything on many inputs and *)
(* then builds the same tree again and again, but it cannot return what it *)
(* built: a result never uses a token for two of its trees.                *)
ResultUsesTokensOnce ==
  control = "returned" =>
    LET cover == Covered IN
    \A i, j \in DOMAIN syntaxTree :
      i < j => cover[syntaxTree[i]] \cap cover[syntaxTree[j]] = {}

(* Precedence climbing: the right operand of an operator is a binary only  *)
(* if its operator binds tighter or a bracket opens the operand.           *)
RightOperandBindsTighter ==
  \A n \in DOMAIN nodes : nodes[n].kind = "binary" =>
    LET right == nodes[nodes[n].kids[2]] IN
    right.kind = "binary" =>
      \/ Precedence(tokens[right.at]) > Precedence(tokens[nodes[n].at])
      \/ TokenAt(nodes[n].at + 1) \in {"(", "{"}

(* The recursion runs away only where parseToken meets an operator and     *)
(* calls parseExpression without reading it; every other call reads, so    *)
(* its depth is bounded by the length of the input.                        *)
OverflowOnlyAtOperator == control = "overflowed" => Current \in Operators

(* Whatever the tokens are, a function the loop of parse() calls comes     *)
(* back to it or ends the parser: only the loop itself can spin.           *)
ItemReturns == (stack # <<>>) ~> (stack = <<>> \/ ~Running)

\* What parse() and parsePrimary() leave to a caller that is not there.
Closers == {",", ")", "}", "?"}

(* parse() goes round its loop without an end on many inputs, but only on  *)
(* one of the four tokens it or parseToken leave to a caller: whatever     *)
(* else an item stops at, nil or not, the next turn of the loop reads on,  *)
(* is refused, or builds the tree of a literal until memory is exhausted.  *)
SpinsOnlyAtClosers == <>(~Running) \/ <>[](Current \in Closers)

=============================================================================
