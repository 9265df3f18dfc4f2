---------------------------- MODULE ParserProofs -----------------------------
(***************************************************************************)
(* Type correctness of the parser, for every input and every limit.        *)
(*                                                                         *)
(* The recursion of the source is what makes its calls and returns match;  *)
(* with the recursion turned into a stack, that is something to prove.     *)
(* ParserInv adds to TypeOK that the stack is one the source can have:     *)
(* what is at its bottom, what may wait below what, how much of its node   *)
(* each call has when it waits, and which function runs on top.            *)
(***************************************************************************)
EXTENDS Parser, SequenceTheorems, TLAPS

RHS == "parseBinaryOperatorRHS"

FrameType == [fn : CallSites, at : Nat, prec : Nat, kids : Seq(Nat)]
NodeType  == [kind : NodeKinds, at : Nat, kids : Seq(Nat)]

\* The calls the loop of parse() makes: they are alone at the bottom.
Bottoms == Keywords \cup {"parseTopLevelExpression", "parseFunctionDefinition"}

\* The functions that wait for a call of theirs to return.
Waiting(f) == f.fn \notin Keywords \cup {RHS}

\* What a call has obtained, of the first n nodes.
FrameOK(f, n) ==
  /\ \A k \in DOMAIN f.kids : f.kids[k] \in 1 .. n
  /\ f.fn \in {RHS, "operand"} => Len(f.kids) = 1
  /\ f.fn = "nested" => Len(f.kids) = 2
  /\ f.fn \in {"operand", "nested"} => f.at \in DOMAIN tokens /\ tokens[f.at] \in Operators

\* s is a stack of calls over the first n nodes.
WellFormed(s, n) ==
  /\ s \in Seq(FrameType)
  /\ \A i \in 1 .. Len(s) : FrameOK(s[i], n)
  /\ \A i \in 1 .. Len(s) - 1 : Waiting(s[i])
  /\ \A i \in 1 .. Len(s) : s[i].fn \in Bottoms <=> i = 1

TopMatchesControl ==
  /\ control = "parse" => stack = <<>>
  /\ Running /\ control # "parse" => stack # <<>>
  /\ control = "parsePrototype" => Last(stack).fn \in Keywords
  /\ control = "parsePrimary" => Last(stack).fn \in {"parseExpression", "operand"}
  /\ control = RHS => Last(stack).fn = RHS
  /\ control = "return" => Waiting(Last(stack))

ParserInv == TypeOK /\ WellFormed(stack, Len(nodes)) /\ TopMatchesControl

-----------------------------------------------------------------------------
(* Stacks *)

LEMMA FrontLast ==
  ASSUME NEW S, NEW s \in Seq(S), s # <<>>
  PROVE  /\ Front(s) \in Seq(S) /\ Len(Front(s)) = Len(s) - 1 /\ Len(s) \in Nat \ {0}
         /\ \A i \in 1 .. Len(s) - 1 : Front(s)[i] = s[i]
         /\ Last(s) = s[Len(s)] /\ Last(s) \in S
<1>1. Len(s) \in Nat \ {0}
  OBVIOUS
<1>2. Front(s) \in Seq(S) /\ Len(Front(s)) = Len(s) - 1
  <2>1. PICK k \in Nat \ {0} : k = Len(s)
    BY <1>1
  <2>2. 1 \in Int /\ k - 1 \in Int /\ \A i \in 1 .. k - 1 : s[i] \in S
    BY <2>1
  <2>3. SubSeq(s, 1, k - 1) \in Seq(S) /\ Len(SubSeq(s, 1, k - 1)) = k - 1
    BY <2>2, SubSeqProperties
  <2> QED  BY <2>1, <2>3 DEF Front
<1>3. \A i \in 1 .. Len(s) - 1 : Front(s)[i] = s[i]
  BY <1>1 DEF Front
<1>4. s[Len(s)] \in S
  BY <1>1
<1> QED  BY <1>1, <1>2, <1>3, <1>4 DEF Last

LEMMA Appended ==
  ASSUME NEW S, NEW s \in Seq(S), NEW e \in S
  PROVE  /\ Append(s, e) \in Seq(S) /\ Len(Append(s, e)) = Len(s) + 1
         /\ \A i \in 1 .. Len(s) : Append(s, e)[i] = s[i]
         /\ Append(s, e)[Len(s) + 1] = e
         /\ Last(Append(s, e)) = e
         /\ Append(s, e) # <<>>
  BY DEF Last

LEMMA FrameFacts ==
  ASSUME NEW n, NEW s, WellFormed(s, n), s # <<>>
  PROVE  /\ Last(s) \in FrameType /\ FrameOK(Last(s), n)
         /\ Len(s) \in Nat \ {0}
         /\ Last(s).fn \in Bottoms <=> Len(s) = 1
         /\ Last(s).fn \notin Bottoms => 2 <= Len(s)
<1>1. s \in Seq(FrameType)  BY DEF WellFormed
<1>2. Len(s) \in Nat \ {0} /\ Last(s) = s[Len(s)] /\ Last(s) \in FrameType
  BY <1>1, FrontLast
<1>3. PICK k \in Nat \ {0} : k = Len(s)
  BY <1>2
<1>4. k \in 1 .. k /\ (k # 1 => 2 <= k)
  BY <1>3
<1> QED  BY <1>2, <1>3, <1>4 DEF WellFormed

\* A call pushed on a call that waits.
LEMMA Push ==
  ASSUME NEW n, NEW s, WellFormed(s, n), s # <<>>, Waiting(Last(s)),
         NEW f \in FrameType, FrameOK(f, n), f.fn \notin Bottoms
  PROVE  /\ WellFormed(Append(s, f), n)
         /\ Last(Append(s, f)) = f /\ Len(Append(s, f)) = Len(s) + 1 /\ 2 <= Len(s) + 1
         /\ Append(s, f) # <<>>
<1> DEFINE t == Append(s, f)
<1>1. s \in Seq(FrameType)  BY DEF WellFormed
<1>2. /\ t \in Seq(FrameType) /\ Len(t) = Len(s) + 1 /\ t[Len(s) + 1] = f
      /\ \A i \in 1 .. Len(s) : t[i] = s[i]
      /\ Last(t) = f /\ t # <<>>
  BY <1>1, Appended
<1>3. Len(s) \in Nat \ {0} /\ Last(s) = s[Len(s)]
  BY <1>1, FrontLast
<1>4. \A i \in 1 .. Len(t) : i \in 1 .. Len(s) \/ i = Len(s) + 1
  BY <1>2, <1>3
<1>5. \A i \in 1 .. Len(t) : FrameOK(t[i], n)
  BY <1>2, <1>4 DEF WellFormed
<1>6. \A i \in 1 .. Len(t) - 1 : Waiting(t[i])
  <2>1. \A i \in 1 .. Len(t) - 1 : i \in 1 .. Len(s) - 1 \/ i = Len(s)
    BY <1>2, <1>3
  <2> QED  BY <1>2, <1>3, <2>1 DEF WellFormed
<1>7. \A i \in 1 .. Len(t) : t[i].fn \in Bottoms <=> i = 1
  BY <1>2, <1>3, <1>4 DEF WellFormed
<1> QED  BY <1>2, <1>3, <1>5, <1>6, <1>7 DEF WellFormed

\* The call on top returns.
LEMMA Pop ==
  ASSUME NEW n, NEW s, WellFormed(s, n), s # <<>>, Last(s).fn \notin Bottoms
  PROVE  /\ WellFormed(Front(s), n) /\ Front(s) # <<>> /\ Waiting(Last(Front(s)))
         /\ Len(Front(s)) = Len(s) - 1 /\ Len(s) \in Nat /\ 2 <= Len(s)
<1> DEFINE t == Front(s)
<1>1. s \in Seq(FrameType)  BY DEF WellFormed
<1>2. Len(s) \in Nat /\ 2 <= Len(s)  BY FrameFacts
<1>3. /\ t \in Seq(FrameType) /\ Len(t) = Len(s) - 1
      /\ \A i \in 1 .. Len(s) - 1 : t[i] = s[i]
  BY <1>1, FrontLast
<1>4. t # <<>> /\ Last(t) = s[Len(s) - 1]
  <2>1. t # <<>>  BY <1>2, <1>3
  <2>2. Last(t) = t[Len(t)]  BY <1>3, <2>1, FrontLast
  <2> QED  BY <1>2, <1>3, <2>1, <2>2
<1>5. Waiting(Last(t))  BY <1>2, <1>4 DEF WellFormed
<1>6. WellFormed(t, n)  BY <1>2, <1>3 DEF WellFormed
<1> QED  BY <1>2, <1>3, <1>4, <1>5, <1>6

\* The call on top goes on to its next stage.
LEMMA Advance ==
  ASSUME NEW n, NEW s, WellFormed(s, n), s # <<>>, Last(s).fn \notin Bottoms,
         NEW f \in FrameType, FrameOK(f, n), f.fn \notin Bottoms
  PROVE  /\ WellFormed(Append(Front(s), f), n)
         /\ Last(Append(Front(s), f)) = f /\ Len(Append(Front(s), f)) = Len(s)
         /\ 2 <= Len(s) /\ Append(Front(s), f) # <<>>
  BY Pop, Push

\* One call alone.
LEMMA Alone ==
  ASSUME NEW n, NEW f \in FrameType, FrameOK(f, n), f.fn \in Bottoms
  PROVE  WellFormed(<<f>>, n) /\ Last(<<f>>) = f /\ Len(<<f>>) = 1 /\ <<f>> # <<>>
  BY DEF WellFormed, Last

\* The heap only grows under a stack.
LEMMA Grow ==
  ASSUME NEW n \in Nat, NEW m \in Nat, n <= m, NEW s, WellFormed(s, n)
  PROVE  WellFormed(s, m)
<1>1. \A f : FrameOK(f, n) => FrameOK(f, m)  BY DEF FrameOK
<1> QED  BY <1>1 DEF WellFormed

LEMMA SameTokens ==
  ASSUME tokens' = tokens
  PROVE  \A s, n : WellFormed(s, n)' <=> WellFormed(s, n)
<1>1. \A f, n : FrameOK(f, n)' <=> FrameOK(f, n)  BY DEF FrameOK
<1> QED  BY <1>1 DEF WellFormed, Waiting

-----------------------------------------------------------------------------
(* The ways a step ends *)

LEMMA Counters ==
  ASSUME ParserInv
  PROVE  Len(nodes) \in Nat /\ pos \in Nat /\ Nil \in 0 .. Len(nodes) /\ value \in 0 .. Len(nodes)
<1>1. nodes \in Seq(NodeType) /\ tokens \in Seq(Token)  BY DEF ParserInv, TypeOK, NodeType
<1>2. Len(nodes) \in Nat /\ Len(tokens) \in Nat  BY <1>1
<1> QED  BY <1>2 DEF ParserInv, TypeOK, Nil

LEMMA ReadsType ==
  ASSUME TypeOK, NEW n \in Nat
  PROVE  Reads(n) \in 1 .. Len(tokens) + 1
  BY DEF TypeOK, Reads

LEMMA HaltStep ==
  ASSUME ParserInv, NEW outcome \in Outcomes, Halt(outcome)
  PROVE  ParserInv'
<1>1. TypeOK'
  BY DEF Halt, ParserInv, TypeOK
<1>2. WellFormed(stack, Len(nodes))'
  BY SameTokens DEF Halt, ParserInv
<1>3. TopMatchesControl'
  BY DEF Halt, TopMatchesControl, Outcomes, Running, RHS
<1> QED  BY <1>1, <1>2, <1>3 DEF ParserInv

\* The calls in s are in order to be waited for.
CanReturnTo(s) == WellFormed(s, Len(nodes)) /\ s # <<>> /\ Waiting(Last(s))

LEMMA CallStep ==
  ASSUME ParserInv, NEW s, CanReturnTo(s), NEW n \in Nat, CallExpression(s, n)
  PROVE  ParserInv'
<1> DEFINE f == Frame("parseExpression", 0, 0, <<>>)
<1>1. f \in FrameType /\ FrameOK(f, Len(nodes)) /\ f.fn \notin Bottoms /\ f.fn = "parseExpression"
  BY DEF Frame, FrameType, CallSites, FrameOK, Bottoms, Keywords, RHS
<1>2. /\ stack' = Append(s, f) /\ control' = "parsePrimary" /\ pos' = Reads(n)
      /\ UNCHANGED <<tokens, value, nodes, syntaxTree>>
  BY DEF CallExpression
<1>3. WellFormed(Append(s, f), Len(nodes)) /\ Last(Append(s, f)) = f /\ Append(s, f) # <<>>
  BY <1>1, Push DEF CanReturnTo
<1>4. WellFormed(stack, Len(nodes))'
  BY <1>2, <1>3, SameTokens
<1>5. TypeOK'
  BY <1>2, <1>3, ReadsType DEF ParserInv, TypeOK, WellFormed, FrameType, Outcomes
<1>6. TopMatchesControl'
  BY <1>1, <1>2, <1>3 DEF TopMatchesControl, RHS
<1> QED  BY <1>4, <1>5, <1>6 DEF ParserInv

LEMMA ReturnStep ==
  ASSUME ParserInv, NEW v \in 0 .. Len(nodes), NEW s, CanReturnTo(s), NEW n \in Nat,
         Return(v, s, n)
  PROVE  ParserInv'
<1>1. /\ stack' = s /\ control' = "return" /\ pos' = Reads(n) /\ value' = v
      /\ UNCHANGED <<tokens, nodes, syntaxTree>>
  BY DEF Return
<1>2. WellFormed(stack, Len(nodes))'
  BY <1>1, SameTokens DEF CanReturnTo
<1>3. TypeOK'
  BY <1>1, ReadsType DEF ParserInv, TypeOK, CanReturnTo, WellFormed, FrameType, Outcomes
<1>4. TopMatchesControl'
  BY <1>1 DEF TopMatchesControl, RHS, CanReturnTo, Waiting
<1> QED  BY <1>2, <1>3, <1>4 DEF ParserInv

\* The children of a node are older than it: h is a heap of trees.
HeapOK(h) ==
  /\ h \in Seq(NodeType)
  /\ \A n \in DOMAIN h : \A i \in DOMAIN h[n].kids : h[n].kids[i] \in 1 .. n - 1

\* A new node whose children are there keeps the heap a set of trees.
LEMMA NewNode ==
  ASSUME NEW h, HeapOK(h), NEW node \in NodeType,
         \A k \in DOMAIN node.kids : node.kids[k] \in 1 .. Len(h)
  PROVE  /\ HeapOK(Append(h, node))
         /\ Len(h) \in Nat /\ Len(Append(h, node)) = Len(h) + 1
         /\ DOMAIN h \subseteq DOMAIN Append(h, node)
         /\ Len(h) + 1 \in DOMAIN Append(h, node)
<1> DEFINE g == Append(h, node)
<1>1. /\ g \in Seq(NodeType) /\ Len(g) = Len(h) + 1
      /\ \A i \in 1 .. Len(h) : g[i] = h[i]
      /\ g[Len(h) + 1] = node
  BY Appended DEF HeapOK
<1>2. PICK k \in Nat : k = Len(h) /\ DOMAIN h = 1 .. k
  BY DEF HeapOK
<1>3. DOMAIN g = 1 .. k + 1  BY <1>1, <1>2
<1>4. \A n \in 1 .. k + 1 : n \in 1 .. k \/ n = k + 1  BY <1>2
<1>5. ASSUME NEW n \in DOMAIN g, NEW i \in DOMAIN g[n].kids
      PROVE  g[n].kids[i] \in 1 .. n - 1
  <2>1. CASE n \in 1 .. k
    BY <1>1, <1>2, <1>5, <2>1 DEF HeapOK
  <2>2. CASE n = k + 1
    BY <1>1, <1>2, <1>5, <2>2
  <2> QED  BY <1>3, <1>4, <2>1, <2>2
<1> QED  BY <1>1, <1>2, <1>3, <1>5 DEF HeapOK

LEMMA TypeOKParts ==
  TypeOK <=>
    /\ tokens \in Seq(Token) /\ pos \in 1 .. Len(tokens) + 1
    /\ control \in Outcomes \cup {"parse", "parsePrototype", "parsePrimary", RHS, "return"}
    /\ stack \in Seq(FrameType)
    /\ value \in 0 .. Len(nodes)
    /\ HeapOK(nodes)
    /\ syntaxTree \in Seq(DOMAIN nodes)
  BY DEF TypeOK, HeapOK, FrameType, NodeType, RHS

LEMMA ReturnNewStep ==
  ASSUME ParserInv, NEW node \in NodeType,
         \A k \in DOMAIN node.kids : node.kids[k] \in 1 .. Len(nodes),
         NEW s, CanReturnTo(s), NEW n \in Nat, ReturnNew(node, s, n)
  PROVE  ParserInv'
<1>1. /\ stack' = s /\ control' = "return" /\ pos' = Reads(n)
      /\ nodes' = Append(nodes, node) /\ value' = Len(nodes) + 1
      /\ UNCHANGED <<tokens, syntaxTree>>
  BY DEF ReturnNew
<1>2. HeapOK(nodes) /\ TypeOK  BY TypeOKParts DEF ParserInv
<1>3. /\ HeapOK(nodes') /\ Len(nodes') = Len(nodes) + 1 /\ Len(nodes) \in Nat
      /\ DOMAIN nodes \subseteq DOMAIN nodes'
  BY <1>1, <1>2, NewNode
<1>4. WellFormed(stack, Len(nodes))' /\ TypeOK'
  <2>1. WellFormed(s, Len(nodes'))
    BY <1>3, Grow DEF CanReturnTo
  <2>2. pos' \in 1 .. Len(tokens) + 1  BY <1>1, <1>2, ReadsType
  <2>3. value' \in 0 .. Len(nodes')  BY <1>1, <1>3
  <2>4. stack' \in Seq(FrameType)  BY <1>1, <2>1 DEF WellFormed
  <2>5. syntaxTree' \in Seq(DOMAIN nodes')
    BY <1>1, <1>2, <1>3, SeqMonotonic, TypeOKParts
  <2>6. TypeOK'
    BY <1>1, <1>2, <1>3, <2>2, <2>3, <2>4, <2>5
    DEF TypeOK, HeapOK, FrameType, NodeType, Outcomes
  <2> QED  BY <1>1, <2>1, <2>6, SameTokens
<1>5. TopMatchesControl'
  BY <1>1 DEF TopMatchesControl, RHS, CanReturnTo, Waiting
<1> QED  BY <1>4, <1>5 DEF ParserInv

\* Children put together are children.
LEMMA Joined ==
  ASSUME NEW n, NEW g \in Seq(Nat), NEW b \in Seq(Nat),
         \A k \in DOMAIN g : g[k] \in 1 .. n,
         \A k \in DOMAIN b : b[k] \in 1 .. n
  PROVE  g \o b \in Seq(Nat) /\ \A k \in DOMAIN (g \o b) : (g \o b)[k] \in 1 .. n
<1> DEFINE c == g \o b
<1>1. /\ c \in Seq(Nat) /\ Len(c) = Len(g) + Len(b)
      /\ \A i \in 1 .. Len(g) + Len(b) :
           c[i] = IF i <= Len(g) THEN g[i] ELSE b[i - Len(g)]
  BY ConcatProperties
<1>2. PICK p \in Nat, q \in Nat : p = Len(g) /\ q = Len(b)
  OBVIOUS
<1>3. DOMAIN g = 1 .. p /\ DOMAIN b = 1 .. q /\ DOMAIN c = 1 .. p + q
  BY <1>1, <1>2
<1>4. ASSUME NEW i \in 1 .. p + q PROVE c[i] \in 1 .. n
  <2>1. CASE i <= p  BY <1>1, <1>2, <1>3, <2>1
  <2>2. CASE ~(i <= p)
    <3>1. i - p \in 1 .. q  BY <2>2
    <3> QED  BY <1>1, <1>2, <1>3, <2>2, <3>1
  <2> QED  BY <2>1, <2>2
<1> QED  BY <1>1, <1>3, <1>4

LEMMA OneMore ==
  ASSUME NEW n, NEW g \in Seq(Nat), NEW e \in Nat, e \in 1 .. n,
         \A k \in DOMAIN g : g[k] \in 1 .. n
  PROVE  /\ Append(g, e) \in Seq(Nat)
         /\ \A k \in DOMAIN Append(g, e) : Append(g, e)[k] \in 1 .. n
<1>1. <<e>> \in Seq(Nat) /\ \A k \in DOMAIN <<e>> : <<e>>[k] \in 1 .. n
  OBVIOUS
<1>2. Append(g, e) = g \o <<e>>
  OBVIOUS
<1> QED  BY <1>1, <1>2, Joined

\* A node without children.
LEMMA Leaf ==
  ASSUME NEW kind \in NodeKinds, NEW at \in Nat, NEW n
  PROVE  /\ Node(kind, at, <<>>) \in NodeType
         /\ \A k \in DOMAIN Node(kind, at, <<>>).kids : Node(kind, at, <<>>).kids[k] \in 1 .. n
  BY DEF Node, NodeType

-----------------------------------------------------------------------------
(* The loop of parse() and its prototypes *)

LEMMA InLoopIsEmpty ==
  ASSUME ParserInv, control = "parse" PROVE stack = <<>>
  BY DEF ParserInv, TopMatchesControl

LEMMA LoopStep ==
  ASSUME ParserInv, Finish \/ RejectPrototype \/ ExhaustMemory \/ RejectParameter
  PROVE  ParserInv'
  BY HaltStep DEF Finish, RejectPrototype, ExhaustMemory, RejectParameter, Outcomes

LEMMA StutterStep ==
  ASSUME ParserInv, UNCHANGED vars PROVE ParserInv'
<1>1. WellFormed(stack, Len(nodes))'
  BY SameTokens DEF vars, ParserInv
<1> QED  BY <1>1 DEF vars, ParserInv, TypeOK, TopMatchesControl, Waiting, Running, Outcomes, RHS

LEMMA DropLastBracketStep ==
  ASSUME ParserInv, DropLastBracket PROVE ParserInv'
<1>1. /\ pos' = Reads(1)
      /\ UNCHANGED <<tokens, control, stack, value, nodes, syntaxTree>>
  BY DEF DropLastBracket
<1>2. WellFormed(stack, Len(nodes))'
  BY <1>1, SameTokens DEF ParserInv
<1>3. TypeOK'
  BY <1>1, ReadsType DEF ParserInv, TypeOK
<1> QED  BY <1>1, <1>2, <1>3 DEF ParserInv, TopMatchesControl, Waiting, Running, Outcomes, RHS

\* The first frame of an item.
LEMMA BottomFrame ==
  ASSUME NEW fn \in Bottoms, NEW at \in Nat, NEW n
  PROVE  /\ Frame(fn, at, 0, <<>>) \in FrameType
         /\ FrameOK(Frame(fn, at, 0, <<>>), n)
         /\ Frame(fn, at, 0, <<>>).fn = fn
  BY DEF Frame, FrameType, FrameOK, Bottoms, CallSites, Keywords, RHS

LEMMA BeginTopLevelStep ==
  ASSUME ParserInv, BeginTopLevel PROVE ParserInv'
<1> DEFINE f == Frame("parseTopLevelExpression", 0, 0, <<>>)
<1>1. f.fn = "parseTopLevelExpression" /\ f \in FrameType /\ FrameOK(f, Len(nodes))
      /\ f.fn \in Bottoms
  BY BottomFrame DEF Bottoms
<1>2. CanReturnTo(<<f>>)
  BY <1>1, Alone DEF CanReturnTo, Waiting, Keywords, RHS
<1> QED  BY <1>2, CallStep DEF BeginTopLevel

LEMMA BeginPrototypeStep ==
  ASSUME ParserInv, BeginPrototype PROVE ParserInv'
<1> DEFINE f == Frame(Current, pos + 1, 0, <<>>)
<1>1. /\ pos' = Reads(2) /\ stack' = <<f>> /\ control' = "parsePrototype"
      /\ UNCHANGED <<tokens, value, nodes, syntaxTree>>
      /\ Current \in Keywords
  BY DEF BeginPrototype
<1>2. pos + 1 \in Nat  BY DEF ParserInv, TypeOK
<1>3. f.fn \in Keywords /\ f \in FrameType /\ FrameOK(f, Len(nodes)) /\ f.fn \in Bottoms
  BY <1>1, <1>2, BottomFrame DEF Bottoms
<1>4. WellFormed(<<f>>, Len(nodes)) /\ Last(<<f>>) = f /\ <<f>> # <<>>
  BY <1>3, Alone
<1>5. WellFormed(stack, Len(nodes))'
  BY <1>1, <1>4, SameTokens
<1>6. TypeOK'
  BY <1>1, <1>4, ReadsType DEF ParserInv, TypeOK, WellFormed, FrameType, Outcomes
<1>7. TopMatchesControl'
  BY <1>1, <1>3, <1>4 DEF TopMatchesControl, RHS
<1> QED  BY <1>5, <1>6, <1>7 DEF ParserInv

\* An item is complete: its tree joins the result and the stack is empty.
LEMMA ItemStep ==
  ASSUME ParserInv, HeapOK(nodes'), DOMAIN nodes \subseteq DOMAIN nodes',
         Len(nodes) \in Nat, Len(nodes') \in Nat, Len(nodes) <= Len(nodes'),
         syntaxTree' \in Seq(DOMAIN nodes'),
         pos' \in 1 .. Len(tokens) + 1,
         stack' = <<>>, control' = "parse", UNCHANGED <<tokens, value>>
  PROVE  ParserInv'
<1>1. WellFormed(<<>>, Len(nodes'))
  BY DEF WellFormed
<1>2. WellFormed(stack, Len(nodes))'
  BY <1>1, SameTokens
<1>3. TypeOK'
  BY TypeOKParts DEF ParserInv, TypeOK, HeapOK, FrameType, NodeType, Outcomes
<1>4. TopMatchesControl'
  BY DEF TopMatchesControl, RHS
<1> QED  BY <1>2, <1>3, <1>4 DEF ParserInv

LEMMA EndTopLevelStep ==
  ASSUME ParserInv, EndTopLevel PROVE ParserInv'
<1> DEFINE main   == Len(nodes) + 1
           proto  == Node("prototype", 0, <<>>)
           motif  == Node("motif", 0, <<main, value>>)
<1>1. TypeOK /\ HeapOK(nodes) /\ Len(nodes) \in Nat /\ value \in 0 .. Len(nodes)
      /\ pos \in 1 .. Len(tokens) + 1 /\ syntaxTree \in Seq(DOMAIN nodes)
  BY TypeOKParts DEF ParserInv, HeapOK
<1>2. /\ stack' = <<>> /\ control' = "parse" /\ UNCHANGED <<tokens, pos, value>>
  BY DEF EndTopLevel
<1>3. CASE value = Nil
  <2>1. UNCHANGED <<nodes, syntaxTree>>  BY <1>3 DEF EndTopLevel
  <2> QED  BY <1>1, <1>2, <2>1, ItemStep
<1>4. CASE value # Nil
  <2>1. /\ nodes' = nodes \o <<proto, motif>>
        /\ syntaxTree' = Append(syntaxTree, main + 1)
    BY <1>4 DEF EndTopLevel
  <2>2. nodes' = Append(Append(nodes, proto), motif)
    BY <1>1, <2>1 DEF HeapOK, Node, NodeType
  <2>3. proto \in NodeType /\ \A k \in DOMAIN proto.kids : proto.kids[k] \in 1 .. Len(nodes)
    BY Leaf DEF NodeKinds
  <2>4. /\ HeapOK(Append(nodes, proto)) /\ Len(Append(nodes, proto)) = main
        /\ DOMAIN nodes \subseteq DOMAIN Append(nodes, proto)
    BY <1>1, <2>3, NewNode
  <2>5. motif \in NodeType /\ \A k \in DOMAIN motif.kids : motif.kids[k] \in 1 .. main
    BY <1>1, <1>4 DEF Node, NodeType, NodeKinds, Nil
  <2>6. /\ HeapOK(nodes') /\ Len(nodes') = main + 1
        /\ DOMAIN nodes \subseteq DOMAIN nodes' /\ main + 1 \in DOMAIN nodes'
    BY <2>2, <2>4, <2>5, NewNode
  <2>7. syntaxTree' \in Seq(DOMAIN nodes')
    BY <1>1, <2>1, <2>6, SeqMonotonic, Appended
  <2> QED  BY <1>1, <1>2, <2>6, <2>7, ItemStep
<1> QED  BY <1>3, <1>4

LEMMA EndDefinitionStep ==
  ASSUME ParserInv, EndDefinition PROVE ParserInv'
<1> DEFINE f     == Last(stack)
           body  == IF value = Nil THEN <<>> ELSE <<value>>
           motif == Node("motif", 0, f.kids \o body)
<1>1. TypeOK /\ HeapOK(nodes) /\ Len(nodes) \in Nat /\ value \in 0 .. Len(nodes)
      /\ pos \in 1 .. Len(tokens) + 1 /\ syntaxTree \in Seq(DOMAIN nodes)
  BY TypeOKParts DEF ParserInv, HeapOK
<1>2. /\ stack' = <<>> /\ control' = "parse" /\ UNCHANGED <<tokens, pos, value>>
      /\ nodes' = Append(nodes, motif) /\ syntaxTree' = Append(syntaxTree, Len(nodes) + 1)
      /\ control = "return"
  BY DEF EndDefinition, AtTop
<1>3. f.kids \in Seq(Nat) /\ \A k \in DOMAIN f.kids : f.kids[k] \in 1 .. Len(nodes)
  <2>1. stack # <<>>  BY <1>2 DEF ParserInv, TopMatchesControl, Running, Outcomes
  <2> QED  BY <2>1, FrameFacts DEF ParserInv, FrameOK, FrameType
<1>4. body \in Seq(Nat) /\ \A k \in DOMAIN body : body[k] \in 1 .. Len(nodes)
  BY <1>1 DEF Nil
<1>5. motif \in NodeType /\ \A k \in DOMAIN motif.kids : motif.kids[k] \in 1 .. Len(nodes)
  BY <1>3, <1>4, Joined DEF Node, NodeType, NodeKinds
<1>6. /\ HeapOK(nodes') /\ Len(nodes') = Len(nodes) + 1
      /\ DOMAIN nodes \subseteq DOMAIN nodes' /\ Len(nodes) + 1 \in DOMAIN nodes'
  BY <1>1, <1>2, <1>5, NewNode
<1>7. syntaxTree' \in Seq(DOMAIN nodes')
  BY <1>1, <1>2, <1>6, SeqMonotonic, Appended
<1> QED  BY <1>1, <1>2, <1>6, <1>7, ItemStep

LEMMA AddParameterStep ==
  ASSUME ParserInv, AddParameter PROVE ParserInv'
<1> DEFINE f == Last(stack)
           g == [f EXCEPT !.kids = Append(@, Len(nodes) + 1)]
           param == Node("param", pos + 1, <<>>)
<1>1. TypeOK /\ HeapOK(nodes) /\ Len(nodes) \in Nat /\ pos + 1 \in Nat
      /\ syntaxTree \in Seq(DOMAIN nodes) /\ value \in 0 .. Len(nodes)
  BY TypeOKParts DEF ParserInv, HeapOK, TypeOK
<1>2. /\ nodes' = Append(nodes, param)
      /\ stack' = Append(Front(stack), g)
      /\ pos' \in 1 .. Len(tokens) + 1
      /\ control = "parsePrototype" /\ UNCHANGED <<tokens, control, value, syntaxTree>>
  BY <1>1, ReadsType DEF AddParameter, Replace
<1>3. /\ stack # <<>> /\ f.fn \in Keywords /\ f.fn \in Bottoms
      /\ f \in FrameType /\ FrameOK(f, Len(nodes)) /\ Len(stack) = 1
  BY <1>2, FrameFacts DEF ParserInv, TopMatchesControl, Running, Outcomes, Bottoms
<1>4. param \in NodeType /\ \A k \in DOMAIN param.kids : param.kids[k] \in 1 .. Len(nodes)
  BY <1>1, Leaf DEF NodeKinds
<1>5. /\ HeapOK(nodes') /\ Len(nodes') = Len(nodes) + 1
      /\ DOMAIN nodes \subseteq DOMAIN nodes'
  BY <1>1, <1>2, <1>4, NewNode
<1>6. g \in FrameType /\ FrameOK(g, Len(nodes) + 1) /\ g.fn = f.fn
  <2>1. /\ f.kids \in Seq(Nat) /\ Len(nodes) + 1 \in Nat
        /\ \A k \in DOMAIN f.kids : f.kids[k] \in 1 .. Len(nodes) + 1
    BY <1>1, <1>3 DEF FrameType, FrameOK
  <2>2. /\ Append(f.kids, Len(nodes) + 1) \in Seq(Nat)
        /\ \A k \in DOMAIN Append(f.kids, Len(nodes) + 1) :
             Append(f.kids, Len(nodes) + 1)[k] \in 1 .. Len(nodes) + 1
    BY <1>1, <2>1, OneMore
  <2>3. g.kids = Append(f.kids, Len(nodes) + 1) /\ g.fn = f.fn /\ g \in FrameType
    BY <1>3, <2>2 DEF FrameType
  <2> QED  BY <1>3, <2>2, <2>3 DEF FrameOK, Keywords, RHS
<1>7. stack' = <<g>>
  <2>1. stack \in Seq(FrameType)  BY DEF ParserInv, WellFormed
  <2>2. Front(stack) \in Seq(FrameType) /\ Len(Front(stack)) = 0
    BY <1>3, <2>1, FrontLast
  <2>3. Front(stack) = <<>>  BY <2>2
  <2> QED  BY <1>2, <2>3
<1>8. WellFormed(<<g>>, Len(nodes')) /\ Last(<<g>>) = g /\ <<g>> # <<>>
  BY <1>3, <1>5, <1>6, Alone
<1>9. WellFormed(stack, Len(nodes))'
  BY <1>2, <1>7, <1>8, SameTokens
<1>10. TypeOK'
  <2>1. stack' \in Seq(FrameType)  BY <1>7, <1>8 DEF WellFormed
  <2>2. value' \in 0 .. Len(nodes')  BY <1>1, <1>2, <1>5
  <2>3. syntaxTree' \in Seq(DOMAIN nodes')  BY <1>1, <1>2, <1>5, SeqMonotonic
  <2> QED  BY <1>1, <1>2, <1>5, <2>1, <2>2, <2>3
           DEF TypeOK, HeapOK, FrameType, NodeType, Outcomes
<1>11. TopMatchesControl'
  BY <1>2, <1>3, <1>6, <1>7, <1>8 DEF TopMatchesControl, RHS
<1> QED  BY <1>9, <1>10, <1>11 DEF ParserInv

LEMMA EndPrototypeStep ==
  ASSUME ParserInv, EndPrototype PROVE ParserInv'
<1> DEFINE f    == Last(stack)
           n    == Len(nodes) + 1
           node == Node("prototype", f.at, f.kids)
           d    == Frame("parseFunctionDefinition", 0, 0, <<n>>)
           e    == Frame("parseExpression", 0, 0, <<>>)
<1>1. TypeOK /\ HeapOK(nodes) /\ Len(nodes) \in Nat
      /\ syntaxTree \in Seq(DOMAIN nodes) /\ value \in 0 .. Len(nodes)
  BY TypeOKParts DEF ParserInv, HeapOK
<1>2. /\ nodes' = Append(nodes, node) /\ pos' \in 1 .. Len(tokens) + 1
      /\ control = "parsePrototype" /\ UNCHANGED <<tokens, value>>
      /\ \/ /\ syntaxTree' = Append(syntaxTree, n)
            /\ stack' = <<>> /\ control' = "parse"
         \/ /\ stack' = <<d, e>> /\ control' = "parsePrimary"
            /\ UNCHANGED syntaxTree
  BY <1>1, ReadsType DEF EndPrototype
<1>3. f \in FrameType /\ FrameOK(f, Len(nodes))
  BY <1>2, FrameFacts DEF ParserInv, TopMatchesControl, Running, Outcomes
<1>4. node \in NodeType /\ \A k \in DOMAIN node.kids : node.kids[k] \in 1 .. Len(nodes)
  BY <1>3 DEF Node, NodeType, NodeKinds, FrameType, FrameOK
<1>5. /\ HeapOK(nodes') /\ Len(nodes') = n /\ n \in DOMAIN nodes'
      /\ DOMAIN nodes \subseteq DOMAIN nodes'
  BY <1>1, <1>2, <1>4, NewNode
<1>6. CASE stack' = <<>> /\ control' = "parse" /\ syntaxTree' = Append(syntaxTree, n)
  <2>1. syntaxTree' \in Seq(DOMAIN nodes')
    BY <1>1, <1>5, <1>6, SeqMonotonic, Appended
  <2> QED  BY <1>1, <1>2, <1>5, <1>6, <2>1, ItemStep
<1>7. CASE stack' = <<d, e>> /\ control' = "parsePrimary" /\ UNCHANGED syntaxTree
  <2>1. d \in FrameType /\ FrameOK(d, n) /\ d.fn = "parseFunctionDefinition" /\ d.fn \in Bottoms
    BY <1>1 DEF Frame, FrameType, CallSites, FrameOK, Bottoms, RHS
  <2>2. e \in FrameType /\ FrameOK(e, n) /\ e.fn = "parseExpression" /\ e.fn \notin Bottoms
    BY DEF Frame, FrameType, CallSites, FrameOK, Bottoms, Keywords, RHS
  <2>3. /\ WellFormed(<<d>>, n) /\ Last(<<d>>) = d /\ <<d>> # <<>>
        /\ Waiting(Last(<<d>>))
    BY <2>1, Alone DEF Waiting, Keywords, RHS
  <2>4. <<d, e>> = Append(<<d>>, e)
    OBVIOUS
  <2>5. WellFormed(<<d, e>>, n) /\ Last(<<d, e>>) = e /\ <<d, e>> # <<>>
    <3> HIDE DEF d, e, n
    <3>1. WellFormed(Append(<<d>>, e), n) /\ Last(Append(<<d>>, e)) = e
      BY <2>2, <2>3, Push
    <3> QED  BY <2>4, <3>1
  <2>6. WellFormed(stack, Len(nodes))'
    BY <1>2, <1>5, <1>7, <2>5, SameTokens
  <2>7. TypeOK'
    <3>1. stack' \in Seq(FrameType)  BY <1>7, <2>5 DEF WellFormed
    <3>2. value' \in 0 .. Len(nodes')  BY <1>1, <1>2, <1>5
    <3>3. syntaxTree' \in Seq(DOMAIN nodes')  BY <1>1, <1>5, <1>7, SeqMonotonic
    <3> QED  BY <1>1, <1>2, <1>5, <1>7, <3>1, <3>2, <3>3
             DEF TypeOK, HeapOK, FrameType, NodeType, Outcomes
  <2>8. TopMatchesControl'
    BY <1>7, <2>2, <2>5 DEF TopMatchesControl, RHS
  <2> QED  BY <2>6, <2>7, <2>8 DEF ParserInv
<1> QED  BY <1>2, <1>6, <1>7

-----------------------------------------------------------------------------
(* parsePrimary() *)

\* A call that runs parsePrimary() can be returned to and can wait.
LEMMA PrimaryTop ==
  ASSUME ParserInv, control = "parsePrimary"
  PROVE  CanReturnTo(stack)
<1>1. stack # <<>> /\ Last(stack).fn \in {"parseExpression", "operand"}
  BY DEF ParserInv, TopMatchesControl, Running, Outcomes
<1> QED  BY <1>1 DEF CanReturnTo, ParserInv, Waiting, Keywords, RHS

\* The calls parsePrimary() makes: each waits for an expression.
LEMMA PrimaryPush ==
  ASSUME ParserInv, control = "parsePrimary", NEW at \in Nat,
         NEW fn \in {"argument", "condition", "parentheses", "curlyBrackets"}
  PROVE  CanReturnTo(Append(stack, Frame(fn, at, 0, <<>>)))
<1> DEFINE f == Frame(fn, at, 0, <<>>)
<1>1. f \in FrameType /\ FrameOK(f, Len(nodes)) /\ f.fn = fn /\ fn \notin Bottoms
      /\ Waiting(f)
  BY DEF Frame, FrameType, CallSites, FrameOK, Bottoms, Keywords, RHS, Waiting
<1>2. CanReturnTo(stack)  BY PrimaryTop
<1> QED  BY <1>1, <1>2, Push DEF CanReturnTo

LEMMA LeafStep ==
  ASSUME ParserInv, NoPrimary \/ Number \/ Variable \/ CallWithoutArguments \/ CallCutShort
  PROVE  ParserInv'
<1>1. CanReturnTo(stack) /\ pos \in Nat /\ Nil \in 0 .. Len(nodes)
  BY PrimaryTop, Counters
  DEF NoPrimary, Number, Variable, CallWithoutArguments, CallCutShort, IsCall, AtPrimary
<1>2. CASE NoPrimary \/ CallCutShort
  BY <1>1, <1>2, ReturnStep DEF NoPrimary, CallCutShort
<1>3. CASE Number \/ Variable \/ CallWithoutArguments
  <2>1. PICK kind \in NodeKinds, n \in Nat : ReturnNew(Node(kind, pos, <<>>), stack, n)
    BY <1>3 DEF Number, Variable, CallWithoutArguments, NodeKinds
  <2> QED  BY <1>1, <2>1, Leaf, ReturnNewStep
<1> QED  BY <1>2, <1>3

LEMMA CallingStep ==
  ASSUME ParserInv,
         CallWithArguments \/ BeginTernary \/ OperatorAsPrimary \/ BeginParentheses
           \/ BeginCurlyBrackets
  PROVE  ParserInv'
<1>1. control = "parsePrimary" /\ CanReturnTo(stack) /\ pos \in Nat
      /\ Nil \in 0 .. Len(nodes)
  BY PrimaryTop, Counters
  DEF CallWithArguments, BeginTernary, OperatorAsPrimary, BeginParentheses,
      BeginCurlyBrackets, IsCall, AtPrimary
<1>2. CASE CallWithArguments  BY <1>1, <1>2, PrimaryPush, CallStep DEF CallWithArguments
<1>3. CASE BeginTernary       BY <1>1, <1>3, PrimaryPush, CallStep DEF BeginTernary
<1>4. CASE OperatorAsPrimary  BY <1>1, <1>4, CallStep DEF OperatorAsPrimary
<1>5. CASE BeginParentheses
  BY <1>1, <1>5, PrimaryPush, CallStep, ReturnStep DEF BeginParentheses
<1>6. CASE BeginCurlyBrackets
  BY <1>1, <1>6, PrimaryPush, CallStep DEF BeginCurlyBrackets
<1> QED  BY <1>2, <1>3, <1>4, <1>5, <1>6

LEMMA RefusalStep ==
  ASSUME ParserInv, Overflow \/ UnknownToken PROVE ParserInv'
  BY HaltStep DEF Overflow, UnknownToken, Outcomes

-----------------------------------------------------------------------------
(* parseExpression() and parseBinaryOperatorRHS() *)

\* What is on top when a function has returned to fn, and what is below it.
LEMMA TopOf ==
  ASSUME ParserInv, NEW fn, fn \notin Bottoms,
         AtTop(fn) \/ (control = RHS /\ fn = RHS)
  PROVE  /\ stack # <<>> /\ WellFormed(stack, Len(nodes))
         /\ Last(stack).fn = fn /\ Last(stack).fn \notin Bottoms
         /\ Last(stack) \in FrameType /\ FrameOK(Last(stack), Len(nodes))
         /\ CanReturnTo(Front(stack))
<1>1. stack # <<>> /\ Last(stack).fn = fn /\ WellFormed(stack, Len(nodes))
  BY DEF ParserInv, TopMatchesControl, AtTop, Running, Outcomes, RHS
<1> QED  BY <1>1, FrameFacts, Pop DEF CanReturnTo

\* The call on top becomes f, and the function fn runs on it.
LEMMA AdvanceStep ==
  ASSUME ParserInv, stack # <<>>, Last(stack).fn \notin Bottoms,
         NEW f \in FrameType, FrameOK(f, Len(nodes')),
         \/ f.fn = RHS /\ control' = RHS
         \/ f.fn = "operand" /\ control' = "parsePrimary",
         stack' = Replace(f), pos' \in 1 .. Len(tokens) + 1,
         UNCHANGED <<tokens, value, syntaxTree>>,
         HeapOK(nodes'), Len(nodes) <= Len(nodes'), DOMAIN nodes \subseteq DOMAIN nodes',
         Len(nodes') \in Nat
  PROVE  ParserInv'
<1>1. f.fn \notin Bottoms  BY DEF Bottoms, Keywords, RHS
<1>2. WellFormed(stack, Len(nodes'))
  BY Grow, Counters DEF ParserInv
<1>3. WellFormed(Replace(f), Len(nodes')) /\ Last(Replace(f)) = f /\ Replace(f) # <<>>
  BY <1>1, <1>2, Advance DEF Replace
<1>4. WellFormed(stack, Len(nodes))'
  BY <1>3, SameTokens
<1>5. TypeOK'
  <2>1. stack' \in Seq(FrameType)  BY <1>3 DEF WellFormed
  <2>2. value' \in 0 .. Len(nodes')  BY Counters
  <2>3. syntaxTree' \in Seq(DOMAIN nodes')  BY SeqMonotonic, TypeOKParts DEF ParserInv
  <2> QED  BY <2>1, <2>2, <2>3
           DEF ParserInv, TypeOK, HeapOK, FrameType, NodeType, Outcomes, RHS
<1>6. TopMatchesControl'
  BY <1>3 DEF TopMatchesControl, RHS
<1> QED  BY <1>4, <1>5, <1>6 DEF ParserInv

LEMMA LoopFrameType ==
  ASSUME NEW n, NEW prec \in Nat, NEW lhs \in Nat, lhs \in 1 .. n
  PROVE  /\ LoopFrame(prec, lhs) \in FrameType /\ FrameOK(LoopFrame(prec, lhs), n)
         /\ LoopFrame(prec, lhs).fn = RHS /\ RHS \notin Bottoms
  BY DEF LoopFrame, Frame, FrameType, FrameOK, CallSites, RHS, Bottoms, Keywords

LEMMA BeginOperatorsStep ==
  ASSUME ParserInv, BeginOperators PROVE ParserInv'
<1>1. stack # <<>> /\ Last(stack).fn \notin Bottoms
  BY TopOf DEF BeginOperators, Bottoms, Keywords
<1>2. /\ value \in Nat /\ value \in 1 .. Len(nodes) /\ Len(nodes) \in Nat
  BY Counters DEF BeginOperators, Nil
<1>3. HeapOK(nodes) /\ pos \in 1 .. Len(tokens) + 1
  BY TypeOKParts DEF ParserInv
<1> QED  BY <1>1, <1>2, <1>3, LoopFrameType, AdvanceStep DEF BeginOperators, RHS

LEMMA TakeOperatorStep ==
  ASSUME ParserInv, TakeOperator PROVE ParserInv'
<1> DEFINE f == Last(stack)
           g == Frame("operand", pos + 1, f.prec, f.kids)
<1>1. /\ stack # <<>> /\ f.fn = RHS /\ f.fn \notin Bottoms
      /\ f \in FrameType /\ FrameOK(f, Len(nodes))
  BY TopOf DEF TakeOperator, Bottoms, Keywords, RHS
<1>2. HeapOK(nodes) /\ Len(nodes) \in Nat /\ pos \in Nat
  BY Counters, TypeOKParts DEF ParserInv
<1>3. pos + 1 \in DOMAIN tokens /\ tokens[pos + 1] \in Operators
  <2>1. Stalk \in Operators  BY DEF TakeOperator, Climbs
  <2>2. NoToken \notin Operators  BY DEF NoToken, Operators
  <2>3. tokens \in Seq(Token)  BY DEF ParserInv, TypeOK
  <2> QED  BY <2>1, <2>2, <2>3 DEF Stalk, TokenAt
<1>4. g \in FrameType /\ FrameOK(g, Len(nodes)) /\ g.fn = "operand"
  BY <1>1, <1>2, <1>3 DEF Frame, FrameType, FrameOK, CallSites, RHS
<1>5. /\ stack' = Replace(g) /\ control' = "parsePrimary"
      /\ pos' \in 1 .. Len(tokens) + 1
      /\ UNCHANGED <<tokens, value, nodes, syntaxTree>>
  BY ReadsType DEF TakeOperator, ParserInv
<1> QED  BY <1>1, <1>2, <1>4, <1>5, AdvanceStep

LEMMA EndOperatorsStep ==
  ASSUME ParserInv, EndOperators PROVE ParserInv'
<1> DEFINE f == Last(stack)
<1>1. /\ f.fn = RHS /\ f \in FrameType /\ FrameOK(f, Len(nodes))
      /\ CanReturnTo(Front(stack))
  BY TopOf DEF EndOperators, Bottoms, Keywords, RHS
<1>2. f.kids[1] \in 0 .. Len(nodes)
  BY <1>1, Counters DEF FrameOK, FrameType
<1> QED  BY <1>1, <1>2, ReturnStep DEF EndOperators

LEMMA Pair ==
  ASSUME NEW g \in Seq(Nat), NEW e \in Nat, Len(g) = 1
  PROVE  Len(Append(g, e)) = 2
<1>1. Len(Append(g, e)) = Len(g) + 1
  BY AppendProperties
<1> QED  BY <1>1

LEMMA Precedences ==
  ASSUME NEW c \in Operators PROVE Precedence(c) \in Nat
<1>1. Precedence(c) = 10 \/ Precedence(c) = 20 \/ Precedence(c) = 40
  BY Zenon DEF Precedence, Operators
<1> QED  BY <1>1

LEMMA ClimbOperatorsStep ==
  ASSUME ParserInv, ClimbOperators PROVE ParserInv'
<1> DEFINE f    == Last(stack)
           prec == Precedence(tokens[f.at])
           g    == Frame("nested", f.at, f.prec, Append(f.kids, value))
           h    == LoopFrame(prec + 1, value)
<1>1. /\ stack # <<>> /\ WellFormed(stack, Len(nodes))
      /\ f.fn = "operand" /\ f.fn \notin Bottoms
      /\ f \in FrameType /\ FrameOK(f, Len(nodes))
  BY TopOf DEF ClimbOperators, Bottoms, Keywords
<1>2. value \in Nat /\ value \in 1 .. Len(nodes) /\ Len(nodes) \in Nat
  BY Counters DEF ClimbOperators, Nil
<1>3. prec \in Nat
  BY <1>1, Precedences DEF FrameOK
<1>4. g \in FrameType /\ FrameOK(g, Len(nodes)) /\ g.fn = "nested" /\ g.fn \notin Bottoms
      /\ Waiting(g)
  <2>1. f.kids \in Seq(Nat) /\ Len(f.kids) = 1
        /\ \A k \in DOMAIN f.kids : f.kids[k] \in 1 .. Len(nodes)
    BY <1>1 DEF FrameType, FrameOK
  <2>2. Len(Append(f.kids, value)) = 2
    BY <1>2, <2>1, Pair
  <2>3. /\ Append(f.kids, value) \in Seq(Nat)
        /\ \A k \in DOMAIN Append(f.kids, value) : Append(f.kids, value)[k] \in 1 .. Len(nodes)
    BY <1>2, <2>1, OneMore
  <2> QED  BY <1>1, <2>2, <2>3
           DEF Frame, FrameType, FrameOK, CallSites, RHS, Bottoms, Keywords, Waiting
<1>5. h \in FrameType /\ FrameOK(h, Len(nodes)) /\ h.fn = RHS /\ h.fn \notin Bottoms
  BY <1>2, <1>3, LoopFrameType
<1>6. /\ stack' = Append(Replace(g), h) /\ control' = RHS
      /\ UNCHANGED <<tokens, pos, value, nodes, syntaxTree>>
  BY DEF ClimbOperators, RHS
<1>7. WellFormed(Replace(g), Len(nodes)) /\ Last(Replace(g)) = g /\ Replace(g) # <<>>
  BY <1>1, <1>4, Advance DEF Replace
<1>8. WellFormed(Append(Replace(g), h), Len(nodes)) /\ Last(Append(Replace(g), h)) = h
      /\ Append(Replace(g), h) # <<>>
  <2> HIDE DEF g, h
  <2> QED  BY <1>4, <1>5, <1>7, Push
<1>9. WellFormed(stack, Len(nodes))'
  BY <1>6, <1>8, SameTokens
<1>10. TypeOK'
  <2>1. stack' \in Seq(FrameType)  BY <1>6, <1>8 DEF WellFormed
  <2> QED  BY <1>6, <2>1 DEF ParserInv, TypeOK, FrameType, RHS
<1>11. TopMatchesControl'
  BY <1>5, <1>6, <1>8 DEF TopMatchesControl, RHS
<1> QED  BY <1>9, <1>10, <1>11 DEF ParserInv

LEMMA CombineStep ==
  ASSUME ParserInv, CombineOperand \/ CombineNested PROVE ParserInv'
<1> DEFINE f    == Last(stack)
           n    == Len(nodes) + 1
<1>1. PICK rhs : Combine(f, rhs) /\ rhs \in 1 .. Len(nodes)
  <2>1. CASE CombineOperand
    <3>1. value \in 1 .. Len(nodes)  BY <2>1, Counters DEF CombineOperand, Nil
    <3> QED  BY <2>1, <3>1 DEF CombineOperand
  <2>2. CASE CombineNested
    <3>1. f.fn = "nested" /\ f \in FrameType /\ FrameOK(f, Len(nodes))
      BY <2>2, TopOf DEF CombineNested, Bottoms, Keywords
    <3>2. f.kids[2] \in 1 .. Len(nodes)
      BY <3>1 DEF FrameOK, FrameType
    <3>3. value # Nil => value \in 1 .. Len(nodes)  BY Counters DEF Nil
    <3> QED  BY <2>2, <3>2, <3>3 DEF CombineNested
  <2> QED  BY <2>1, <2>2
<1>2. /\ stack # <<>> /\ f.fn \in {"operand", "nested"} /\ f.fn \notin Bottoms
      /\ f \in FrameType /\ FrameOK(f, Len(nodes))
  BY TopOf DEF CombineOperand, CombineNested, Bottoms, Keywords
<1>3. HeapOK(nodes) /\ Len(nodes) \in Nat
  BY Counters, TypeOKParts DEF ParserInv
<1> DEFINE node == Node("binary", f.at, <<f.kids[1], rhs>>)
           g    == LoopFrame(f.prec, n)
<1>4. node \in NodeType /\ \A k \in DOMAIN node.kids : node.kids[k] \in 1 .. Len(nodes)
  <2>1. f.kids[1] \in 1 .. Len(nodes) /\ f.at \in Nat
    BY <1>2 DEF FrameOK, FrameType
  <2> QED  BY <1>1, <1>3, <2>1 DEF Node, NodeType, NodeKinds
<1>5. /\ nodes' = Append(nodes, node) /\ stack' = Replace(g) /\ control' = RHS
      /\ pos' \in 1 .. Len(tokens) + 1
      /\ UNCHANGED <<tokens, value, syntaxTree>>
  BY <1>1, ReadsType DEF Combine, ParserInv, RHS
<1>6. /\ HeapOK(nodes') /\ Len(nodes') = n /\ Len(nodes') \in Nat /\ Len(nodes) <= Len(nodes')
      /\ DOMAIN nodes \subseteq DOMAIN nodes'
  BY <1>3, <1>4, <1>5, NewNode
<1>7. g \in FrameType /\ FrameOK(g, Len(nodes')) /\ g.fn = RHS
  <2>1. n \in Nat /\ n \in 1 .. Len(nodes') /\ f.prec \in Nat
    BY <1>2, <1>3, <1>6 DEF FrameType
  <2> QED  BY <2>1, LoopFrameType
<1> QED  BY <1>2, <1>5, <1>6, <1>7, AdvanceStep

-----------------------------------------------------------------------------
(* The functions that go on when parseExpression() has returned to them *)

\* The call on top goes on to its next expression.
LEMMA NextCallStep ==
  ASSUME ParserInv, stack # <<>>, Last(stack).fn \notin Bottoms,
         NEW f \in FrameType, FrameOK(f, Len(nodes)), f.fn \notin Bottoms, Waiting(f),
         NEW n \in Nat, CallExpression(Replace(f), n)
  PROVE  ParserInv'
<1>1. CanReturnTo(Replace(f))
  BY Advance DEF CanReturnTo, Replace, ParserInv
<1> QED  BY <1>1, CallStep

\* The children a call had and the one that has just returned.
LEMMA WithValue ==
  ASSUME ParserInv, value # Nil, NEW f \in FrameType, FrameOK(f, Len(nodes))
  PROVE  /\ Append(f.kids, value) \in Seq(Nat)
         /\ \A k \in DOMAIN Append(f.kids, value) : Append(f.kids, value)[k] \in 1 .. Len(nodes)
<1>1. value \in Nat /\ value \in 1 .. Len(nodes)
  BY Counters DEF Nil
<1>2. f.kids \in Seq(Nat) /\ \A k \in DOMAIN f.kids : f.kids[k] \in 1 .. Len(nodes)
  BY DEF FrameType, FrameOK
<1> QED  BY <1>1, <1>2, OneMore

\* A call that waits with children and without an operator.
LEMMA ArgumentFrame ==
  ASSUME NEW n, NEW at \in Nat, NEW kids \in Seq(Nat),
         \A k \in DOMAIN kids : kids[k] \in 1 .. n,
         NEW fn \in {"argument", "then", "else"}
  PROVE  LET f == Frame(fn, at, 0, kids)
         IN  /\ f \in FrameType /\ FrameOK(f, n)
             /\ f.fn \notin Bottoms /\ Waiting(f)
  BY DEF Frame, FrameType, FrameOK, CallSites, RHS, Bottoms, Keywords, Waiting

LEMMA PropagateNilStep ==
  ASSUME ParserInv, PropagateNil PROVE ParserInv'
<1> DEFINE fn == Last(stack).fn
<1>1. AtTop(fn) /\ fn \notin Bottoms
  BY DEF PropagateNil, AtTop, Bottoms, Keywords
<1>2. CanReturnTo(Front(stack)) /\ Nil \in 0 .. Len(nodes)
  BY <1>1, TopOf, Counters
<1> QED  BY <1>2, ReturnStep DEF PropagateNil

LEMMA ArgumentStep ==
  ASSUME ParserInv, EndArguments \/ NextArgument \/ RejectArguments PROVE ParserInv'
<1> DEFINE f == Last(stack)
<1>1. /\ stack # <<>> /\ f.fn = "argument" /\ f.fn \notin Bottoms
      /\ f \in FrameType /\ FrameOK(f, Len(nodes)) /\ CanReturnTo(Front(stack))
  BY TopOf DEF EndArguments, NextArgument, RejectArguments, AtArgument, Bottoms, Keywords
<1>2. /\ Append(f.kids, value) \in Seq(Nat)
      /\ \A k \in DOMAIN Append(f.kids, value) : Append(f.kids, value)[k] \in 1 .. Len(nodes)
  BY <1>1, WithValue DEF EndArguments, NextArgument, RejectArguments, AtArgument
<1>3. CASE EndArguments
  <2> DEFINE node == Node("call", f.at, Append(f.kids, value))
  <2>1. node \in NodeType /\ \A k \in DOMAIN node.kids : node.kids[k] \in 1 .. Len(nodes)
    BY <1>1, <1>2 DEF Node, NodeType, NodeKinds, FrameType
  <2>2. PICK n \in Nat : ReturnNew(node, Front(stack), n)
    BY <1>3 DEF EndArguments
  <2> QED  BY <1>1, <2>1, <2>2, ReturnNewStep
<1>4. CASE NextArgument
  <2> DEFINE g == [f EXCEPT !.kids = Append(@, value)]
  <2>1. /\ g \in FrameType /\ g.fn = "argument" /\ g.kids = Append(f.kids, value)
    BY <1>1, <1>2 DEF FrameType
  <2>2. FrameOK(g, Len(nodes)) /\ g.fn \notin Bottoms /\ Waiting(g)
    BY <1>2, <2>1 DEF FrameOK, Bottoms, Keywords, Waiting, RHS
  <2>3. CallExpression(Replace(g), 1)
    BY <1>4 DEF NextArgument
  <2> QED  BY <1>1, <2>1, <2>2, <2>3, NextCallStep
<1>5. CASE RejectArguments
  BY <1>5, HaltStep DEF RejectArguments, Outcomes
<1> QED  BY <1>3, <1>4, <1>5

LEMMA TernaryStep ==
  ASSUME ParserInv, EndCondition \/ EndThen \/ EndElse PROVE ParserInv'
<1> DEFINE f == Last(stack)
<1>1. /\ stack # <<>> /\ f.fn \notin Bottoms /\ f \in FrameType /\ FrameOK(f, Len(nodes))
      /\ CanReturnTo(Front(stack)) /\ f.at \in Nat
  <2>1. \A fn \in {"condition", "then", "else"} : fn \notin Bottoms
    BY DEF Bottoms, Keywords
  <2> QED  BY <2>1, TopOf DEF EndCondition, EndThen, EndElse, FrameType
<1>2. ASSUME \E outcome \in Outcomes : Halt(outcome) PROVE ParserInv'
  BY <1>2, HaltStep
<1>3. ASSUME value # Nil
      PROVE  /\ Append(f.kids, value) \in Seq(Nat)
             /\ \A k \in DOMAIN Append(f.kids, value) :
                  Append(f.kids, value)[k] \in 1 .. Len(nodes)
  BY <1>1, <1>3, WithValue
<1>4. CASE EndCondition
  <2>1. <<value>> \in Seq(Nat) /\ \A k \in DOMAIN <<value>> : <<value>>[k] \in 1 .. Len(nodes)
    BY <1>4, Counters DEF EndCondition, Nil
  <2>2. CASE CallExpression(Replace(Frame("then", f.at, 0, <<value>>)), 1)
    BY <1>1, <2>1, <2>2, ArgumentFrame, NextCallStep
  <2> QED  BY <1>2, <1>4, <2>2 DEF EndCondition, Outcomes
<1>5. CASE EndThen
  <2>1. CASE /\ value # Nil
             /\ CallExpression(Replace(Frame("else", f.at, 0, Append(f.kids, value))), 2)
    BY <1>1, <1>3, <2>1, ArgumentFrame, NextCallStep
  <2> QED  BY <1>2, <1>5, <2>1 DEF EndThen, Outcomes
<1>6. CASE EndElse
  <2> DEFINE node == Node("cond", f.at, Append(f.kids, value))
  <2>1. CASE value # Nil /\ ReturnNew(node, Front(stack), 0)
    <3>1. node \in NodeType /\ \A k \in DOMAIN node.kids : node.kids[k] \in 1 .. Len(nodes)
      BY <1>1, <1>3, <2>1 DEF Node, NodeType, NodeKinds
    <3> QED  BY <1>1, <2>1, <3>1, ReturnNewStep
  <2> QED  BY <1>2, <1>6, <2>1 DEF EndElse, Outcomes
<1> QED  BY <1>4, <1>5, <1>6

LEMMA BracketStep ==
  ASSUME ParserInv, EndParentheses \/ EndCurlyBrackets PROVE ParserInv'
<1>1. CanReturnTo(Front(stack)) /\ value \in 0 .. Len(nodes)
  <2>1. \A fn \in {"parentheses", "curlyBrackets"} : fn \notin Bottoms
    BY DEF Bottoms, Keywords
  <2> QED  BY <2>1, TopOf, Counters DEF EndParentheses, EndCurlyBrackets
<1>2. CASE Halt("threw")  BY <1>2, HaltStep DEF Outcomes
<1>3. CASE \E n \in Nat : Return(value, Front(stack), n)  BY <1>1, <1>3, ReturnStep
<1> QED  BY <1>2, <1>3 DEF EndParentheses, EndCurlyBrackets

-----------------------------------------------------------------------------
(* The theorems *)

\* Whatever sequence of tokens the parser starts with.
LEMMA FreshInv == ASSUME tokens \in Seq(Token), Fresh PROVE ParserInv
<1>1. Len(tokens) \in Nat
  OBVIOUS
<1>2. TypeOK  BY <1>1 DEF Fresh, TypeOK, Nil, Outcomes
<1>3. WellFormed(stack, Len(nodes))  BY DEF Fresh, WellFormed
<1>4. TopMatchesControl  BY DEF Fresh, TopMatchesControl, RHS
<1> QED  BY <1>2, <1>3, <1>4 DEF ParserInv

LEMMA InitInv == ASSUME Init PROVE ParserInv
  BY InputsAssumption, FreshInv DEF Init

LEMMA NextInv == ASSUME ParserInv, [Next]_vars PROVE ParserInv'
<1>1. CASE Parse
  BY <1>1, LoopStep, StutterStep, BeginPrototypeStep, DropLastBracketStep, BeginTopLevelStep,
     EndTopLevelStep, EndDefinitionStep DEF Parse, SkipSeparator
<1>2. CASE ParsePrototype
  BY <1>2, LoopStep, AddParameterStep, EndPrototypeStep DEF ParsePrototype
<1>3. CASE ParsePrimary
  BY <1>3, LeafStep, CallingStep, RefusalStep DEF ParsePrimary
<1>4. CASE ParseOperators
  BY <1>4, BeginOperatorsStep, TakeOperatorStep, EndOperatorsStep, ClimbOperatorsStep,
     CombineStep DEF ParseOperators
<1>5. CASE Resume
  BY <1>5, PropagateNilStep, ArgumentStep, TernaryStep, BracketStep DEF Resume
<1>6. CASE Ended \/ UNCHANGED vars
  BY <1>6, StutterStep DEF Ended
<1> QED  BY <1>1, <1>2, <1>3, <1>4, <1>5, <1>6 DEF Next

THEOREM ParserInvariant == Spec => []ParserInv
  BY InitInv, NextInv, PTL DEF Spec

(* Whatever the tokens, the cursor stays within one of their end, and what *)
(* the parser builds are trees over nodes it has built before.             *)
THEOREM TypeCorrect == Spec => []TypeOK
<1>1. ParserInv => TypeOK  BY DEF ParserInv
<1> QED  BY <1>1, ParserInvariant, PTL

-----------------------------------------------------------------------------
(***************************************************************************)
(* What the trees of the parser are, for every input and every limit: they *)
(* are complete, a call in them has at most one argument, operators group  *)
(* by precedence, and what a node copies from its token, the token has.    *)
(*                                                                         *)
(* The first is about what a call of a parsing function holds while it     *)
(* waits for another (FrameHolds): a prototype its parameters, a loop over *)
(* operators its left operand, a conditional one expression per part that  *)
(* is done.  A function that misses a part returns nil or ends the parser, *)
(* and nil goes into no node.                                              *)
(*                                                                         *)
(* The second is not what the source means.  parseIdentifier has a loop    *)
(* over the arguments.  A call that has one already and goes round again   *)
(* does so with "," current; the expression it asks for begins with that   *)
(* ",", which parseToken refuses.  So there is no state in which such a    *)
(* call can do anything but fail, and ArgumentsInv says just that.         *)
(*                                                                         *)
(* The third is about two calls, one above the other on the stack, and has *)
(* a section of its own below, as has the fourth: a function keeps the     *)
(* token of its node while those it calls move the cursor.                 *)
(***************************************************************************)

-----------------------------------------------------------------------------
(* Complete trees: what the calls in progress hold                         *)

\* The kinds of the nodes a call holds while it waits.
PartKinds(fn) ==
  IF fn \in Keywords THEN {"param"}
  ELSE IF fn = "parseFunctionDefinition" THEN {"prototype"}
  ELSE ExpressionKinds

FrameHolds(h, f) ==
  /\ \A i \in DOMAIN f.kids : h[f.kids[i]].kind \in PartKinds(f.fn)
  /\ f.fn \in {"parseFunctionDefinition", "then"} => Len(f.kids) = 1
  /\ f.fn = "else" => Len(f.kids) = 2

Held(s, h) == \A i \in 1 .. Len(s) : FrameHolds(h, s[i])

\* n is nil or an expression.
Expression(h, n) == n # Nil => h[n].kind \in ExpressionKinds

TreesInv ==
  /\ ParserInv
  /\ Held(stack, nodes)
  /\ TreesAreComplete
  /\ Expression(nodes, value)

\* What a step has to keep, ParserInv apart.
TreesKept == Held(stack, nodes) /\ TreesAreComplete /\ Expression(nodes, value)

-----------------------------------------------------------------------------
(* Stacks and heaps *)

LEMMA HeldPush ==
  ASSUME NEW s \in Seq(FrameType), NEW h, Held(s, h), NEW f \in FrameType, FrameHolds(h, f)
  PROVE  Held(Append(s, f), h) /\ Append(s, f) \in Seq(FrameType)
<1> DEFINE t == Append(s, f)
<1>1. PICK k \in Nat : k = Len(s)
  BY LenProperties
<1>2. /\ t \in Seq(FrameType) /\ Len(t) = k + 1 /\ t[k + 1] = f
      /\ \A i \in 1 .. k : t[i] = s[i]
  <2> HIDE DEF FrameType
  <2> QED  BY <1>1, Appended
<1> HIDE DEF t
<1>3. \A i \in 1 .. k + 1 : i \in 1 .. k \/ i = k + 1
  BY <1>1
<1>4. Held(t, h)
  BY <1>1, <1>2, <1>3 DEF Held
<1> QED  BY <1>2, <1>4 DEF t

LEMMA HeldPop ==
  ASSUME NEW s \in Seq(FrameType), NEW h, Held(s, h), s # <<>>
  PROVE  Held(Front(s), h) /\ Front(s) \in Seq(FrameType) /\ FrameHolds(h, Last(s))
<1>1. /\ Front(s) \in Seq(FrameType) /\ Len(Front(s)) = Len(s) - 1 /\ Len(s) \in Nat \ {0}
      /\ \A i \in 1 .. Len(s) - 1 : Front(s)[i] = s[i]
      /\ Last(s) = s[Len(s)]
  BY FrontLast
<1>2. Held(Front(s), h)
  <2>1. \A i \in 1 .. Len(s) - 1 : i \in 1 .. Len(s)
    BY <1>1
  <2> QED  BY <1>1, <2>1 DEF Held
<1>3. FrameHolds(h, Last(s))
  BY <1>1 DEF Held
<1> QED  BY <1>1, <1>2, <1>3

LEMMA HeldAlone ==
  ASSUME NEW h
  PROVE  /\ Held(<<>>, h)
         /\ \A f : FrameHolds(h, f) => Held(<<f>>, h)
         /\ \A f, g : FrameHolds(h, f) /\ FrameHolds(h, g) => Held(<<f, g>>, h)
  BY DEF Held

\* A frame without parts.
LEMMA NoParts ==
  ASSUME NEW fn, NEW at, fn \notin {"parseFunctionDefinition", "then", "else"}, NEW h
  PROVE  FrameHolds(h, Frame(fn, at, 0, <<>>))
  BY DEF FrameHolds, Frame

\* The nodes of h are in g, and there may be more.
Extends(h, g) == \A n \in 1 .. Len(h) : g[n] = h[n]

LEMMA HeldGrow ==
  ASSUME NEW h, NEW g, Extends(h, g), NEW s, WellFormed(s, Len(h)), Held(s, h)
  PROVE  Held(s, g)
<1>1. ASSUME NEW i \in 1 .. Len(s) PROVE FrameHolds(g, s[i])
  <2>1. FrameOK(s[i], Len(h)) /\ FrameHolds(h, s[i])
    BY DEF WellFormed, Held
  <2>2. \A j \in DOMAIN s[i].kids : g[s[i].kids[j]] = h[s[i].kids[j]]
    BY <2>1 DEF FrameOK, Extends
  <2> QED  BY <2>1, <2>2 DEF FrameHolds
<1> QED  BY <1>1 DEF Held

\* A complete node more.
LEMMA CompleteNode ==
  ASSUME NEW h, HeapOK(h), NEW roots \in Seq(DOMAIN h), CompleteTrees(h, roots),
         NEW node \in NodeType, IsComplete(h, node),
         \A k \in DOMAIN node.kids : node.kids[k] \in 1 .. Len(h)
  PROVE  /\ CompleteTrees(Append(h, node), roots) /\ Extends(h, Append(h, node))
         /\ Append(h, node)[Len(h) + 1] = node /\ HeapOK(Append(h, node))
         /\ Len(Append(h, node)) = Len(h) + 1 /\ Len(h) \in Nat
         /\ DOMAIN h \subseteq DOMAIN Append(h, node) /\ Len(h) + 1 \in DOMAIN Append(h, node)
<1> DEFINE g == Append(h, node)
<1>1. /\ HeapOK(g) /\ Len(h) \in Nat /\ Len(g) = Len(h) + 1
      /\ DOMAIN h \subseteq DOMAIN g /\ Len(h) + 1 \in DOMAIN g
  BY NewNode
<1>2. h \in Seq(NodeType) /\ g \in Seq(NodeType)
  BY <1>1 DEF HeapOK
<1>3. PICK k \in Nat : k = Len(h) /\ DOMAIN h = 1 .. k
  BY <1>2
<1>4. /\ g[k + 1] = node /\ \A i \in 1 .. k : g[i] = h[i]
  <2> HIDE DEF NodeType
  <2> QED  BY <1>2, <1>3, Appended
<1>5. DOMAIN g = 1 .. k + 1
  BY <1>1, <1>2, <1>3
<1> HIDE DEF g
<1>6. \A m : IsComplete(h, m) /\ (\A i \in DOMAIN m.kids : m.kids[i] \in 1 .. k)
               => IsComplete(g, m)
  BY <1>4 DEF IsComplete
<1>7. ASSUME NEW n \in 1 .. k + 1 PROVE IsComplete(g, g[n])
  <2>1. CASE n = k + 1
    BY <1>3, <1>4, <1>6, <2>1
  <2>2. CASE n \in 1 .. k
    <3>1. \A i \in DOMAIN h[n].kids : h[n].kids[i] \in 1 .. n - 1
      BY <1>3, <2>2 DEF HeapOK
    <3>2. \A j \in 1 .. n - 1 : j \in 1 .. k
      BY <2>2
    <3>3. IsComplete(h, h[n])
      BY <1>3, <2>2 DEF CompleteTrees
    <3> QED  BY <1>4, <1>6, <2>2, <3>1, <3>2, <3>3
  <2> QED  BY <2>1, <2>2
<1>8. ASSUME NEW j \in DOMAIN roots PROVE g[roots[j]].kind \in {"prototype", "motif"}
  <2>1. roots[j] \in 1 .. k
    BY <1>3
  <2> QED  BY <1>4, <2>1 DEF CompleteTrees
<1>9. CompleteTrees(g, roots)
  BY <1>5, <1>7, <1>8 DEF CompleteTrees
<1> QED  BY <1>1, <1>3, <1>4, <1>9 DEF g, Extends

\* A definition or a declaration more.
LEMMA CompleteRoot ==
  ASSUME NEW h, NEW S, NEW roots \in Seq(S), CompleteTrees(h, roots),
         NEW r \in S, h[r].kind \in {"prototype", "motif"}
  PROVE  CompleteTrees(h, Append(roots, r))
<1> DEFINE t == Append(roots, r)
<1>1. PICK k \in Nat : k = Len(roots)
  BY LenProperties
<1>2. /\ t \in Seq(S) /\ Len(t) = k + 1 /\ t[k + 1] = r /\ \A i \in 1 .. k : t[i] = roots[i]
  BY <1>1, Appended
<1>3. DOMAIN t = 1 .. k + 1 /\ DOMAIN roots = 1 .. k
  BY <1>1, <1>2, LenProperties
<1> HIDE DEF t
<1>4. \A i \in 1 .. k + 1 : i \in 1 .. k \/ i = k + 1
  BY <1>1
<1>5. CompleteTrees(h, t)
  BY <1>2, <1>3, <1>4 DEF CompleteTrees
<1> QED  BY <1>5 DEF t

\* One part more, of the kinds of the others.
LEMMA PartsAppended ==
  ASSUME NEW h, NEW K, NEW k \in Seq(Nat), NEW e \in Nat, h[e].kind \in K,
         \A i \in DOMAIN k : h[k[i]].kind \in K
  PROVE  /\ Append(k, e) \in Seq(Nat) /\ Len(Append(k, e)) = Len(k) + 1
         /\ \A i \in DOMAIN Append(k, e) : h[Append(k, e)[i]].kind \in K
<1> DEFINE t == Append(k, e)
<1>1. PICK n \in Nat : n = Len(k)
  BY LenProperties
<1>2. t \in Seq(Nat) /\ Len(t) = n + 1 /\ t[n + 1] = e /\ \A i \in 1 .. n : t[i] = k[i]
  BY <1>1, Appended
<1>3. DOMAIN t = 1 .. n + 1 /\ DOMAIN k = 1 .. n
  BY <1>1, <1>2, LenProperties
<1> HIDE DEF t
<1>4. \A i \in 1 .. n + 1 : i \in 1 .. n \/ i = n + 1
  BY <1>1
<1>5. \A i \in DOMAIN t : h[t[i]].kind \in K
  BY <1>2, <1>3, <1>4
<1> QED  BY <1>1, <1>2, <1>5 DEF t

-----------------------------------------------------------------------------
(* The ways a step ends *)

LEMMA TreesNow ==
  ASSUME TreesInv
  PROVE  /\ ParserInv /\ Held(stack, nodes) /\ CompleteTrees(nodes, syntaxTree)
         /\ Expression(nodes, value)
         /\ HeapOK(nodes) /\ syntaxTree \in Seq(DOMAIN nodes) /\ stack \in Seq(FrameType)
         /\ WellFormed(stack, Len(nodes)) /\ Len(nodes) \in Nat
         /\ value \in 0 .. Len(nodes) /\ pos \in Nat
  BY TypeOKParts, Counters DEF TreesInv, TreesAreComplete, ParserInv

LEMMA FromHeld ==
  ASSUME Held(stack', nodes'), CompleteTrees(nodes', syntaxTree'), Expression(nodes', value')
  PROVE  TreesKept'
  BY DEF TreesKept, TreesAreComplete, Held, CompleteTrees, IsComplete, Expression, FrameHolds

LEMMA SameHeld ==
  ASSUME TreesInv, UNCHANGED <<stack, nodes, value, syntaxTree>>
  PROVE  TreesKept'
  BY TreesNow, FromHeld

LEMMA CallHeld ==
  ASSUME TreesInv, NEW s \in Seq(FrameType), Held(s, nodes), NEW n, CallExpression(s, n)
  PROVE  TreesKept'
<1> DEFINE f == Frame("parseExpression", 0, 0, <<>>)
<1>1. f \in FrameType /\ FrameHolds(nodes, f)
  BY NoParts DEF Frame, FrameType, CallSites
<1>2. stack' = Append(s, f) /\ UNCHANGED <<value, nodes, syntaxTree>>
  BY DEF CallExpression
<1> HIDE DEF f
<1>3. Held(Append(s, f), nodes)
  BY <1>1, HeldPush
<1> QED  BY <1>2, <1>3, TreesNow, FromHeld

LEMMA ReturnHeld ==
  ASSUME TreesInv, NEW s, Held(s, nodes), NEW v, Expression(nodes, v), NEW n, Return(v, s, n)
  PROVE  TreesKept'
  BY TreesNow, FromHeld DEF Return

LEMMA ReturnNewHeld ==
  ASSUME TreesInv, NEW s, Held(s, nodes), WellFormed(s, Len(nodes)), NEW n,
         NEW node \in NodeType, node.kind \in ExpressionKinds, IsComplete(nodes, node),
         \A k \in DOMAIN node.kids : node.kids[k] \in 1 .. Len(nodes),
         ReturnNew(node, s, n)
  PROVE  TreesKept'
<1>1. /\ nodes' = Append(nodes, node) /\ value' = Len(nodes) + 1 /\ stack' = s
      /\ syntaxTree' = syntaxTree
  BY DEF ReturnNew
<1>2. /\ CompleteTrees(nodes', syntaxTree) /\ Extends(nodes, nodes')
      /\ nodes'[Len(nodes) + 1] = node
  BY <1>1, TreesNow, CompleteNode
<1>3. Held(s, nodes')
  BY <1>2, HeldGrow
<1>4. Expression(nodes', value')
  BY <1>1, <1>2 DEF Expression
<1> QED  BY <1>1, <1>2, <1>3, <1>4, FromHeld

\* What was an expression still is.
LEMMA StillExpression ==
  ASSUME NEW h, NEW g, Extends(h, g), NEW n \in 0 .. Len(h), Len(h) \in Nat, Expression(h, n)
  PROVE  Expression(g, n)
  BY DEF Expression, Extends, Nil

\* The call on top goes on as f.
LEMMA ReplaceHeld ==
  ASSUME NEW s \in Seq(FrameType), NEW h, Held(s, h), s # <<>>,
         NEW f \in FrameType, FrameHolds(h, f)
  PROVE  Held(Append(Front(s), f), h) /\ Append(Front(s), f) \in Seq(FrameType)
  BY HeldPop, HeldPush

-----------------------------------------------------------------------------
(* The loop of parse(), with its prototypes *)

LEMMA KindsOfParts ==
  /\ KidsOf("prototype") = {"param"} /\ KidsOf("motif") = ExpressionKinds
  /\ \A kind \in {"binary", "call", "cond"} : KidsOf(kind) = ExpressionKinds
  BY DEF KidsOf

LEMMA EndTopLevelHeld ==
  ASSUME TreesInv, EndTopLevel PROVE TreesKept'
<1> DEFINE main == Len(nodes) + 1
           a    == Node("prototype", 0, <<>>)
           b    == Node("motif", 0, <<main, value>>)
           h    == Append(nodes, a)
<1>1. stack' = <<>> /\ value' = value
  BY DEF EndTopLevel
<1>2. CASE value = Nil
  <2>1. nodes' = nodes /\ syntaxTree' = syntaxTree
    BY <1>2 DEF EndTopLevel
  <2> QED  BY <1>1, <2>1, TreesNow, HeldAlone, FromHeld
<1>3. CASE value # Nil
  <2>1. /\ a \in NodeType /\ a.kids = <<>> /\ a.kind = "prototype" /\ IsComplete(nodes, a)
    BY DEF Node, NodeType, NodeKinds, IsComplete
  <2>2. /\ nodes' = nodes \o <<a, b>> /\ syntaxTree' = Append(syntaxTree, main + 1)
    BY <1>3 DEF EndTopLevel
  <2>3. value \in 1 .. Len(nodes) /\ value \in Nat /\ main \in Nat /\ Len(nodes) \in Nat
    BY <1>3, TreesNow DEF Nil
  <2>4. /\ b \in NodeType /\ b.kids = <<main, value>> /\ b.kind = "motif"
    BY <2>3 DEF Node, NodeType, NodeKinds
  <2> HIDE DEF a, b
  <2>5. nodes' = Append(h, b)
    BY <2>1, <2>2, <2>4, TreesNow DEF HeapOK
  <2>6. /\ CompleteTrees(h, syntaxTree) /\ Extends(nodes, h) /\ h[main] = a
        /\ HeapOK(h) /\ Len(h) = main /\ DOMAIN nodes \subseteq DOMAIN h
    BY <2>1, TreesNow, CompleteNode
  <2> HIDE DEF h
  <2>7. h[value].kind \in ExpressionKinds
    BY <1>3, <2>3, <2>6, TreesNow DEF Extends, Expression
  <2>8. IsComplete(h, b)
    <3>1. Len(b.kids) = 2 /\ DOMAIN b.kids = 1 .. 2 /\ b.kids[1] = main /\ b.kids[2] = value
      BY <2>4
    <3>2. \A i \in 1 .. 2 : i = 1 \/ i = 2
      OBVIOUS
    <3>3. h[main].kind = "prototype"
      BY <2>1, <2>6
    <3> HIDE DEF main
    <3> QED  BY <2>4, <2>7, <3>1, <3>2, <3>3, KindsOfParts DEF IsComplete
  <2>9. \A k \in DOMAIN b.kids : b.kids[k] \in 1 .. Len(h)
    BY <2>3, <2>4, <2>6
  <2>10. syntaxTree \in Seq(DOMAIN h)
    BY <2>6, TreesNow, SeqMonotonic
  <2>11. /\ CompleteTrees(nodes', syntaxTree) /\ Extends(h, nodes') /\ nodes'[main + 1] = b
         /\ DOMAIN h \subseteq DOMAIN nodes' /\ main + 1 \in DOMAIN nodes'
    BY <2>4, <2>5, <2>6, <2>8, <2>9, <2>10, CompleteNode
  <2>12. syntaxTree \in Seq(DOMAIN nodes')
    BY <2>10, <2>11, SeqMonotonic
  <2>13. CompleteTrees(nodes', syntaxTree')
    BY <2>2, <2>4, <2>11, <2>12, CompleteRoot
  <2>14. Expression(nodes', value')
    <3>1. Expression(h, value) /\ value \in 0 .. Len(h) /\ Len(h) \in Nat
      BY <2>3, <2>6, <2>7 DEF Expression
    <3> QED  BY <1>1, <2>11, <3>1, StillExpression
  <2> QED  BY <1>1, <2>13, <2>14, HeldAlone, FromHeld
<1> QED  BY <1>2, <1>3

\* One complete node and, if it is a root, one root more.
LEMMA ItemHeld ==
  ASSUME TreesInv, NEW node \in NodeType, IsComplete(nodes, node),
         \A k \in DOMAIN node.kids : node.kids[k] \in 1 .. Len(nodes),
         nodes' = Append(nodes, node), value' = value,
         \/ syntaxTree' = syntaxTree
         \/ syntaxTree' = Append(syntaxTree, Len(nodes) + 1) /\ node.kind \in {"prototype", "motif"}
  PROVE  /\ CompleteTrees(nodes', syntaxTree') /\ Expression(nodes', value')
         /\ Extends(nodes, nodes') /\ nodes'[Len(nodes) + 1] = node
<1>1. /\ CompleteTrees(nodes', syntaxTree) /\ Extends(nodes, nodes')
      /\ nodes'[Len(nodes) + 1] = node
      /\ DOMAIN nodes \subseteq DOMAIN nodes' /\ Len(nodes) + 1 \in DOMAIN nodes'
  BY TreesNow, CompleteNode
<1>2. syntaxTree \in Seq(DOMAIN nodes')
  BY <1>1, TreesNow, SeqMonotonic
<1>3. CompleteTrees(nodes', syntaxTree')
  BY <1>1, <1>2, CompleteRoot
<1>4. Expression(nodes', value')
  BY <1>1, TreesNow, StillExpression
<1> QED  BY <1>1, <1>3, <1>4

LEMMA EndDefinitionHeld ==
  ASSUME TreesInv, EndDefinition PROVE TreesKept'
<1> DEFINE f     == Last(stack)
           body  == IF value = Nil THEN <<>> ELSE <<value>>
           kids  == f.kids \o body
           motif == Node("motif", 0, kids)
<1>1. /\ stack' = <<>> /\ value' = value /\ nodes' = Append(nodes, motif)
      /\ syntaxTree' = Append(syntaxTree, Len(nodes) + 1)
      /\ control = "return" /\ f.fn = "parseFunctionDefinition"
  BY DEF EndDefinition, AtTop
<1>2. /\ stack # <<>> /\ f \in FrameType /\ FrameOK(f, Len(nodes)) /\ FrameHolds(nodes, f)
  <2>1. stack # <<>>
    BY <1>1, TreesNow DEF ParserInv, TopMatchesControl, Running, Outcomes
  <2> QED  BY <2>1, TreesNow, FrameFacts, HeldPop
<1>3. PICK proto \in 1 .. Len(nodes) : f.kids = <<proto>> /\ nodes[proto].kind = "prototype"
  <2>1. Len(f.kids) = 1 /\ f.kids \in Seq(Nat) /\ 1 \in DOMAIN f.kids
    BY <1>1, <1>2 DEF FrameHolds, FrameType
  <2>2. f.kids[1] \in 1 .. Len(nodes)
    BY <1>2, <2>1 DEF FrameOK
  <2>3. nodes[f.kids[1]].kind = "prototype"
    BY <1>1, <1>2, <2>1 DEF FrameHolds, PartKinds, Keywords
  <2>4. f.kids = <<f.kids[1]>>
    <3> HIDE DEF f
    <3> QED  BY <2>1
  <2> QED  BY <2>2, <2>3, <2>4
<1>4. proto \in Nat /\ value \in Nat /\ (value # Nil => value \in 1 .. Len(nodes))
  BY <1>3, TreesNow DEF Nil
<1>5. kids = IF value = Nil THEN <<proto>> ELSE <<proto, value>>
  <2>1. <<proto>> \o <<>> = <<proto>> /\ <<proto>> \o <<value>> = <<proto, value>>
    <3>1. <<proto>> \in Seq(Nat) /\ value \in Nat
      BY <1>4
    <3>2. <<proto>> \o <<>> = <<proto>>
      BY <3>1, ConcatEmptySeq
    <3>3. <<proto>> \o <<value>> = Append(<<proto>>, value)
      BY <3>1
    <3>4. Append(<<proto>>, value) = <<proto, value>>
      <4> DEFINE s == Append(<<proto>>, value)
                 t == <<proto, value>>
      <4>1. /\ s \in Seq(Nat) /\ Len(s) = 2 /\ s[1] = proto /\ s[2] = value
        <5>1. Len(<<proto>>) = 1 /\ <<proto>>[1] = proto
          OBVIOUS
        <5> QED  BY <3>1, <5>1, Appended
      <4>2. t \in Seq(Nat) /\ Len(t) = 2 /\ t[1] = proto /\ t[2] = value
        BY <1>4
      <4> HIDE DEF s, t
      <4>3. \A i \in 1 .. 2 : s[i] = t[i]
        <5>1. \A i \in 1 .. 2 : i = 1 \/ i = 2
          OBVIOUS
        <5> QED  BY <4>1, <4>2, <5>1
      <4>4. s = t
        BY <4>1, <4>2, <4>3, SeqEqual
      <4> QED  BY <4>4 DEF s, t
    <3> QED  BY <3>2, <3>3, <3>4
  <2>2. kids = <<proto>> \o (IF value = Nil THEN <<>> ELSE <<value>>)
    BY <1>3
  <2> HIDE DEF kids
  <2> QED  BY <2>1, <2>2
<1> HIDE DEF f, kids
<1>6. motif \in NodeType /\ motif.kids = kids /\ motif.kind = "motif"
  BY <1>4, <1>5 DEF Node, NodeType, NodeKinds
<1> HIDE DEF motif
<1>7. \A k \in DOMAIN motif.kids : motif.kids[k] \in 1 .. Len(nodes)
  BY <1>3, <1>4, <1>5, <1>6
<1>8. IsComplete(nodes, motif)
  <2>1. CASE value = Nil
    <3>1. Len(motif.kids) = 1 /\ DOMAIN motif.kids = {1} /\ motif.kids[1] = proto
      BY <1>5, <1>6, <2>1
    <3> QED  BY <1>3, <1>6, <3>1 DEF IsComplete
  <2>2. CASE value # Nil
    <3>1. /\ Len(motif.kids) = 2 /\ DOMAIN motif.kids = {1, 2} /\ motif.kids[1] = proto
          /\ motif.kids[2] = value
      BY <1>5, <1>6, <2>2
    <3>2. nodes[value].kind \in ExpressionKinds
      BY <2>2, TreesNow DEF Expression
    <3> QED  BY <1>3, <1>6, <3>1, <3>2, KindsOfParts DEF IsComplete
  <2> QED  BY <2>1, <2>2
<1>9. CompleteTrees(nodes', syntaxTree') /\ Expression(nodes', value')
  BY <1>1, <1>6, <1>7, <1>8, ItemHeld
<1> QED  BY <1>1, <1>9, HeldAlone, FromHeld

LEMMA AddParameterHeld ==
  ASSUME TreesInv, AddParameter PROVE TreesKept'
<1> DEFINE f == Last(stack)
           n == Len(nodes) + 1
           g == [f EXCEPT !.kids = Append(@, n)]
           param == Node("param", pos + 1, <<>>)
<1>1. /\ stack' = Append(Front(stack), g) /\ nodes' = Append(nodes, param)
      /\ control = "parsePrototype" /\ value' = value /\ syntaxTree' = syntaxTree
  BY DEF AddParameter, Replace
<1>2. /\ stack # <<>> /\ f.fn \in Keywords /\ f \in FrameType
      /\ Len(stack) = 1 /\ stack \in Seq(FrameType)
  <2>1. stack # <<>> /\ f.fn \in Keywords
    BY <1>1, TreesNow DEF ParserInv, TopMatchesControl, Running, Outcomes
  <2>2. f.fn \in Bottoms
    BY <2>1 DEF Bottoms
  <2> QED  BY <2>1, <2>2, TreesNow, FrameFacts
<1>3. /\ param \in NodeType /\ param.kids = <<>> /\ param.kind = "param"
      /\ IsComplete(nodes, param)
  BY TreesNow DEF Node, NodeType, NodeKinds, IsComplete
<1> HIDE DEF param
<1>4. /\ CompleteTrees(nodes', syntaxTree') /\ Expression(nodes', value')
      /\ Extends(nodes, nodes') /\ nodes'[n] = param
  BY <1>1, <1>3, ItemHeld
<1>5. Held(stack, nodes')
  BY <1>4, TreesNow, HeldGrow
<1>6. n \in Nat /\ f.kids \in Seq(Nat)
  BY <1>2, TreesNow DEF FrameType
<1> HIDE DEF n
<1>7. FrameHolds(nodes', f)
  BY <1>2, <1>5, HeldPop
<1>8. \A i \in DOMAIN f.kids : nodes'[f.kids[i]].kind \in {"param"}
  BY <1>2, <1>7 DEF FrameHolds, PartKinds
<1>9. /\ Append(f.kids, n) \in Seq(Nat)
      /\ \A i \in DOMAIN Append(f.kids, n) : nodes'[Append(f.kids, n)[i]].kind \in {"param"}
  BY <1>3, <1>4, <1>6, <1>8, PartsAppended
<1>10. g \in FrameType /\ g.fn = f.fn /\ g.kids = Append(f.kids, n)
  <2> HIDE DEF f
  <2> QED  BY <1>2, <1>9 DEF FrameType
<1> HIDE DEF f, g
<1>11. FrameHolds(nodes', g)
  BY <1>2, <1>9, <1>10 DEF FrameHolds, PartKinds, Keywords
<1>12. Held(stack', nodes')
  BY <1>1, <1>2, <1>5, <1>10, <1>11, ReplaceHeld
<1> QED  BY <1>4, <1>12, FromHeld

LEMMA EndPrototypeHeld ==
  ASSUME TreesInv, EndPrototype PROVE TreesKept'
<1> DEFINE f     == Last(stack)
           n     == Len(nodes) + 1
           proto == Node("prototype", f.at, f.kids)
           d     == Frame("parseFunctionDefinition", 0, 0, <<n>>)
           e     == Frame("parseExpression", 0, 0, <<>>)
<1>1. /\ nodes' = Append(nodes, proto) /\ value' = value /\ control = "parsePrototype"
      /\ \/ stack' = <<>> /\ syntaxTree' = Append(syntaxTree, n)
         \/ stack' = <<d, e>> /\ syntaxTree' = syntaxTree
  BY DEF EndPrototype
<1>2. /\ stack # <<>> /\ f.fn \in Keywords /\ f \in FrameType /\ FrameOK(f, Len(nodes))
      /\ FrameHolds(nodes, f)
  <2>1. stack # <<>> /\ f.fn \in Keywords
    BY <1>1, TreesNow DEF ParserInv, TopMatchesControl, Running, Outcomes
  <2> QED  BY <2>1, TreesNow, FrameFacts, HeldPop
<1>3. proto \in NodeType /\ proto.kids = f.kids /\ proto.kind = "prototype"
  <2> HIDE DEF f
  <2> QED  BY <1>2 DEF Node, NodeType, NodeKinds, FrameType
<1>4. \A k \in DOMAIN f.kids : nodes[f.kids[k]].kind = "param" /\ f.kids[k] \in 1 .. Len(nodes)
  BY <1>2 DEF FrameHolds, FrameOK, PartKinds
<1> HIDE DEF proto, f
<1>5. IsComplete(nodes, proto) /\ \A k \in DOMAIN proto.kids : proto.kids[k] \in 1 .. Len(nodes)
  BY <1>3, <1>4, KindsOfParts DEF IsComplete
<1>6. /\ CompleteTrees(nodes', syntaxTree') /\ Expression(nodes', value')
      /\ nodes'[n] = proto
  BY <1>1, <1>3, <1>5, ItemHeld
<1>7. Held(stack', nodes')
  <2>1. FrameHolds(nodes', d)
    <3>1. d.fn = "parseFunctionDefinition" /\ d.kids = <<n>>
      BY DEF Frame
    <3> HIDE DEF d, n
    <3> QED  BY <1>3, <1>6, <3>1 DEF FrameHolds, PartKinds, Keywords
  <2>2. FrameHolds(nodes', e)
    BY NoParts
  <2> HIDE DEF d, e
  <2> QED  BY <1>1, <2>1, <2>2, HeldAlone
<1> QED  BY <1>6, <1>7, FromHeld

LEMMA ParseHeld ==
  ASSUME TreesInv, Parse \/ ParsePrototype PROVE TreesKept'
<1>1. CASE Finish \/ SkipSeparator \/ RejectPrototype \/ ExhaustMemory \/ RejectParameter
             \/ DropLastBracket
  BY <1>1, SameHeld DEF Finish, SkipSeparator, RejectPrototype, ExhaustMemory,
     RejectParameter, DropLastBracket, Halt, vars
<1>2. CASE BeginPrototype
  <2> DEFINE f == Frame(Current, pos + 1, 0, <<>>)
  <2>1. stack' = <<f>> /\ UNCHANGED <<value, nodes, syntaxTree>> /\ Current \in Keywords
    BY <1>2 DEF BeginPrototype
  <2>2. FrameHolds(nodes, f)
    BY <2>1, NoParts DEF Keywords
  <2> HIDE DEF f
  <2> QED  BY <2>1, <2>2, TreesNow, HeldAlone, FromHeld
<1>3. CASE BeginTopLevel
  <2> DEFINE f == Frame("parseTopLevelExpression", 0, 0, <<>>)
  <2>1. CallExpression(<<f>>, 0)
    BY <1>3 DEF BeginTopLevel
  <2>2. f \in FrameType /\ FrameHolds(nodes, f)
    BY NoParts DEF Frame, FrameType, CallSites
  <2> HIDE DEF f
  <2>3. <<f>> \in Seq(FrameType) /\ Held(<<f>>, nodes)
    BY <2>2, HeldAlone
  <2> QED  BY <2>1, <2>3, CallHeld
<1> QED  BY <1>1, <1>2, <1>3, EndTopLevelHeld, EndDefinitionHeld, AddParameterHeld,
            EndPrototypeHeld DEF Parse, ParsePrototype

-----------------------------------------------------------------------------
(* parsePrimary() *)

LEMMA PrimaryHeld ==
  ASSUME TreesInv, ParsePrimary PROVE TreesKept'
<1>1. CASE Overflow \/ UnknownToken
  BY <1>1, SameHeld DEF Overflow, UnknownToken, Halt
<1>2. ASSUME NEW n, Return(Nil, stack, n) PROVE TreesKept'
  BY <1>2, TreesNow, ReturnHeld DEF Expression
<1>3. CASE Number \/ Variable \/ CallWithoutArguments
  <2>1. PICK kind \in {"number", "variable", "call"}, n \in {0, 2} :
         ReturnNew(Node(kind, pos, <<>>), stack, n)
    BY <1>3 DEF Number, Variable, CallWithoutArguments
  <2> DEFINE node == Node(kind, pos, <<>>)
  <2>2. /\ node \in NodeType /\ node.kind \in ExpressionKinds /\ node.kids = <<>>
        /\ IsComplete(nodes, node)
    BY TreesNow DEF Node, NodeType, NodeKinds, ExpressionKinds, IsComplete
  <2> HIDE DEF node
  <2>3. \A k \in DOMAIN node.kids : node.kids[k] \in 1 .. Len(nodes)
    BY <2>2
  <2> QED  BY <2>1, <2>2, <2>3, TreesNow, ReturnNewHeld DEF node
<1>4. ASSUME NEW fn \in {"argument", "condition", "parentheses", "curlyBrackets"},
             NEW at \in Nat, NEW n, CallExpression(Append(stack, Frame(fn, at, 0, <<>>)), n)
      PROVE  TreesKept'
  <2> DEFINE f == Frame(fn, at, 0, <<>>)
  <2>1. fn \in CallSites
    BY DEF CallSites
  <2>2. f \in FrameType
    BY <2>1 DEF Frame, FrameType
  <2>3. FrameHolds(nodes, f)
    BY NoParts
  <2> HIDE DEF f
  <2>4. Held(Append(stack, f), nodes) /\ Append(stack, f) \in Seq(FrameType)
    BY <2>2, <2>3, TreesNow, HeldPush
  <2> QED  BY <1>4, <2>4, CallHeld DEF f
<1>5. pos \in Nat /\ pos + 2 \in Nat /\ 0 \in Nat
  BY TreesNow
<1>6. CASE NoPrimary \/ CallCutShort
  BY <1>2, <1>6 DEF NoPrimary, CallCutShort
<1>7. CASE CallWithArguments \/ BeginTernary \/ BeginParentheses \/ BeginCurlyBrackets
  BY <1>2, <1>4, <1>5, <1>7 DEF CallWithArguments, BeginTernary, BeginParentheses,
     BeginCurlyBrackets
<1>8. CASE OperatorAsPrimary
  BY <1>8, TreesNow, CallHeld DEF OperatorAsPrimary
<1> QED  BY <1>1, <1>3, <1>6, <1>7, <1>8 DEF ParsePrimary

-----------------------------------------------------------------------------
(* The functions that go on when a call of theirs has returned *)

\* The call on top, and what it holds.
LEMMA TopHeld ==
  ASSUME TreesInv, control \in {"return", RHS}
  PROVE  /\ stack # <<>> /\ Last(stack) \in FrameType /\ FrameOK(Last(stack), Len(nodes))
         /\ FrameHolds(nodes, Last(stack))
         /\ Held(Front(stack), nodes) /\ Front(stack) \in Seq(FrameType)
         /\ Last(stack).kids \in Seq(Nat) /\ Last(stack).at \in Nat /\ Last(stack).prec \in Nat
<1>1. stack # <<>>
  BY TreesNow DEF ParserInv, TopMatchesControl, Running, Outcomes, RHS
<1>2. Last(stack) \in FrameType /\ FrameOK(Last(stack), Len(nodes))
  BY <1>1, TreesNow, FrameFacts
<1>3. Last(stack).kids \in Seq(Nat) /\ Last(stack).at \in Nat /\ Last(stack).prec \in Nat
  BY <1>2 DEF FrameType
<1> QED  BY <1>1, <1>2, <1>3, TreesNow, HeldPop

\* Functions that hold expressions.
Operations == {RHS, "operand", "nested", "argument", "condition"}

\* A frame with these parts, and the value returned after them.
LEMMA ExpressionParts ==
  ASSUME TreesInv, NEW k \in Seq(Nat), value # Nil,
         \A i \in DOMAIN k : nodes[k[i]].kind \in ExpressionKinds /\ k[i] \in 1 .. Len(nodes)
  PROVE  /\ Append(k, value) \in Seq(Nat) /\ Len(Append(k, value)) = Len(k) + 1
         /\ \A i \in DOMAIN Append(k, value) :
              /\ nodes[Append(k, value)[i]].kind \in ExpressionKinds
              /\ Append(k, value)[i] \in 1 .. Len(nodes)
<1>1. value \in Nat /\ value \in 1 .. Len(nodes) /\ nodes[value].kind \in ExpressionKinds
  BY TreesNow DEF Nil, Expression
<1>2. /\ Append(k, value) \in Seq(Nat) /\ Len(Append(k, value)) = Len(k) + 1
      /\ \A i \in DOMAIN Append(k, value) : nodes[Append(k, value)[i]].kind \in ExpressionKinds
  BY <1>1, PartsAppended
<1>3. \A i \in DOMAIN Append(k, value) : Append(k, value)[i] \in 1 .. Len(nodes)
  BY <1>1, OneMore
<1> QED  BY <1>2, <1>3

LEMMA FrameWith ==
  ASSUME NEW fn \in Operations, NEW at \in Nat, NEW prec \in Nat, NEW k \in Seq(Nat), NEW h,
         \A i \in DOMAIN k : h[k[i]].kind \in ExpressionKinds
  PROVE  Frame(fn, at, prec, k) \in FrameType /\ FrameHolds(h, Frame(fn, at, prec, k))
<1> DEFINE f == Frame(fn, at, prec, k)
<1>1. fn \in CallSites
  BY DEF Operations, CallSites, RHS
<1>2. f \in FrameType /\ f.fn = fn /\ f.kids = k
  BY <1>1 DEF Frame, FrameType
<1> HIDE DEF f
<1>3. FrameHolds(h, f)
  BY <1>2 DEF FrameHolds, PartKinds, Operations, RHS, Keywords
<1> QED  BY <1>2, <1>3 DEF f

\* A loop over the operators, with its left operand.
LEMMA LoopHolds ==
  ASSUME NEW h, NEW lhs \in Nat, h[lhs].kind \in ExpressionKinds, NEW prec \in Nat
  PROVE  LoopFrame(prec, lhs) \in FrameType /\ FrameHolds(h, LoopFrame(prec, lhs))
<1>1. <<lhs>> \in Seq(Nat) /\ \A i \in DOMAIN <<lhs>> : h[<<lhs>>[i]].kind \in ExpressionKinds
  OBVIOUS
<1>2. RHS \in Operations /\ 0 \in Nat
  BY DEF Operations
<1> QED  BY <1>1, <1>2, FrameWith DEF LoopFrame, RHS

LEMMA CombineHeld ==
  ASSUME TreesInv, control = "return", Last(stack).fn \in {"operand", "nested"},
         NEW rhs \in 1 .. Len(nodes), nodes[rhs].kind \in ExpressionKinds,
         Combine(Last(stack), rhs)
  PROVE  TreesKept'
<1> DEFINE f    == Last(stack)
           n    == Len(nodes) + 1
           lhs  == f.kids[1]
           node == Node("binary", f.at, <<lhs, rhs>>)
           g    == LoopFrame(f.prec, n)
<1>1. /\ stack # <<>> /\ FrameOK(f, Len(nodes)) /\ FrameHolds(nodes, f)
      /\ f.kids \in Seq(Nat) /\ f.at \in Nat /\ f.prec \in Nat
  BY TopHeld
<1>2. /\ nodes' = Append(nodes, node) /\ stack' = Append(Front(stack), g) /\ value' = value
      /\ syntaxTree' = syntaxTree
  BY DEF Combine, Replace
<1>3. lhs \in 1 .. Len(nodes) /\ nodes[lhs].kind \in ExpressionKinds
  <2>1. 1 \in DOMAIN f.kids
    BY <1>1 DEF FrameOK
  <2> QED  BY <1>1, <2>1 DEF FrameOK, FrameHolds, PartKinds, Keywords
<1>4. n \in Nat /\ lhs \in Nat /\ rhs \in Nat
  BY <1>3, TreesNow
<1> HIDE DEF lhs, n
<1>5. node \in NodeType /\ node.kids = <<lhs, rhs>> /\ node.kind = "binary"
  <2> HIDE DEF f
  <2> QED  BY <1>1, <1>4 DEF Node, NodeType, NodeKinds
<1> HIDE DEF node
<1>6. /\ \A k \in DOMAIN node.kids : node.kids[k] \in 1 .. Len(nodes)
      /\ IsComplete(nodes, node)
  <2>1. Len(node.kids) = 2 /\ DOMAIN node.kids = {1, 2} /\ node.kids[1] = lhs /\ node.kids[2] = rhs
    BY <1>5
  <2> QED  BY <1>3, <1>5, <2>1, KindsOfParts DEF IsComplete
<1>7. /\ CompleteTrees(nodes', syntaxTree') /\ Expression(nodes', value')
      /\ Extends(nodes, nodes') /\ nodes'[n] = node
  BY <1>2, <1>5, <1>6, ItemHeld DEF n
<1>8. g \in FrameType /\ FrameHolds(nodes', g)
  <2>1. nodes'[n].kind \in ExpressionKinds
    BY <1>5, <1>7 DEF ExpressionKinds
  <2> HIDE DEF f
  <2> QED  BY <1>1, <1>4, <2>1, LoopHolds
<1>9. Held(stack, nodes')
  BY <1>7, TreesNow, HeldGrow
<1> HIDE DEF g
<1>10. Held(Append(Front(stack), g), nodes')
  BY <1>1, <1>8, <1>9, TreesNow, ReplaceHeld
<1> QED  BY <1>2, <1>7, <1>10, FromHeld

LEMMA OperatorsHeld ==
  ASSUME TreesInv, ParseOperators PROVE TreesKept'
<1> DEFINE f == Last(stack)
<1>1. control \in {"return", RHS}
  BY DEF ParseOperators, BeginOperators, TakeOperator, EndOperators, ClimbOperators,
     CombineOperand, CombineNested, AtTop, RHS
<1>2. /\ stack # <<>> /\ f \in FrameType /\ FrameOK(f, Len(nodes)) /\ FrameHolds(nodes, f)
      /\ Held(Front(stack), nodes) /\ Front(stack) \in Seq(FrameType)
      /\ f.kids \in Seq(Nat) /\ f.at \in Nat /\ f.prec \in Nat /\ pos + 1 \in Nat
      /\ f.fn \in Operations => \A i \in DOMAIN f.kids :
           nodes[f.kids[i]].kind \in ExpressionKinds /\ f.kids[i] \in 1 .. Len(nodes)
  <2>1. f.fn \in Operations => PartKinds(f.fn) = ExpressionKinds
    BY DEF PartKinds, Operations, Keywords, RHS
  <2>2. FrameOK(f, Len(nodes)) /\ FrameHolds(nodes, f)
    BY <1>1, TopHeld
  <2>3. f.fn \in Operations => \A i \in DOMAIN f.kids :
          nodes[f.kids[i]].kind \in ExpressionKinds /\ f.kids[i] \in 1 .. Len(nodes)
    <3> HIDE DEF f
    <3> QED  BY <2>1, <2>2 DEF FrameHolds, FrameOK
  <2>4. pos + 1 \in Nat
    BY TreesNow
  <2> QED  BY <1>1, <2>3, <2>4, TopHeld
<1>3. value # Nil =>
        value \in Nat /\ value \in 1 .. Len(nodes) /\ nodes[value].kind \in ExpressionKinds
  BY TreesNow DEF Nil, Expression
<1> HIDE DEF f
<1>4. CASE BeginOperators
  <2> DEFINE g == LoopFrame(0, value)
  <2>1. /\ stack' = Append(Front(stack), g) /\ value # Nil
        /\ UNCHANGED <<value, nodes, syntaxTree>>
    BY <1>4 DEF BeginOperators, Replace
  <2>2. g \in FrameType /\ FrameHolds(nodes, g)
    BY <1>3, <2>1, LoopHolds
  <2> HIDE DEF g
  <2>3. Held(Append(Front(stack), g), nodes)
    BY <1>2, <2>2, HeldPush
  <2> QED  BY <2>1, <2>3, TreesNow, FromHeld
<1>5. CASE TakeOperator
  <2> DEFINE g == Frame("operand", pos + 1, f.prec, f.kids)
  <2>1. /\ stack' = Append(Front(stack), g) /\ UNCHANGED <<value, nodes, syntaxTree>>
        /\ control = RHS
    BY <1>5 DEF TakeOperator, Replace, RHS, f
  <2>2. f.fn = RHS
    BY <2>1, TreesNow DEF ParserInv, TopMatchesControl, f
  <2>3. g \in FrameType /\ FrameHolds(nodes, g)
    BY <1>2, <2>2, FrameWith DEF Operations
  <2> HIDE DEF g
  <2>4. Held(Append(Front(stack), g), nodes)
    BY <1>2, <2>3, HeldPush
  <2> QED  BY <2>1, <2>4, TreesNow, FromHeld
<1>6. CASE EndOperators
  <2>1. Return(f.kids[1], Front(stack), 0) /\ control = RHS
    BY <1>6 DEF EndOperators, f, RHS
  <2>2. f.fn = RHS
    BY <2>1, TreesNow DEF ParserInv, TopMatchesControl, f
  <2>3. 1 \in DOMAIN f.kids
    BY <1>2, <2>2 DEF FrameOK
  <2>4. Expression(nodes, f.kids[1])
    BY <1>2, <2>2, <2>3 DEF Expression, Operations
  <2> QED  BY <1>2, <2>1, <2>4, ReturnHeld
<1>7. CASE ClimbOperators
  <2> DEFINE prec == Precedence(tokens[f.at])
             g    == Frame("nested", f.at, f.prec, Append(f.kids, value))
             h    == LoopFrame(prec + 1, value)
  <2>1. /\ stack' = Append(Append(Front(stack), g), h) /\ value # Nil /\ f.fn = "operand"
        /\ UNCHANGED <<value, nodes, syntaxTree>>
    BY <1>7 DEF ClimbOperators, Replace, AtTop, f
  <2>2. prec + 1 \in Nat
    <3>1. prec \in Nat
      BY <1>2, <2>1, Precedences DEF FrameOK
    <3> QED  BY <3>1
  <2>3. /\ Append(f.kids, value) \in Seq(Nat)
        /\ \A i \in DOMAIN Append(f.kids, value) :
             nodes[Append(f.kids, value)[i]].kind \in ExpressionKinds
    BY <1>2, <2>1, ExpressionParts DEF Operations
  <2>4. g \in FrameType /\ FrameHolds(nodes, g)
    BY <1>2, <2>3, FrameWith DEF Operations
  <2>5. h \in FrameType /\ FrameHolds(nodes, h)
    BY <1>3, <2>1, <2>2, LoopHolds
  <2> HIDE DEF g, h
  <2>6. Held(Append(Front(stack), g), nodes) /\ Append(Front(stack), g) \in Seq(FrameType)
    BY <1>2, <2>4, HeldPush
  <2>7. Held(Append(Append(Front(stack), g), h), nodes)
    BY <2>5, <2>6, HeldPush
  <2> QED  BY <2>1, <2>7, TreesNow, FromHeld
<1>8. CASE CombineOperand
  BY <1>3, <1>8, CombineHeld DEF CombineOperand, AtTop
<1>9. CASE CombineNested
  <2> DEFINE rhs == IF value = Nil THEN f.kids[2] ELSE value
  <2>1. control = "return" /\ f.fn = "nested" /\ Combine(Last(stack), rhs)
    BY <1>9 DEF CombineNested, AtTop, f
  <2>2. 2 \in DOMAIN f.kids
    BY <1>2, <2>1 DEF FrameOK
  <2>3. rhs \in 1 .. Len(nodes) /\ nodes[rhs].kind \in ExpressionKinds
    BY <1>2, <1>3, <2>1, <2>2 DEF Operations
  <2> HIDE DEF rhs
  <2> QED  BY <2>1, <2>3, CombineHeld DEF f
<1> QED  BY <1>4, <1>5, <1>6, <1>7, <1>8, <1>9 DEF ParseOperators

LEMMA ResumeHeld ==
  ASSUME TreesInv, Resume PROVE TreesKept'
<1> DEFINE f    == Last(stack)
           kids == Append(f.kids, value)
<1>1. control = "return"
  BY DEF Resume, PropagateNil, EndArguments, NextArgument, RejectArguments, EndCondition,
     EndThen, EndElse, EndParentheses, EndCurlyBrackets, AtTop, AtArgument
<1>2. /\ stack # <<>> /\ f \in FrameType /\ FrameOK(f, Len(nodes)) /\ FrameHolds(nodes, f)
      /\ Held(Front(stack), nodes) /\ Front(stack) \in Seq(FrameType)
      /\ f.kids \in Seq(Nat) /\ f.at \in Nat
  BY <1>1, TopHeld
<1>3. WellFormed(Front(stack), Len(nodes))
  <2>1. Waiting(f)
    BY <1>1, TreesNow DEF ParserInv, TopMatchesControl
  <2>2. f.fn \notin Bottoms => WellFormed(Front(stack), Len(nodes))
    BY <1>2, TreesNow, Pop
  <2>3. f.fn \in {"parseExpression", "operand", "argument", "condition", "then", "else",
                  "parentheses", "curlyBrackets"}
    BY DEF Resume, PropagateNil, EndArguments, NextArgument, RejectArguments, EndCondition,
       EndThen, EndElse, EndParentheses, EndCurlyBrackets, AtTop, AtArgument
  <2> QED  BY <2>2, <2>3 DEF Bottoms, Keywords
<1>4. \A fn \in {"argument", "condition", "then", "else"} : PartKinds(fn) = ExpressionKinds
  BY DEF PartKinds, Keywords
<1>5. ASSUME value # Nil, f.fn \in {"argument", "then", "else"}
      PROVE  /\ kids \in Seq(Nat) /\ Len(kids) = Len(f.kids) + 1
             /\ \A i \in DOMAIN kids :
                  nodes[kids[i]].kind \in ExpressionKinds /\ kids[i] \in 1 .. Len(nodes)
  <2>1. \A i \in DOMAIN f.kids :
          nodes[f.kids[i]].kind \in ExpressionKinds /\ f.kids[i] \in 1 .. Len(nodes)
    <3> HIDE DEF f
    <3> QED  BY <1>2, <1>4, <1>5 DEF FrameHolds, FrameOK
  <2> HIDE DEF f
  <2> QED  BY <1>2, <1>5, <2>1, ExpressionParts
<1>6. ASSUME NEW outcome, Halt(outcome) PROVE TreesKept'
  BY <1>6, SameHeld DEF Halt
<1>7. ASSUME NEW g \in FrameType, FrameHolds(nodes, g), NEW n, CallExpression(Replace(g), n)
      PROVE  TreesKept'
  <2>1. Held(Replace(g), nodes) /\ Replace(g) \in Seq(FrameType)
    BY <1>2, <1>7, TreesNow, ReplaceHeld DEF Replace
  <2> QED  BY <1>7, <2>1, CallHeld
<1>8. ASSUME NEW n, Return(value, Front(stack), n) PROVE TreesKept'
  BY <1>2, <1>8, TreesNow, ReturnHeld
<1>9. ASSUME NEW kind \in {"call", "cond"}, value # Nil, f.fn \in {"argument", "then", "else"},
             kind = "cond" => Len(kids) = 3,
             NEW n, ReturnNew(Node(kind, f.at, kids), Front(stack), n)
      PROVE  TreesKept'
  <2> DEFINE node == Node(kind, f.at, kids)
  <2>1. /\ kids \in Seq(Nat)
        /\ \A i \in DOMAIN kids :
             nodes[kids[i]].kind \in ExpressionKinds /\ kids[i] \in 1 .. Len(nodes)
    BY <1>5, <1>9
  <2> HIDE DEF kids, f
  <2>2. node \in NodeType /\ node.kids = kids /\ node.kind = kind
    BY <1>2, <2>1 DEF Node, NodeType, NodeKinds
  <2> HIDE DEF node
  <2>3. /\ node.kind \in ExpressionKinds /\ IsComplete(nodes, node)
        /\ \A k \in DOMAIN node.kids : node.kids[k] \in 1 .. Len(nodes)
    BY <1>9, <2>1, <2>2, KindsOfParts DEF IsComplete, ExpressionKinds
  <2> QED  BY <1>2, <1>3, <1>9, <2>2, <2>3, ReturnNewHeld DEF node
<1>10. CASE PropagateNil
  <2>1. Return(value, Front(stack), 0)
    BY <1>10 DEF PropagateNil
  <2> QED  BY <1>8, <2>1
<1>11. CASE EndArguments
  <2>1. value # Nil /\ f.fn = "argument"
    BY <1>11 DEF EndArguments, AtArgument, AtTop
  <2>2. PICK n : ReturnNew(Node("call", f.at, kids), Front(stack), n)
    BY <1>11 DEF EndArguments
  <2> HIDE DEF f, kids
  <2> QED  BY <1>9, <2>1, <2>2
<1>12. CASE NextArgument
  <2> DEFINE g == [f EXCEPT !.kids = kids]
  <2>1. value # Nil /\ f.fn = "argument" /\ CallExpression(Replace(g), 1)
    BY <1>12 DEF NextArgument, AtArgument, AtTop
  <2>2. kids \in Seq(Nat) /\ \A i \in DOMAIN kids : nodes[kids[i]].kind \in ExpressionKinds
    BY <1>5, <2>1
  <2> HIDE DEF f, kids
  <2>3. g \in FrameType /\ g.fn = "argument" /\ g.kids = kids
    BY <1>2, <2>1, <2>2 DEF FrameType
  <2> HIDE DEF g
  <2>4. FrameHolds(nodes, g)
    BY <1>4, <2>2, <2>3 DEF FrameHolds
  <2> QED  BY <1>7, <2>1, <2>3, <2>4
<1>13. CASE RejectArguments
  BY <1>6, <1>13 DEF RejectArguments
<1>14. CASE EndCondition
  <2> DEFINE g == Frame("then", f.at, 0, <<value>>)
  <2>1. value # Nil /\ (CallExpression(Replace(g), 1) \/ Halt("trapped"))
    BY <1>14 DEF EndCondition
  <2>2. value \in Nat /\ nodes[value].kind \in ExpressionKinds
    BY <2>1, TreesNow DEF Expression
  <2>3. "then" \in CallSites
    BY DEF CallSites
  <2> HIDE DEF f
  <2>4. g \in FrameType /\ g.fn = "then" /\ g.kids = <<value>>
    BY <1>2, <2>2, <2>3 DEF Frame, FrameType
  <2> HIDE DEF g
  <2>5. FrameHolds(nodes, g)
    BY <1>4, <2>2, <2>4 DEF FrameHolds
  <2> QED  BY <1>6, <1>7, <2>1, <2>4, <2>5
<1>15. CASE EndThen
  <2> DEFINE g == Frame("else", f.at, 0, kids)
  <2>1. /\ f.fn = "then"
        /\ (value # Nil /\ CallExpression(Replace(g), 2)) \/ Halt("trapped")
    BY <1>15 DEF EndThen, AtTop
  <2>2. ASSUME value # Nil PROVE g \in FrameType /\ FrameHolds(nodes, g)
    <3>1. /\ kids \in Seq(Nat) /\ Len(kids) = Len(f.kids) + 1
          /\ \A i \in DOMAIN kids : nodes[kids[i]].kind \in ExpressionKinds
      BY <1>5, <2>1, <2>2
    <3>2. Len(f.kids) = 1
      BY <1>2, <2>1 DEF FrameHolds
    <3>3. "else" \in CallSites
      BY DEF CallSites
    <3> HIDE DEF f, kids
    <3>4. g \in FrameType /\ g.fn = "else" /\ g.kids = kids
      BY <1>2, <3>1, <3>3 DEF Frame, FrameType
    <3> HIDE DEF g
    <3> QED  BY <1>4, <3>1, <3>2, <3>4 DEF FrameHolds
  <2> HIDE DEF g
  <2> QED  BY <1>6, <1>7, <2>1, <2>2
<1>16. CASE EndElse
  <2>1. /\ f.fn = "else"
        /\ \/ value # Nil /\ ReturnNew(Node("cond", f.at, kids), Front(stack), 0)
           \/ Halt("trapped")
    BY <1>16 DEF EndElse, AtTop
  <2>2. value # Nil => Len(kids) = 3
    <3>1. Len(f.kids) = 2
      BY <1>2, <2>1 DEF FrameHolds
    <3> HIDE DEF kids, f
    <3> QED  BY <1>5, <2>1, <3>1
  <2> HIDE DEF kids, f
  <2> QED  BY <1>6, <1>9, <2>1, <2>2
<1>17. CASE EndParentheses
  BY <1>6, <1>8, <1>17 DEF EndParentheses
<1>18. CASE EndCurlyBrackets
  BY <1>6, <1>8, <1>18 DEF EndCurlyBrackets
<1> QED  BY <1>10, <1>11, <1>12, <1>13, <1>14, <1>15, <1>16, <1>17, <1>18 DEF Resume

-----------------------------------------------------------------------------
LEMMA FreshTrees == ASSUME tokens \in Seq(Token), Fresh PROVE TreesInv
<1>1. Held(<<>>, nodes)
  BY HeldAlone
<1> QED  BY <1>1, FreshInv DEF TreesInv, TreesAreComplete, CompleteTrees, Expression, Fresh

LEMMA NextTrees == ASSUME TreesInv, [Next]_vars PROVE TreesInv'
<1>1. ParserInv'
  BY NextInv DEF TreesInv
<1>2. ASSUME UNCHANGED vars \/ Ended PROVE TreesKept'
  BY <1>2, SameHeld DEF Ended, vars
<1>3. TreesKept'
  BY <1>2, ParseHeld, PrimaryHeld, OperatorsHeld, ResumeHeld DEF Next
<1> QED  BY <1>1, <1>3 DEF TreesInv, TreesKept

(* parse() hands complete trees to the code generator, for every input and *)
(* every limit: a conditional has three parts and an operation two, a      *)
(* definition begins with its prototype, no definition is in an expression *)
(* and only definitions and declarations are roots.                        *)
THEOREM TreesComplete == Spec => []TreesAreComplete
<1>1. Init => TreesInv
  BY InputsAssumption, FreshTrees DEF Init
<1>2. TreesInv /\ [Next]_vars => TreesInv'
  BY NextTrees
<1>3. TreesInv => TreesAreComplete
  BY DEF TreesInv
<1> QED  BY <1>1, <1>2, <1>3, PTL DEF Spec

-----------------------------------------------------------------------------

LEMMA StackIsSeq ==
  ASSUME ParserInv PROVE stack \in Seq(FrameType) /\ nodes \in Seq(NodeType)
  BY DEF ParserInv, TypeOK, FrameType, NodeType

-----------------------------------------------------------------------------
(***************************************************************************)
(* Precedence climbing.                                                    *)
(*                                                                         *)
(* The right operand of an operator is a primary, or what a nested loop    *)
(* makes of it.  A primary is a binary only if a bracket opens it, and     *)
(* then the bracket is the token after the operator: while parsePrimary()  *)
(* is about to run for an operand, the cursor is there (TopGroups).  A     *)
(* nested loop starts with the precedence of its operator plus one, and    *)
(* so do the calls that take the place of its frame (PairOK): whatever     *)
(* binary it returns has an operator that binds tighter.                   *)
(*                                                                         *)
(* parseToken() calls parseExpression() for an operator: there an operand  *)
(* has an expression above it.  But that recursion cannot return.          *)
(***************************************************************************)

Loops == {RHS, "operand", "nested"}

\* The functions parsePrimary() waits in, without a bracket and with one.
Heads    == {"argument", "condition", "then", "else"}
Brackets == {"parentheses", "curlyBrackets"}

Bracketed(at) == TokenAt(at + 1) \in {"(", "{"}

\* Node n of h may be the right operand of the operator at this token.
RightOK(h, at, n) ==
  h[n].kind = "binary" =>
    Precedence(tokens[h[n].at]) > Precedence(tokens[at]) \/ Bracketed(at)

FrameGroups(h, f) ==
  /\ f.fn \in {"operand", "nested"} => Precedence(tokens[f.at]) > f.prec
  /\ f.fn = "nested" => RightOK(h, f.at, f.kids[2])

\* g may be the call that f waits for.
PairOK(h, f, g) ==
  /\ f.fn = "operand" => g.fn \in Heads \/ (g.fn \in Brackets /\ Bracketed(f.at))
  /\ f.fn = "nested" =>
       /\ g.fn \in Loops
       /\ g.prec = Precedence(tokens[f.at]) + 1
       /\ g.fn = RHS => RightOK(h, f.at, g.kids[1])

Groups(s, h) ==
  /\ \A i \in 1 .. Len(s) : FrameGroups(h, s[i])
  /\ \A i \in 1 .. Len(s) - 1 : PairOK(h, s[i], s[i + 1])

TopGroups ==
  /\ (control = "parsePrimary" /\ Last(stack).fn = "operand") => pos = Last(stack).at + 1
  /\ (control = "return" /\ Last(stack).fn \in {"operand", "nested"} /\ value # Nil) =>
       RightOK(nodes, Last(stack).at, value)

\* parsePrimary() stands on an operator: it will never return.
Runaway == Current \in Operators /\ control \in {"parsePrimary"} \cup Outcomes

GroupsInv == Runaway \/ (Groups(stack, nodes) /\ TopGroups)

\* RightOperandBindsTighter, of a heap.
RightIn(h) ==
  \A n \in DOMAIN h : h[n].kind = "binary" =>
    Len(h[n].kids) = 2 /\ RightOK(h, h[n].at, h[n].kids[2])

GroupingInv == ParserInv /\ GroupsInv /\ RightIn(nodes)

-----------------------------------------------------------------------------
(* Stacks *)

LEMMA PushGroups ==
  ASSUME NEW s \in Seq(FrameType), NEW h, Groups(s, h),
         NEW f \in FrameType, FrameGroups(h, f), s # <<>> => PairOK(h, Last(s), f)
  PROVE  Groups(Append(s, f), h) /\ Append(s, f) \in Seq(FrameType) /\ Last(Append(s, f)) = f
<1> DEFINE t == Append(s, f)
<1>1. PICK k \in Nat : k = Len(s)
  BY LenProperties
<1>2. /\ t \in Seq(FrameType) /\ Len(t) = k + 1 /\ t[k + 1] = f /\ Last(t) = f
      /\ \A i \in 1 .. k : t[i] = s[i]
  <2> HIDE DEF FrameType
  <2> QED  BY <1>1, Appended
<1> HIDE DEF t
<1>3. \A i \in 1 .. k + 1 : FrameGroups(h, t[i])
  <2>1. \A i \in 1 .. k + 1 : i \in 1 .. k \/ i = k + 1
    BY <1>1
  <2> QED  BY <1>1, <1>2, <2>1 DEF Groups
<1>4. ASSUME NEW i \in 1 .. k PROVE PairOK(h, t[i], t[i + 1])
  <2>1. CASE i < k
    <3>1. i \in 1 .. k - 1 /\ i + 1 \in 1 .. k
      BY <1>1, <2>1
    <3> QED  BY <1>1, <1>2, <3>1 DEF Groups
  <2>2. CASE i = k
    <3>1. Len(s) # 0
      BY <1>1, <2>2
    <3>2. s # <<>>
      BY <3>1
    <3>3. Last(s) = s[k]
      BY <1>1, <3>2, FrontLast
    <3> QED  BY <1>2, <2>2, <3>2, <3>3
  <2> QED  BY <1>1, <2>1, <2>2
<1>5. Groups(t, h)
  <2>1. Len(t) - 1 = k
    BY <1>1, <1>2
  <2> QED  BY <1>2, <1>3, <1>4, <2>1 DEF Groups
<1> QED  BY <1>2, <1>5 DEF t

LEMMA PopGroups ==
  ASSUME NEW s \in Seq(FrameType), NEW h, Groups(s, h), s # <<>>
  PROVE  /\ Groups(Front(s), h) /\ Front(s) \in Seq(FrameType)
         /\ FrameGroups(h, Last(s))
         /\ Front(s) # <<>> => PairOK(h, Last(Front(s)), Last(s))
<1> DEFINE t == Front(s)
<1>1. PICK k \in Nat \ {0} : k = Len(s)
  BY EmptySeq
<1>2. /\ t \in Seq(FrameType) /\ Len(t) = k - 1 /\ Last(s) = s[k]
      /\ \A i \in 1 .. k - 1 : t[i] = s[i]
  BY <1>1, FrontLast
<1> HIDE DEF t
<1>3. Groups(t, h)
  <2>1. \A i \in 1 .. k - 1 : i \in 1 .. k
    BY <1>1
  <2>2. \A i \in 1 .. (k - 1) - 1 : i \in 1 .. k - 1 /\ i + 1 \in 1 .. k - 1
    BY <1>1
  <2> QED  BY <1>1, <1>2, <2>1, <2>2 DEF Groups
<1>4. FrameGroups(h, Last(s))
  BY <1>1, <1>2 DEF Groups
<1>5. ASSUME t # <<>> PROVE PairOK(h, Last(t), Last(s))
  <2>1. Last(t) = t[k - 1] /\ k - 1 \in 1 .. k - 1
    <3>1. Len(t) \in Nat \ {0} /\ Last(t) = t[Len(t)]
      BY <1>2, <1>5, FrontLast
    <3> QED  BY <1>1, <1>2, <3>1
  <2>2. Last(t) = s[k - 1] /\ (k - 1) + 1 = k
    BY <1>1, <1>2, <2>1
  <2> QED  BY <1>1, <1>2, <2>1, <2>2 DEF Groups
<1> QED  BY <1>2, <1>3, <1>4, <1>5 DEF t

\* A frame that does not wait for an operand.
LEMMA PlainFrame ==
  ASSUME NEW h, NEW f, f.fn \notin {"operand", "nested"}
  PROVE  FrameGroups(h, f) /\ \A g : PairOK(h, f, g)
  BY DEF FrameGroups, PairOK

\* One or two frames that do not wait for an operand.
LEMMA AloneGroups ==
  ASSUME NEW h
  PROVE  /\ Groups(<<>>, h)
         /\ \A f : f.fn \notin {"operand", "nested"} => Groups(<<f>>, h)
         /\ \A f, g : f.fn \notin {"operand", "nested"} /\ g.fn \notin {"operand", "nested"}
                        => Groups(<<f, g>>, h)
<1>1. \A f : f.fn \notin {"operand", "nested"} => FrameGroups(h, f) /\ \A g : PairOK(h, f, g)
  BY PlainFrame
<1>2. Groups(<<>>, h)
  BY DEF Groups
<1>3. \A f : f.fn \notin {"operand", "nested"} => Groups(<<f>>, h)
  BY <1>1 DEF Groups
<1>4. ASSUME NEW f, NEW g, f.fn \notin {"operand", "nested"}, g.fn \notin {"operand", "nested"}
      PROVE  Groups(<<f, g>>, h)
  <2>1. Len(<<f, g>>) = 2 /\ <<f, g>>[1] = f /\ <<f, g>>[2] = g
    OBVIOUS
  <2>2. FrameGroups(h, f) /\ FrameGroups(h, g) /\ PairOK(h, f, g)
    BY <1>1, <1>4
  <2>3. \A i \in 1 .. 2 : i = 1 \/ i = 2
    OBVIOUS
  <2>4. \A i \in 1 .. 2 - 1 : i = 1 /\ i + 1 = 2
    OBVIOUS
  <2> QED  BY <2>1, <2>2, <2>3, <2>4 DEF Groups
<1> QED  BY <1>2, <1>3, <1>4

-----------------------------------------------------------------------------
(* Heaps *)

LEMMA GrowGroups ==
  ASSUME NEW h, NEW g, Extends(h, g), NEW s, WellFormed(s, Len(h)), Groups(s, h)
  PROVE  Groups(s, g)
<1>1. \A n \in 1 .. Len(h) : \A at : RightOK(h, at, n) => RightOK(g, at, n)
  BY DEF Extends, RightOK
<1>2. s \in Seq(FrameType) /\ \A i \in 1 .. Len(s) : FrameOK(s[i], Len(h))
  BY DEF WellFormed
<1>3. ASSUME NEW i \in 1 .. Len(s) PROVE FrameGroups(g, s[i])
  <2>1. FrameGroups(h, s[i])
    BY DEF Groups
  <2>2. s[i].fn = "nested" => s[i].kids[2] \in 1 .. Len(h)
    <3>1. s[i] \in FrameType
      BY <1>2, ElementOfSeq
    <3>2. s[i].fn = "nested" => 2 \in DOMAIN s[i].kids
      BY <1>2, <3>1 DEF FrameOK, FrameType
    <3> QED  BY <1>2, <3>2 DEF FrameOK
  <2> QED  BY <1>1, <2>1, <2>2 DEF FrameGroups
<1>4. ASSUME NEW i \in 1 .. Len(s) - 1 PROVE PairOK(g, s[i], s[i + 1])
  <2>1. PairOK(h, s[i], s[i + 1])
    BY DEF Groups
  <2>2. i + 1 \in 1 .. Len(s)
    BY <1>2, LenProperties
  <2>3. s[i + 1].fn = RHS => s[i + 1].kids[1] \in 1 .. Len(h)
    <3>1. s[i + 1] \in FrameType
      BY <1>2, <2>2, ElementOfSeq
    <3>2. s[i + 1].fn = RHS => 1 \in DOMAIN s[i + 1].kids
      BY <1>2, <2>2, <3>1 DEF FrameOK, FrameType
    <3> QED  BY <1>2, <2>2, <3>2 DEF FrameOK
  <2> QED  BY <1>1, <2>1, <2>3 DEF PairOK
<1> QED  BY <1>3, <1>4 DEF Groups

\* One node more: nothing is said of it unless it is a binary.
LEMMA NodeGroups ==
  ASSUME NEW h, HeapOK(h), RightIn(h), NEW node \in NodeType,
         node.kind = "binary" =>
           /\ Len(node.kids) = 2 /\ node.kids[2] \in 1 .. Len(h)
           /\ RightOK(h, node.at, node.kids[2])
  PROVE  /\ RightIn(Append(h, node)) /\ Extends(h, Append(h, node))
         /\ Append(h, node)[Len(h) + 1] = node
<1> DEFINE g == Append(h, node)
<1>1. h \in Seq(NodeType)
  BY DEF HeapOK
<1>2. PICK k \in Nat : k = Len(h) /\ DOMAIN h = 1 .. k
  BY <1>1
<1>3. /\ g \in Seq(NodeType) /\ Len(g) = k + 1 /\ g[k + 1] = node
      /\ \A i \in 1 .. k : g[i] = h[i]
  <2> HIDE DEF NodeType
  <2> QED  BY <1>1, <1>2, Appended
<1>4. DOMAIN g = 1 .. k + 1
  BY <1>2, <1>3
<1> HIDE DEF g
<1>5. \A n \in 1 .. k : \A at : RightOK(h, at, n) => RightOK(g, at, n)
  BY <1>3 DEF RightOK
<1>6. ASSUME NEW n \in 1 .. k + 1, g[n].kind = "binary"
      PROVE  Len(g[n].kids) = 2 /\ RightOK(g, g[n].at, g[n].kids[2])
  <2>1. CASE n = k + 1
    BY <1>2, <1>3, <1>5, <1>6, <2>1
  <2>2. CASE n \in 1 .. k
    <3>1. g[n] = h[n] /\ Len(h[n].kids) = 2 /\ RightOK(h, h[n].at, h[n].kids[2])
      BY <1>2, <1>3, <1>6, <2>2 DEF RightIn
    <3>2. h[n] \in NodeType
      BY <1>1, <1>2, <2>2, ElementOfSeq
    <3>3. 2 \in DOMAIN h[n].kids
      BY <3>1, <3>2 DEF NodeType
    <3>4. h[n].kids[2] \in 1 .. n - 1
      BY <1>2, <2>2, <3>3 DEF HeapOK
    <3>5. h[n].kids[2] \in 1 .. k
      BY <1>2, <2>2, <3>4
    <3> QED  BY <1>5, <3>1, <3>5
  <2> QED  BY <1>2, <2>1, <2>2
<1>7. RightIn(g)
  BY <1>4, <1>6 DEF RightIn
<1> QED  BY <1>2, <1>3, <1>7 DEF g, Extends

-----------------------------------------------------------------------------
(* The steps *)

\* What a step has to keep, ParserInv apart.
Kept == GroupsInv /\ RightIn(nodes)

LEMMA SameGroups ==
  ASSUME tokens' = tokens
  PROVE  /\ \A s, h : Groups(s, h)' <=> Groups(s, h)
         /\ \A h, at, n : RightOK(h, at, n)' <=> RightOK(h, at, n)
         /\ \A h : RightIn(h)' <=> RightIn(h)
<1>1. \A h, at, n : RightOK(h, at, n)' <=> RightOK(h, at, n)
  BY DEF RightOK, Bracketed, TokenAt
<1>2. \A at : Bracketed(at)' <=> Bracketed(at)
  BY DEF Bracketed, TokenAt
<1>3. \A h, f : FrameGroups(h, f)' <=> FrameGroups(h, f)
  BY <1>1 DEF FrameGroups
<1>4. \A h, f, g : PairOK(h, f, g)' <=> PairOK(h, f, g)
  BY <1>1, <1>2 DEF PairOK
<1> QED  BY <1>1, <1>3, <1>4 DEF Groups, RightIn

LEMMA FromGroups ==
  ASSUME tokens' = tokens, Groups(stack', nodes'), RightIn(nodes'),
         (control' = "parsePrimary" /\ Last(stack').fn = "operand") => pos' = Last(stack').at + 1,
         (control' = "return" /\ Last(stack').fn \in {"operand", "nested"} /\ value' # Nil) =>
           RightOK(nodes', Last(stack').at, value')
  PROVE  Kept'
<1>1. Groups(stack, nodes)' /\ RightIn(nodes)'
  BY SameGroups
<1>2. TopGroups'
  BY SameGroups DEF TopGroups
<1> QED  BY <1>1, <1>2 DEF Kept, GroupsInv

LEMMA GroupsNow ==
  ASSUME GroupingInv, Running, control # "parsePrimary" \/ Current \notin Operators
  PROVE  /\ ParserInv /\ TypeOK /\ Groups(stack, nodes) /\ TopGroups /\ RightIn(nodes)
         /\ stack \in Seq(FrameType) /\ HeapOK(nodes) /\ WellFormed(stack, Len(nodes))
  BY TypeOKParts DEF GroupingInv, GroupsInv, Runaway, Running, ParserInv, WellFormed

LEMMA Unchanged ==
  ASSUME GroupingInv, UNCHANGED <<tokens, pos, stack, value, nodes>>,
         control' \in {control} \cup Outcomes
  PROVE  Kept'
<1>1. Current' = Current
  BY DEF Current, TokenAt
<1>2. RightIn(nodes)' /\ (Groups(stack, nodes) => Groups(stack, nodes)')
  BY SameGroups DEF GroupingInv
<1>3. TopGroups => TopGroups'
  BY SameGroups DEF TopGroups, Outcomes
<1> QED  BY <1>1, <1>2, <1>3 DEF GroupingInv, GroupsInv, Runaway, Kept, Outcomes

\* parseExpression() is called by a function that takes no operand.
LEMMA ExpressionGroups ==
  ASSUME NEW s \in Seq(FrameType), Groups(s, nodes), RightIn(nodes),
         s # <<>> => Last(s).fn \notin {"operand", "nested"},
         NEW n, CallExpression(s, n)
  PROVE  Kept'
<1> DEFINE f == Frame("parseExpression", 0, 0, <<>>)
<1>1. f \in FrameType /\ f.fn = "parseExpression"
  BY DEF Frame, FrameType, CallSites
<1>2. FrameGroups(nodes, f)
  BY <1>1, PlainFrame
<1>3. s # <<>> => PairOK(nodes, Last(s), f)
  BY PlainFrame
<1>4. /\ stack' = Append(s, f) /\ control' = "parsePrimary"
      /\ UNCHANGED <<tokens, value, nodes>>
  BY DEF CallExpression
<1> HIDE DEF f
<1>5. Groups(Append(s, f), nodes) /\ Last(Append(s, f)) = f
  BY <1>1, <1>2, <1>3, PushGroups
<1> QED  BY <1>1, <1>4, <1>5, FromGroups

\* A node that is no binary is returned to s.
LEMMA ReturnNewGroups ==
  ASSUME ParserInv, RightIn(nodes), NEW s, Groups(s, nodes), WellFormed(s, Len(nodes)), NEW n,
         NEW node \in NodeType, node.kind # "binary", ReturnNew(node, s, n)
  PROVE  Kept'
<1>1. HeapOK(nodes)
  BY TypeOKParts DEF ParserInv
<1>2. /\ RightIn(Append(nodes, node)) /\ Extends(nodes, Append(nodes, node))
      /\ Append(nodes, node)[Len(nodes) + 1] = node
  BY <1>1, NodeGroups
<1>3. /\ nodes' = Append(nodes, node) /\ value' = Len(nodes) + 1 /\ stack' = s
      /\ control' = "return" /\ tokens' = tokens
  BY DEF ReturnNew
<1>4. Groups(s, nodes')
  BY <1>2, <1>3, GrowGroups
<1>5. RightOK(nodes', Last(s).at, value')
  BY <1>2, <1>3 DEF RightOK
<1> QED  BY <1>2, <1>3, <1>4, <1>5, FromGroups

\* A step that returns from every call: an item is complete.
LEMMA ItemGroups ==
  ASSUME RightIn(nodes'), tokens' = tokens, stack' = <<>>, control' = "parse"
  PROVE  Kept'
  BY AloneGroups, FromGroups

LEMMA ParseGroups ==
  ASSUME GroupingInv, Parse \/ ParsePrototype PROVE Kept'
<1>1. ASSUME control \in {"parse", "parsePrototype", "return"}
      PROVE  /\ ParserInv /\ TypeOK /\ Groups(stack, nodes) /\ RightIn(nodes) /\ HeapOK(nodes)
             /\ stack \in Seq(FrameType) /\ WellFormed(stack, Len(nodes))
  BY <1>1, GroupsNow DEF Running, Outcomes
<1>2. CASE Finish \/ SkipSeparator \/ RejectPrototype \/ ExhaustMemory \/ RejectParameter
  BY <1>2, Unchanged DEF Finish, SkipSeparator, RejectPrototype, ExhaustMemory,
     RejectParameter, Halt, vars, Outcomes
<1>3. CASE BeginPrototype
  <2> DEFINE f == Frame(Current, pos + 1, 0, <<>>)
  <2>1. /\ stack' = <<f>> /\ control' = "parsePrototype" /\ UNCHANGED <<tokens, value, nodes>>
        /\ f.fn \notin {"operand", "nested"} /\ control = "parse"
    BY <1>3 DEF BeginPrototype, InLoop, Frame, Keywords
  <2> HIDE DEF f
  <2>2. Groups(<<f>>, nodes)
    BY <2>1, AloneGroups
  <2> QED  BY <1>1, <2>1, <2>2, FromGroups
<1>4. CASE DropLastBracket
  <2>1. control = "parse" /\ UNCHANGED <<tokens, control, stack, value, nodes>>
    BY <1>4 DEF DropLastBracket, IsTopLevel, InLoop
  <2> QED  BY <1>1, <2>1, FromGroups
<1>5. CASE BeginTopLevel
  <2> DEFINE f == Frame("parseTopLevelExpression", 0, 0, <<>>)
  <2>1. f.fn \notin {"operand", "nested"} /\ f \in FrameType
    BY DEF Frame, FrameType, CallSites
  <2>2. control = "parse" /\ CallExpression(<<f>>, 0)
    BY <1>5 DEF BeginTopLevel, IsTopLevel, InLoop
  <2> HIDE DEF f
  <2>3. Groups(<<f>>, nodes)
    BY <2>1, AloneGroups
  <2>4. <<f>> \in Seq(FrameType) /\ Last(<<f>>) = f
    BY <2>1 DEF Last
  <2> QED  BY <1>1, <2>1, <2>2, <2>3, <2>4, ExpressionGroups
<1>6. CASE EndTopLevel
  <2>1. /\ ParserInv /\ HeapOK(nodes) /\ RightIn(nodes) /\ value \in 0 .. Len(nodes)
        /\ Len(nodes) \in Nat
    BY <1>1, <1>6, Counters DEF EndTopLevel, AtTop
  <2>2. stack' = <<>> /\ control' = "parse" /\ tokens' = tokens
    BY <1>6 DEF EndTopLevel
  <2>3. CASE value = Nil
    <3>1. nodes' = nodes  BY <1>6, <2>3 DEF EndTopLevel
    <3> QED  BY <2>1, <2>2, <3>1, ItemGroups
  <2>4. CASE value # Nil
    <3> DEFINE a == Node("prototype", 0, <<>>)
               b == Node("motif", 0, <<Len(nodes) + 1, value>>)
    <3>1. a \in NodeType /\ b \in NodeType /\ a.kind # "binary" /\ b.kind # "binary"
          /\ \A k \in DOMAIN a.kids : a.kids[k] \in 1 .. Len(nodes)
      BY <2>1 DEF Node, NodeType, NodeKinds
    <3>2. nodes' = nodes \o <<a, b>>
      BY <1>6, <2>4 DEF EndTopLevel
    <3> HIDE DEF a, b
    <3>3. nodes \o <<a, b>> = Append(Append(nodes, a), b)
      BY <2>1, <3>1 DEF HeapOK
    <3>4. RightIn(Append(nodes, a)) /\ HeapOK(Append(nodes, a))
      BY <2>1, <3>1, NodeGroups, NewNode
    <3>5. RightIn(Append(Append(nodes, a), b))
      BY <3>1, <3>4, NodeGroups
    <3> QED  BY <2>2, <3>2, <3>3, <3>5, ItemGroups
  <2> QED  BY <2>3, <2>4
<1>7. CASE EndDefinition
  <2> DEFINE f     == Last(stack)
             body  == IF value = Nil THEN <<>> ELSE <<value>>
             motif == Node("motif", 0, f.kids \o body)
  <2>1. /\ ParserInv /\ HeapOK(nodes) /\ RightIn(nodes) /\ value \in Nat /\ stack # <<>>
        /\ stack \in Seq(FrameType)
    <3>1. control = "return"
      BY <1>7 DEF EndDefinition, AtTop
    <3> QED  BY <1>1, <3>1, Counters DEF ParserInv, TopMatchesControl, Running, Outcomes
  <2>2. /\ stack' = <<>> /\ control' = "parse" /\ tokens' = tokens
        /\ nodes' = Append(nodes, motif)
    BY <1>7 DEF EndDefinition
  <2>3. motif \in NodeType /\ motif.kind # "binary"
    <3>1. f.kids \in Seq(Nat) /\ body \in Seq(Nat)
      <4>1. f \in FrameType
        BY <2>1, FrontLast
      <4>2. body \in Seq(Nat)
        BY <2>1
      <4> HIDE DEF f, body
      <4> QED  BY <4>1, <4>2 DEF FrameType
    <3> HIDE DEF f, body
    <3>2. f.kids \o body \in Seq(Nat)
      BY <3>1
    <3> QED  BY <3>2 DEF Node, NodeType, NodeKinds
  <2> HIDE DEF motif
  <2>4. RightIn(Append(nodes, motif))
    BY <2>1, <2>3, NodeGroups
  <2> QED  BY <2>2, <2>4, ItemGroups
<1>8. CASE AddParameter
  <2> DEFINE f == Last(stack)
             g == [f EXCEPT !.kids = Append(@, Len(nodes) + 1)]
             param == Node("param", pos + 1, <<>>)
  <2>1. /\ stack' = Append(Front(stack), g) /\ nodes' = Append(nodes, param)
        /\ control = "parsePrototype" /\ UNCHANGED <<tokens, control, value>>
    BY <1>8 DEF AddParameter, Replace
  <2>2. /\ ParserInv /\ HeapOK(nodes) /\ RightIn(nodes) /\ WellFormed(stack, Len(nodes))
        /\ stack # <<>> /\ f.fn \in Keywords /\ stack \in Seq(FrameType)
        /\ Len(nodes) \in Nat /\ pos \in Nat
    BY <1>1, <2>1, Counters DEF ParserInv, TopMatchesControl, Running, Outcomes
  <2>3. Front(stack) = <<>>
    <3>1. f.fn \in Bottoms
      BY <2>2 DEF Bottoms
    <3>2. Len(stack) = 1
      BY <2>2, <3>1, FrameFacts
    <3>3. Len(Front(stack)) = 0 /\ Front(stack) \in Seq(FrameType)
      BY <2>2, <3>2, FrontLast
    <3> QED  BY <3>3, EmptySeq
  <2>4. g.fn = f.fn
    <3>1. f \in FrameType
      BY <2>2, FrontLast
    <3> HIDE DEF f
    <3> QED  BY <3>1 DEF FrameType
  <2>5. param \in NodeType /\ param.kind # "binary"
    BY <2>2, Leaf DEF NodeKinds, Node
  <2> HIDE DEF g, param
  <2>6. RightIn(Append(nodes, param))
    BY <2>2, <2>5, NodeGroups
  <2>7. g.fn \notin {"operand", "nested"} /\ stack' = <<g>>
    BY <2>1, <2>2, <2>3, <2>4 DEF Keywords
  <2>8. Groups(<<g>>, nodes')
    BY <2>7, AloneGroups
  <2> QED  BY <2>1, <2>6, <2>7, <2>8, FromGroups
<1>9. CASE EndPrototype
  <2> DEFINE f     == Last(stack)
             proto == Node("prototype", f.at, f.kids)
             g     == Frame("parseFunctionDefinition", 0, 0, <<Len(nodes) + 1>>)
             e     == Frame("parseExpression", 0, 0, <<>>)
  <2>1. control = "parsePrototype" /\ UNCHANGED <<tokens, value>>
    BY <1>9 DEF EndPrototype
  <2>2. /\ ParserInv /\ HeapOK(nodes) /\ RightIn(nodes) /\ stack # <<>>
        /\ stack \in Seq(FrameType)
    BY <1>1, <2>1 DEF ParserInv, TopMatchesControl, Running, Outcomes
  <2>3. proto \in NodeType /\ proto.kind # "binary"
    <3>1. f \in FrameType
      BY <2>2, FrontLast
    <3> HIDE DEF f
    <3> QED  BY <3>1 DEF Node, NodeType, NodeKinds, FrameType
  <2>4. nodes' = Append(nodes, proto)
    BY <1>9 DEF EndPrototype
  <2>5. \/ stack' = <<>> /\ control' = "parse"
        \/ stack' = <<g, e>> /\ control' = "parsePrimary"
    BY <1>9 DEF EndPrototype
  <2>6. /\ g.fn \notin {"operand", "nested"} /\ e.fn \notin {"operand", "nested"}
    BY DEF Frame
  <2> HIDE DEF proto, g, e
  <2>7. RightIn(nodes')
    BY <2>2, <2>3, <2>4, NodeGroups
  <2>8. CASE stack' = <<>> /\ control' = "parse"
    BY <2>1, <2>7, <2>8, ItemGroups
  <2>9. CASE stack' = <<g, e>> /\ control' = "parsePrimary"
    <3>1. Groups(<<g, e>>, nodes') /\ Last(<<g, e>>) = e
      BY <2>6, AloneGroups DEF Last
    <3> QED  BY <2>1, <2>6, <2>7, <2>9, <3>1, FromGroups
  <2> QED  BY <2>5, <2>8, <2>9
<1> QED  BY <1>2, <1>3, <1>4, <1>5, <1>6, <1>7, <1>8, <1>9 DEF Parse, ParsePrototype

LEMMA NoRead == ASSUME TypeOK PROVE Reads(0) = pos
<1>1. PICK k \in Nat : k = Len(tokens)
  BY DEF TypeOK
<1> QED  BY <1>1 DEF Reads, TypeOK

\* parsePrimary(): on an operator it calls itself again, and for an operand
\* the cursor tells whether a bracket opens it.
LEMMA PrimaryGroups ==
  ASSUME GroupingInv, ParsePrimary PROVE Kept'
<1>1. CASE Overflow \/ UnknownToken
  BY <1>1, Unchanged DEF Overflow, UnknownToken, Halt, Outcomes
<1>2. CASE OperatorAsPrimary
  <2>1. /\ Current \in Operators /\ tokens' = tokens /\ nodes' = nodes
        /\ pos' = Reads(0) /\ control' = "parsePrimary"
    BY <1>2 DEF OperatorAsPrimary, CallExpression
  <2>2. Current' = Current
    BY <2>1, NoRead DEF Current, TokenAt, GroupingInv, ParserInv
  <2>3. RightIn(nodes)'
    BY <2>1, SameGroups DEF GroupingInv
  <2> QED  BY <2>1, <2>2, <2>3 DEF Kept, GroupsInv, Runaway
<1>3. CASE ~(Overflow \/ UnknownToken \/ OperatorAsPrimary)
  <2>1. control = "parsePrimary" /\ Current \notin Operators
    BY <1>3 DEF ParsePrimary, NoPrimary, Number, Variable, CallWithoutArguments, CallCutShort,
       CallWithArguments, BeginTernary, BeginParentheses, BeginCurlyBrackets, IsCall, AtPrimary,
       Keywords, Identifiers, Operators, NoToken
  <2>2. /\ ParserInv /\ Groups(stack, nodes) /\ TopGroups /\ RightIn(nodes)
        /\ stack \in Seq(FrameType) /\ WellFormed(stack, Len(nodes)) /\ pos \in Nat
        /\ stack # <<>> /\ Last(stack).fn \in {"parseExpression", "operand"}
    BY <2>1, GroupsNow, Counters DEF Running, Outcomes, ParserInv, TopMatchesControl
  <2>3. CASE NoPrimary \/ CallCutShort \/ (BeginParentheses /\ TokenAt(pos + 2) = NoToken)
    BY <2>2, <2>3, FromGroups DEF NoPrimary, CallCutShort, BeginParentheses, Return
  <2>4. CASE Number \/ Variable \/ CallWithoutArguments
    <3>1. \A kind \in {"number", "variable", "call"} :
            Node(kind, pos, <<>>) \in NodeType /\ Node(kind, pos, <<>>).kind # "binary"
      BY <2>2 DEF Node, NodeType, NodeKinds
    <3> QED  BY <2>2, <2>4, <3>1, ReturnNewGroups DEF Number, Variable, CallWithoutArguments
  <2>5. ASSUME NEW fn \in {"argument", "condition", "parentheses", "curlyBrackets"},
               NEW at \in Nat, NEW n,
               CallExpression(Append(stack, Frame(fn, at, 0, <<>>)), n),
               fn \in Brackets => Current \in {"(", "{"}
        PROVE  Kept'
    <3> DEFINE f == Frame(fn, at, 0, <<>>)
    <3>1. f \in FrameType /\ f.fn = fn
      <4>1. fn \in CallSites /\ at \in Nat
        BY <2>5 DEF CallSites
      <4>2. f = [fn |-> fn, at |-> at, prec |-> 0, kids |-> <<>>]
        BY DEF Frame
      <4> HIDE DEF f
      <4> QED  BY <4>1, <4>2 DEF FrameType
    <3> HIDE DEF f
    <3>2. FrameGroups(nodes, f)
      BY <2>5, <3>1, PlainFrame
    <3>3. Last(stack).fn = "operand" => TokenAt(Last(stack).at + 1) = Current
      BY <2>1, <2>2 DEF TopGroups, Current
    <3>4. PairOK(nodes, Last(stack), f)
      BY <2>2, <2>5, <3>1, <3>3 DEF PairOK, Heads, Brackets, Bracketed
    <3>5. /\ Groups(Append(stack, f), nodes) /\ Append(stack, f) \in Seq(FrameType)
          /\ Last(Append(stack, f)) = f
      BY <2>2, <3>1, <3>2, <3>4, PushGroups
    <3> QED  BY <2>2, <2>5, <3>1, <3>5, ExpressionGroups DEF f
  <2>6. CASE CallWithArguments \/ BeginTernary
    BY <2>2, <2>5, <2>6 DEF CallWithArguments, BeginTernary, Brackets
  <2>7. CASE BeginParentheses /\ TokenAt(pos + 2) # NoToken
    <3>1. pos + 2 \in Nat /\ Current \in {"(", "{"}
      BY <2>2, <2>7 DEF BeginParentheses
    <3> QED  BY <2>5, <2>7, <3>1 DEF BeginParentheses
  <2>8. CASE BeginCurlyBrackets
    BY <2>5, <2>8 DEF BeginCurlyBrackets
  <2> QED  BY <1>3, <2>3, <2>4, <2>6, <2>7, <2>8 DEF ParsePrimary
<1> QED  BY <1>1, <1>2, <1>3

-----------------------------------------------------------------------------
(* The loop of parseBinaryOperatorRHS() *)

\* The call on top goes on as g, for which what is below may wait.
LEMMA ReplaceGroups ==
  ASSUME NEW s \in Seq(FrameType), NEW h, Groups(s, h), s # <<>>,
         NEW g \in FrameType, FrameGroups(h, g),
         Front(s) # <<>> /\ PairOK(h, Last(Front(s)), Last(s)) => PairOK(h, Last(Front(s)), g)
  PROVE  /\ Groups(Append(Front(s), g), h) /\ Append(Front(s), g) \in Seq(FrameType)
         /\ Last(Append(Front(s), g)) = g /\ Append(Front(s), g) # <<>>
<1>1. /\ Groups(Front(s), h) /\ Front(s) \in Seq(FrameType)
      /\ Front(s) # <<>> => PairOK(h, Last(Front(s)), Last(s))
  BY PopGroups
<1>2. Append(Front(s), g) # <<>>
  <2> HIDE DEF FrameType
  <2> QED  BY <1>1, Appended
<1> QED  BY <1>1, <1>2, PushGroups

\* The call on top when a loop step begins.
LEMMA LoopTop ==
  ASSUME GroupingInv, NEW fn, AtTop(fn) \/ control = RHS, fn # "return",
         control = RHS => fn = RHS
  PROVE  /\ ParserInv /\ Groups(stack, nodes) /\ TopGroups /\ RightIn(nodes)
         /\ stack \in Seq(FrameType) /\ stack # <<>> /\ HeapOK(nodes)
         /\ WellFormed(stack, Len(nodes)) /\ Len(nodes) \in Nat /\ pos \in Nat
         /\ value \in 0 .. Len(nodes)
         /\ Last(stack) \in FrameType /\ FrameOK(Last(stack), Len(nodes))
         /\ FrameGroups(nodes, Last(stack)) /\ Last(stack).fn = fn
<1>1. control \in {RHS, "return"}
  BY DEF AtTop
<1>2. /\ ParserInv /\ Groups(stack, nodes) /\ TopGroups /\ RightIn(nodes)
      /\ stack \in Seq(FrameType) /\ HeapOK(nodes) /\ WellFormed(stack, Len(nodes))
  BY <1>1, GroupsNow DEF Running, Outcomes, RHS
<1>3. stack # <<>> /\ Last(stack).fn = fn
  BY <1>1, <1>2 DEF ParserInv, TopMatchesControl, Running, Outcomes, RHS, AtTop
<1>4. Len(nodes) \in Nat /\ pos \in Nat /\ value \in 0 .. Len(nodes)
  BY <1>2, Counters
<1>5. Last(stack) \in FrameType /\ FrameOK(Last(stack), Len(nodes))
  BY <1>2, <1>3, FrameFacts
<1>6. FrameGroups(nodes, Last(stack))
  BY <1>2, <1>3, PopGroups
<1> QED  BY <1>2, <1>3, <1>4, <1>5, <1>6

LEMMA BeginOperatorsGroups ==
  ASSUME GroupingInv, BeginOperators PROVE Kept'
<1> DEFINE g == LoopFrame(0, value)
<1>1. /\ Groups(stack, nodes) /\ RightIn(nodes) /\ stack \in Seq(FrameType) /\ stack # <<>>
      /\ Last(stack).fn = "parseExpression" /\ value \in Nat
  BY LoopTop DEF BeginOperators, AtTop, RHS
<1>2. /\ stack' = Append(Front(stack), g) /\ control' = RHS
      /\ UNCHANGED <<tokens, value, nodes>>
  BY DEF BeginOperators, Replace, RHS
<1>3. g \in FrameType /\ g.fn = RHS
  BY <1>1 DEF LoopFrame, Frame, FrameType, CallSites, RHS
<1> HIDE DEF g
<1>4. FrameGroups(nodes, g)
  BY <1>3, PlainFrame DEF RHS
<1>5. \A d : PairOK(nodes, d, Last(stack)) => PairOK(nodes, d, g)
  BY <1>1 DEF PairOK, Heads, Brackets, Loops, RHS
<1>6. Groups(Append(Front(stack), g), nodes)
  BY <1>1, <1>3, <1>4, <1>5, ReplaceGroups
<1> QED  BY <1>1, <1>2, <1>6, FromGroups DEF RHS

LEMMA TakeOperatorGroups ==
  ASSUME GroupingInv, TakeOperator PROVE Kept'
<1> DEFINE f == Last(stack)
           g == Frame("operand", pos + 1, f.prec, f.kids)
<1>1. /\ Groups(stack, nodes) /\ RightIn(nodes) /\ stack \in Seq(FrameType) /\ stack # <<>>
      /\ f \in FrameType /\ f.fn = RHS /\ pos \in Nat /\ ParserInv
  BY LoopTop DEF TakeOperator, RHS
<1>2. /\ stack' = Append(Front(stack), g) /\ control' = "parsePrimary" /\ pos' = Reads(2)
      /\ UNCHANGED <<tokens, value, nodes>> /\ Climbs(f.prec)
  BY DEF TakeOperator, Replace
<1>3. /\ g \in FrameType /\ g.fn = "operand" /\ g.at = pos + 1 /\ g.prec = f.prec
  <2>1. f.prec \in Nat /\ f.kids \in Seq(Nat)
    BY <1>1 DEF FrameType
  <2>2. "operand" \in CallSites
    BY DEF CallSites
  <2> HIDE DEF f
  <2> QED  BY <1>1, <2>1, <2>2 DEF Frame, FrameType
<1>4. pos + 1 \in 1 .. Len(tokens) /\ Precedence(tokens[pos + 1]) > f.prec
  <2>1. Stalk \in Operators /\ Precedence(Stalk) > f.prec
    BY <1>2 DEF Climbs
  <2>2. Stalk # NoToken
    BY <2>1 DEF Operators, NoToken
  <2> QED  BY <2>1, <2>2 DEF Stalk, TokenAt
<1>5. pos' = pos + 1 + 1
  <2>1. PICK k \in Nat : k = Len(tokens)
    BY <1>1 DEF ParserInv, TypeOK
  <2>2. pos + 1 <= k
    BY <1>4, <2>1
  <2> QED  BY <1>1, <1>2, <2>1, <2>2 DEF Reads
<1>6. FrameGroups(nodes, g)
  BY <1>3, <1>4 DEF FrameGroups
<1>7. \A d : PairOK(nodes, d, f) => PairOK(nodes, d, g)
  <2> HIDE DEF f, g
  <2> QED  BY <1>1, <1>3 DEF PairOK, Heads, Brackets, Loops, RHS
<1> HIDE DEF g
<1>8. Groups(Append(Front(stack), g), nodes) /\ Last(Append(Front(stack), g)) = g
  BY <1>1, <1>3, <1>6, <1>7, ReplaceGroups
<1> QED  BY <1>1, <1>2, <1>3, <1>5, <1>8, FromGroups

LEMMA EndOperatorsGroups ==
  ASSUME GroupingInv, EndOperators PROVE Kept'
<1> DEFINE f == Last(stack)
<1>1. /\ Groups(stack, nodes) /\ RightIn(nodes) /\ stack \in Seq(FrameType) /\ stack # <<>>
      /\ f.fn = RHS
  BY LoopTop DEF EndOperators, RHS
<1>2. /\ value' = f.kids[1] /\ control' = "return" /\ stack' = Front(stack)
      /\ tokens' = tokens /\ nodes' = nodes
  BY DEF EndOperators, Return
<1>3. Groups(Front(stack), nodes) /\ (Front(stack) # <<>> => PairOK(nodes, Last(Front(stack)), f))
  BY <1>1, PopGroups
<1>4. Front(stack) # <<>>
  BY TopOf DEF EndOperators, CanReturnTo, GroupingInv, Bottoms, Keywords, RHS
<1>5. Last(Front(stack)).fn \in {"operand", "nested"} =>
        RightOK(nodes, Last(Front(stack)).at, f.kids[1])
  BY <1>1, <1>3, <1>4 DEF PairOK, Heads, Brackets, RHS
<1> QED  BY <1>1, <1>2, <1>3, <1>5, FromGroups

\* An operand after the one there was.
LEMMA Second ==
  ASSUME NEW k \in Seq(Nat), Len(k) = 1, NEW e \in Nat
  PROVE  Append(k, e) \in Seq(Nat) /\ Append(k, e)[2] = e
<1>1. Append(k, e) \in Seq(Nat) /\ Append(k, e)[Len(k) + 1] = e
  BY AppendProperties
<1>2. Len(k) + 1 = 2
  OBVIOUS
<1> QED  BY ONLY <1>1, <1>2

LEMMA ClimbOperatorsGroups ==
  ASSUME GroupingInv, ClimbOperators PROVE Kept'
<1> DEFINE f    == Last(stack)
           prec == Precedence(tokens[f.at])
           kids == Append(f.kids, value)
           g    == Frame("nested", f.at, f.prec, kids)
           h    == LoopFrame(prec + 1, value)
<1>1. /\ Groups(stack, nodes) /\ RightIn(nodes) /\ stack \in Seq(FrameType) /\ stack # <<>>
      /\ f \in FrameType /\ f.fn = "operand" /\ FrameOK(f, Len(nodes)) /\ value \in Nat
      /\ FrameGroups(nodes, f) /\ TopGroups /\ control = "return" /\ value # Nil
  BY LoopTop DEF ClimbOperators, AtTop, RHS
<1>2. /\ stack' = Append(Append(Front(stack), g), h) /\ control' = RHS
      /\ UNCHANGED <<tokens, value, nodes>>
  BY DEF ClimbOperators, Replace, RHS
<1>3. kids \in Seq(Nat) /\ kids[2] = value
  <2>1. f.kids \in Seq(Nat) /\ Len(f.kids) = 1
    BY <1>1 DEF FrameType, FrameOK
  <2>2. value \in Nat
    BY <1>1
  <2> HIDE DEF f
  <2> QED  BY <2>1, <2>2, Second
<1> HIDE DEF kids
<1>4. /\ g \in FrameType /\ g.fn = "nested" /\ g.at = f.at /\ g.prec = f.prec
      /\ g.kids = kids
  <2>1. f.prec \in Nat /\ f.at \in Nat
    BY <1>1 DEF FrameType
  <2>2. "nested" \in CallSites
    BY DEF CallSites
  <2> HIDE DEF f
  <2> QED  BY <1>3, <2>1, <2>2 DEF Frame, FrameType
<1>5. h \in FrameType /\ h.fn = RHS /\ h.prec = prec + 1 /\ h.kids[1] = value
  <2>1. prec \in Nat
    BY <1>1, Precedences DEF FrameOK
  <2>2. RHS \in CallSites
    BY DEF CallSites, RHS
  <2> HIDE DEF prec
  <2> QED  BY <1>1, <2>1, <2>2 DEF LoopFrame, Frame, FrameType, RHS
<1>6. RightOK(nodes, f.at, value) /\ prec > f.prec
  BY <1>1 DEF TopGroups, FrameGroups
<1> HIDE DEF g, h
<1>7. FrameGroups(nodes, g)
  BY <1>3, <1>4, <1>6 DEF FrameGroups
<1>8. \A d : PairOK(nodes, d, f) => PairOK(nodes, d, g)
  <2> HIDE DEF f
  <2> QED  BY <1>1, <1>4 DEF PairOK, Heads, Brackets, Loops, RHS
<1>9. /\ Groups(Append(Front(stack), g), nodes) /\ Append(Front(stack), g) \in Seq(FrameType)
      /\ Last(Append(Front(stack), g)) = g
  BY <1>1, <1>4, <1>7, <1>8, ReplaceGroups
<1>10. PairOK(nodes, g, h) /\ FrameGroups(nodes, h)
  BY <1>4, <1>5, <1>6 DEF PairOK, FrameGroups, Loops, RHS
<1>11. Groups(Append(Append(Front(stack), g), h), nodes)
  BY <1>5, <1>9, <1>10, PushGroups
<1> QED  BY <1>1, <1>2, <1>11, FromGroups DEF RHS

\* A binary is made: its right operand may stand there, and to the loop that
\* waits for it its operator binds tighter.
LEMMA CombineGroups ==
  ASSUME GroupingInv, NEW fn \in {"operand", "nested"}, AtTop(fn),
         NEW rhs \in 1 .. Len(nodes), RightOK(nodes, Last(stack).at, rhs),
         Combine(Last(stack), rhs)
  PROVE  Kept'
<1> DEFINE f    == Last(stack)
           n    == Len(nodes) + 1
           node == Node("binary", f.at, <<f.kids[1], rhs>>)
           g    == LoopFrame(f.prec, n)
<1>1. /\ Groups(stack, nodes) /\ RightIn(nodes) /\ stack \in Seq(FrameType) /\ stack # <<>>
      /\ f \in FrameType /\ f.fn = fn /\ FrameOK(f, Len(nodes)) /\ HeapOK(nodes)
      /\ FrameGroups(nodes, f) /\ WellFormed(stack, Len(nodes)) /\ Len(nodes) \in Nat
  BY LoopTop DEF AtTop, RHS
<1>2. /\ nodes' = Append(nodes, node) /\ stack' = Append(Front(stack), g) /\ control' = RHS
      /\ tokens' = tokens
  BY DEF Combine, Replace, RHS
<1>3. /\ node \in NodeType /\ node.at = f.at /\ Len(node.kids) = 2 /\ node.kids[2] = rhs
  <2>1. f.kids[1] \in Nat /\ f.at \in Nat /\ rhs \in Nat
    <3>1. f.kids \in Seq(Nat) /\ f.at \in Nat /\ Len(f.kids) \in {1, 2}
      BY <1>1 DEF FrameOK, FrameType
    <3>2. rhs \in Nat
      BY <1>1
    <3> HIDE DEF f
    <3> QED  BY <3>1, <3>2
  <2> HIDE DEF f
  <2> QED  BY <2>1 DEF Node, NodeType, NodeKinds
<1>4. g \in FrameType /\ g.fn = RHS /\ g.prec = f.prec /\ g.kids[1] = n
  <2>1. n \in Nat /\ f.prec \in Nat
    BY <1>1 DEF FrameType
  <2>2. RHS \in CallSites
    BY DEF CallSites, RHS
  <2> HIDE DEF f, n
  <2> QED  BY <2>1, <2>2 DEF LoopFrame, Frame, FrameType, RHS
<1> HIDE DEF node, g
<1>5. /\ RightIn(nodes') /\ Extends(nodes, nodes') /\ nodes'[n] = node
  BY <1>1, <1>2, <1>3, NodeGroups
<1>6. Groups(stack, nodes')
  BY <1>1, <1>5, GrowGroups
<1>7. FrameGroups(nodes', g)
  BY <1>4, PlainFrame DEF RHS
<1> DEFINE d == Last(Front(stack))
<1>8. ASSUME Front(stack) # <<>>, PairOK(nodes', d, f) PROVE PairOK(nodes', d, g)
  <2>1. Precedence(tokens[f.at]) > f.prec /\ Precedence(tokens[f.at]) \in Nat
    BY <1>1, Precedences DEF FrameGroups, FrameOK
  <2>2. d.fn # "operand"
    BY <1>1, <1>8 DEF PairOK, Heads, Brackets
  <2>3. CASE d.fn = "nested"
    <3>1. FrameOK(d, Len(nodes))
      BY <1>1, <1>8, Pop, FrameFacts DEF Bottoms, Keywords
    <3>2. Precedence(tokens[d.at]) \in Nat
      BY <2>3, <3>1, Precedences DEF FrameOK
    <3>3. f.prec = Precedence(tokens[d.at]) + 1 /\ f.prec \in Nat
      BY <1>1, <1>8, <2>3 DEF PairOK, FrameType
    <3>4. Precedence(tokens[f.at]) > Precedence(tokens[d.at])
      BY <2>1, <3>2, <3>3
    <3>5. RightOK(nodes', d.at, n)
      BY <1>3, <1>5, <3>4 DEF RightOK
    <3> QED  BY <1>4, <2>2, <3>3, <3>5 DEF PairOK, Loops
  <2> QED  BY <2>2, <2>3 DEF PairOK
<1>9. Groups(Append(Front(stack), g), nodes')
  BY <1>1, <1>4, <1>6, <1>7, <1>8, ReplaceGroups
<1> QED  BY <1>2, <1>5, <1>9, FromGroups DEF RHS

LEMMA OperatorsGroups ==
  ASSUME GroupingInv, ParseOperators PROVE Kept'
<1> DEFINE f == Last(stack)
<1>1. CASE CombineOperand
  <2>1. /\ AtTop("operand") /\ control = "return" /\ value # Nil /\ f.fn = "operand"
        /\ Combine(f, value)
    BY <1>1 DEF CombineOperand, AtTop
  <2>2. value \in 1 .. Len(nodes) /\ TopGroups
    <3>1. value \in 0 .. Len(nodes) /\ Len(nodes) \in Nat /\ TopGroups
      BY <2>1, LoopTop DEF RHS
    <3> QED  BY <2>1, <3>1 DEF Nil
  <2>3. RightOK(nodes, f.at, value)
    BY <2>1, <2>2 DEF TopGroups
  <2> QED  BY <2>1, <2>2, <2>3, CombineGroups
<1>2. CASE CombineNested
  <2> DEFINE rhs == IF value = Nil THEN f.kids[2] ELSE value
  <2>1. /\ AtTop("nested") /\ control = "return" /\ f.fn = "nested" /\ Combine(f, rhs)
    BY <1>2 DEF CombineNested, AtTop
  <2>2. /\ TopGroups /\ FrameGroups(nodes, f) /\ FrameOK(f, Len(nodes)) /\ f \in FrameType
        /\ value \in 0 .. Len(nodes) /\ Len(nodes) \in Nat
    BY <2>1, LoopTop DEF RHS
  <2>3. rhs \in 1 .. Len(nodes)
    <3>1. f.kids[2] \in 1 .. Len(nodes)
      BY <2>1, <2>2 DEF FrameOK, FrameType
    <3>2. value # Nil => value \in 1 .. Len(nodes)
      BY <2>2 DEF Nil
    <3> QED  BY <3>1, <3>2
  <2>4. RightOK(nodes, f.at, rhs)
    BY <2>1, <2>2 DEF TopGroups, FrameGroups
  <2> HIDE DEF rhs
  <2> QED  BY <2>1, <2>3, <2>4, CombineGroups
<1> QED  BY <1>1, <1>2, BeginOperatorsGroups, TakeOperatorGroups, EndOperatorsGroups,
            ClimbOperatorsGroups DEF ParseOperators

-----------------------------------------------------------------------------
(* The functions that go on when parseExpression() has returned to them *)

\* A call that waits without an operator goes on to its next expression.
LEMMA HeadGroups ==
  ASSUME GroupingInv, NEW fn \in Heads, AtTop(fn),
         NEW g \in FrameType, g.fn \in Heads, NEW n, CallExpression(Replace(g), n)
  PROVE  Kept'
<1>1. /\ Groups(stack, nodes) /\ RightIn(nodes) /\ stack \in Seq(FrameType) /\ stack # <<>>
      /\ Last(stack).fn = fn
  BY LoopTop DEF AtTop, Heads, RHS
<1>2. FrameGroups(nodes, g) /\ g.fn \notin {"operand", "nested"}
  BY PlainFrame DEF Heads
<1>3. \A d : PairOK(nodes, d, Last(stack)) => PairOK(nodes, d, g)
  BY <1>1 DEF PairOK, Heads, Loops, RHS
<1>4. /\ Groups(Append(Front(stack), g), nodes) /\ Append(Front(stack), g) \in Seq(FrameType)
      /\ Last(Append(Front(stack), g)) = g
  BY <1>1, <1>2, <1>3, ReplaceGroups
<1> QED  BY <1>1, <1>2, <1>4, ExpressionGroups DEF Replace

\* The call on top returns a node that is no binary, or nil.
LEMMA LeaveGroups ==
  ASSUME GroupingInv, NEW fn, AtTop(fn), fn # "return", fn \notin Bottoms
  PROVE  /\ \A node \in NodeType : \A n :
               node.kind # "binary" /\ ReturnNew(node, Front(stack), n) => Kept'
         /\ \A n : Return(Nil, Front(stack), n) => Kept'
         /\ fn \in Brackets => \A n : Return(value, Front(stack), n) => Kept'
<1>1. /\ ParserInv /\ Groups(stack, nodes) /\ RightIn(nodes) /\ stack \in Seq(FrameType)
      /\ stack # <<>> /\ Last(stack).fn = fn /\ WellFormed(stack, Len(nodes))
  BY LoopTop DEF AtTop, RHS
<1>2. /\ Groups(Front(stack), nodes)
      /\ Front(stack) # <<>> => PairOK(nodes, Last(Front(stack)), Last(stack))
  BY <1>1, PopGroups
<1>3. WellFormed(Front(stack), Len(nodes)) /\ Front(stack) # <<>>
  BY <1>1, Pop
<1>4. ASSUME NEW node \in NodeType, NEW n, node.kind # "binary",
             ReturnNew(node, Front(stack), n)
      PROVE  Kept'
  BY <1>1, <1>2, <1>3, <1>4, ReturnNewGroups
<1>5. ASSUME NEW n, Return(Nil, Front(stack), n) PROVE Kept'
  BY <1>1, <1>2, <1>5, FromGroups DEF Return
<1>6. ASSUME NEW n, fn \in Brackets, Return(value, Front(stack), n) PROVE Kept'
  <2>1. Last(Front(stack)).fn \in {"operand", "nested"} =>
          RightOK(nodes, Last(Front(stack)).at, value)
    BY <1>1, <1>2, <1>3, <1>6 DEF PairOK, Brackets, Heads, Loops, RHS, RightOK
  <2> QED  BY <1>1, <1>2, <1>6, <2>1, FromGroups DEF Return
<1> QED  BY <1>4, <1>5, <1>6

LEMMA ResumeGroups ==
  ASSUME GroupingInv, Resume PROVE Kept'
<1> DEFINE f == Last(stack)
<1>1. ASSUME control = "return"
      PROVE  f \in FrameType /\ f.kids \in Seq(Nat) /\ f.at \in Nat /\ value \in Nat
  <2>1. AtTop(f.fn)
    BY <1>1 DEF AtTop
  <2>2. f \in FrameType /\ value \in 0 .. Len(nodes)
    <3>1. stack # <<>> /\ ParserInv
      BY <1>1 DEF GroupingInv, ParserInv, TopMatchesControl, Running, Outcomes
    <3> QED  BY <3>1, FrameFacts, Counters DEF ParserInv
  <2> HIDE DEF f
  <2> QED  BY <2>2 DEF FrameType
<1>2. \A fn \in {"parseExpression", "operand"} \cup Heads \cup Brackets :
        fn # "return" /\ fn \notin Bottoms
  BY DEF Bottoms, Keywords, Heads, Brackets
<1>3. ASSUME NEW outcome \in Outcomes, Halt(outcome) PROVE Kept'
  BY <1>3, Unchanged DEF Halt
<1>4. ASSUME control = "return", NEW k \in Seq(Nat)
      PROVE  Append(k, value) \in Seq(Nat)
  BY <1>1, <1>4
<1>5. \A at \in Nat, k \in Seq(Nat) :
        /\ \A fn \in Heads : Frame(fn, at, 0, k) \in FrameType /\ Frame(fn, at, 0, k).fn = fn
        /\ \A kind \in {"call", "cond"} :
             Node(kind, at, k) \in NodeType /\ Node(kind, at, k).kind # "binary"
  BY DEF Heads, Frame, FrameType, CallSites, Node, NodeType, NodeKinds
<1>6. CASE PropagateNil
  <2>1. AtTop(f.fn) /\ f.fn \in {"parseExpression", "operand"} \cup Heads \cup Brackets
    BY <1>6 DEF PropagateNil, AtTop, Heads, Brackets
  <2> QED  BY <1>2, <1>6, <2>1, LeaveGroups DEF PropagateNil
<1>7. CASE EndArguments
  <2>1. AtTop("argument") /\ control = "return"
    BY <1>7 DEF EndArguments, AtArgument, AtTop
  <2> QED  BY <1>1, <1>2, <1>4, <1>5, <1>7, <2>1, LeaveGroups DEF EndArguments, Heads
<1>8. CASE NextArgument
  <2> DEFINE g == [f EXCEPT !.kids = Append(@, value)]
  <2>1. AtTop("argument") /\ control = "return" /\ f.fn = "argument"
    BY <1>8 DEF NextArgument, AtArgument, AtTop
  <2>2. g \in FrameType /\ g.fn = "argument"
    BY <1>1, <1>4, <2>1 DEF FrameType
  <2>3. CallExpression(Replace(g), 1)
    BY <1>8 DEF NextArgument
  <2> HIDE DEF g
  <2> QED  BY <2>1, <2>2, <2>3, HeadGroups DEF Heads
<1>9. CASE RejectArguments
  BY <1>3, <1>9 DEF RejectArguments, Outcomes
<1>10. CASE EndCondition
  <2>1. AtTop("condition") /\ control = "return"
    BY <1>10 DEF EndCondition, AtTop
  <2> DEFINE g == Frame("then", f.at, 0, <<value>>)
  <2>2. g \in FrameType /\ g.fn = "then"
    <3>1. <<value>> \in Seq(Nat) /\ f.at \in Nat
      BY <1>1, <2>1
    <3> HIDE DEF f
    <3> QED  BY <1>5, <3>1 DEF Heads
  <2> HIDE DEF g
  <2>3. CallExpression(Replace(g), 1) => Kept'
    BY <2>1, <2>2, HeadGroups DEF Heads
  <2> QED  BY <1>3, <1>10, <2>3 DEF EndCondition, Outcomes, g
<1>11. CASE EndThen
  <2>1. AtTop("then") /\ control = "return"
    BY <1>11 DEF EndThen, AtTop
  <2> DEFINE g == Frame("else", f.at, 0, Append(f.kids, value))
  <2>2. g \in FrameType /\ g.fn = "else"
    BY <1>1, <1>4, <1>5, <2>1 DEF Heads
  <2> HIDE DEF g
  <2>3. CallExpression(Replace(g), 2) => Kept'
    BY <2>1, <2>2, HeadGroups DEF Heads
  <2> QED  BY <1>3, <1>11, <2>3 DEF EndThen, Outcomes, g
<1>12. CASE EndElse
  <2>1. AtTop("else") /\ control = "return"
    BY <1>12 DEF EndElse, AtTop
  <2> DEFINE node == Node("cond", f.at, Append(f.kids, value))
  <2>2. node \in NodeType /\ node.kind # "binary"
    BY <1>1, <1>4, <1>5, <2>1
  <2> HIDE DEF node
  <2>3. ReturnNew(node, Front(stack), 0) => Kept'
    BY <1>2, <2>1, <2>2, LeaveGroups DEF Heads
  <2> QED  BY <1>3, <1>12, <2>3 DEF EndElse, Outcomes, node
<1>13. CASE EndParentheses
  <2>1. AtTop("parentheses")
    BY <1>13 DEF EndParentheses
  <2>2. Return(value, Front(stack), 0) => Kept'
    BY <1>2, <2>1, LeaveGroups DEF Brackets
  <2> QED  BY <1>3, <1>13, <2>2 DEF EndParentheses, Outcomes
<1>14. CASE EndCurlyBrackets
  <2>1. AtTop("curlyBrackets")
    BY <1>14 DEF EndCurlyBrackets
  <2>2. Return(value, Front(stack), 1) => Kept'
    BY <1>2, <2>1, LeaveGroups DEF Brackets
  <2> QED  BY <1>3, <1>14, <2>2 DEF EndCurlyBrackets, Outcomes
<1> QED  BY <1>6, <1>7, <1>8, <1>9, <1>10, <1>11, <1>12, <1>13, <1>14 DEF Resume

-----------------------------------------------------------------------------
(* parseBinaryOperatorRHS() groups by precedence: the right operand of an  *)
(* operator is a binary only if its operator binds tighter or a bracket    *)
(* opens the operand, for every input and every limit.                     *)
THEOREM OperatorsGroup == Spec => []RightOperandBindsTighter
<1>1. Init => GroupingInv
  <2> SUFFICES ASSUME Init PROVE GroupingInv
    OBVIOUS
  <2>1. Groups(<<>>, nodes)
    BY AloneGroups
  <2> QED  BY <2>1, InitInv DEF GroupingInv, GroupsInv, TopGroups, RightIn, Init, Fresh
<1>2. GroupingInv /\ [Next]_vars => GroupingInv'
  <2> SUFFICES ASSUME GroupingInv, [Next]_vars PROVE GroupingInv'
    OBVIOUS
  <2>1. ParserInv'
    BY NextInv DEF GroupingInv
  <2>2. ASSUME UNCHANGED vars \/ Ended PROVE Kept'
    BY <2>2, Unchanged DEF Ended, vars
  <2>3. Kept'
    BY <2>2, ParseGroups, PrimaryGroups, OperatorsGroups, ResumeGroups DEF Next
  <2> QED  BY <2>1, <2>3 DEF GroupingInv, Kept
<1>3. GroupingInv => RightOperandBindsTighter
  BY DEF GroupingInv, RightIn, RightOK, Bracketed, RightOperandBindsTighter
<1> QED  BY <1>1, <1>2, <1>3, PTL DEF Spec

-----------------------------------------------------------------------------
(* What nodes copy from tokens: names, numbers and operators               *)

\* The tokens a node of this kind copies its name, number or operator from.
CopiedBy(kind) ==
  CASE kind = "number"               -> {"number"}
    [] kind = "binary"               -> Operators
    [] kind = "cond"                 -> {"is"}
    [] kind \in {"variable", "call"} -> {"identifier"}
    [] OTHER                         -> Identifiers

IsToken(at, S) == at \in DOMAIN tokens /\ tokens[at] \in S

NodeCopies(node) ==
  \/ node.at = 0 /\ node.kind \in {"prototype", "motif"}
  \/ node.kind # "motif" /\ IsToken(node.at, CopiedBy(node.kind))

\* The token a waiting call keeps for its node.
FrameCopies(f) ==
  /\ f.fn \in Keywords => IsToken(f.at, Identifiers)
  /\ f.fn = "argument" => IsToken(f.at, {"identifier"})
  /\ f.fn \in {"condition", "then", "else"} => IsToken(f.at, {"is"})

FramesCopy(s) == \A i \in 1 .. Len(s) : FrameCopies(s[i])
NodesCopy(h)  == \A n \in 1 .. Len(h) : NodeCopies(h[n])

CopiesInv  == ParserInv /\ FramesCopy(stack) /\ NodesCopy(nodes)
CopiesKept == FramesCopy(stack) /\ NodesCopy(nodes)

LEMMA PushCopies ==
  ASSUME NEW S, NEW s \in Seq(S), FramesCopy(s), NEW f, FrameCopies(f)
  PROVE  FramesCopy(Append(s, f)) /\ Append(s, f) \in Seq(S \cup {f})
<1> DEFINE T == S \cup {f}
<1>1. s \in Seq(T) /\ f \in T  BY SeqMonotonic
<1>2. /\ Append(s, f) \in Seq(T)
      /\ Len(Append(s, f)) = Len(s) + 1 /\ Append(s, f)[Len(s) + 1] = f
      /\ \A i \in 1 .. Len(s) : Append(s, f)[i] = s[i]
      /\ Len(s) \in Nat
  <2> HIDE DEF T
  <2> QED  BY <1>1, Appended
<1>3. \A i \in 1 .. Len(Append(s, f)) : i \in 1 .. Len(s) \/ i = Len(s) + 1
  BY <1>2
<1> QED  BY <1>2, <1>3 DEF FramesCopy

LEMMA PopCopies ==
  ASSUME NEW S, NEW s \in Seq(S), s # <<>>, FramesCopy(s)
  PROVE  FramesCopy(Front(s)) /\ FrameCopies(Last(s)) /\ Front(s) \in Seq(S)
<1>1. /\ Front(s) \in Seq(S) /\ Len(Front(s)) = Len(s) - 1 /\ Len(s) \in Nat \ {0}
      /\ \A i \in 1 .. Len(s) - 1 : Front(s)[i] = s[i]
      /\ Last(s) = s[Len(s)]
  BY FrontLast
<1>2. FramesCopy(Front(s))  BY <1>1 DEF FramesCopy
<1>3. FrameCopies(Last(s))  BY <1>1 DEF FramesCopy
<1> QED  BY <1>1, <1>2, <1>3

LEMMA NewCopies ==
  ASSUME NEW S, NEW h \in Seq(S), NodesCopy(h), NEW node, NodeCopies(node)
  PROVE  NodesCopy(Append(h, node)) /\ Append(h, node) \in Seq(S \cup {node})
<1> DEFINE T == S \cup {node}
<1>1. h \in Seq(T) /\ node \in T  BY SeqMonotonic
<1>2. /\ Append(h, node) \in Seq(T)
      /\ Len(Append(h, node)) = Len(h) + 1 /\ Append(h, node)[Len(h) + 1] = node
      /\ \A i \in 1 .. Len(h) : Append(h, node)[i] = h[i]
      /\ Len(h) \in Nat
  <2> HIDE DEF T
  <2> QED  BY <1>1, Appended
<1>3. \A i \in 1 .. Len(Append(h, node)) : i \in 1 .. Len(h) \/ i = Len(h) + 1
  BY <1>2
<1> QED  BY <1>2, <1>3 DEF NodesCopy

LEMMA CopiesNow ==
  ASSUME tokens' = tokens, FramesCopy(stack'), NodesCopy(nodes')
  PROVE  CopiesKept'
<1>1. \A f : FrameCopies(f)' <=> FrameCopies(f)
  BY DEF FrameCopies, IsToken
<1>2. \A node : NodeCopies(node)' <=> NodeCopies(node)
  BY DEF NodeCopies, IsToken
<1> QED  BY <1>1, <1>2 DEF CopiesKept, FramesCopy, NodesCopy

\* Frames of calls that keep no token.
LEMMA NoToKeep ==
  /\ \A prec, lhs : FrameCopies(LoopFrame(prec, lhs))
  /\ \A fn, at, prec, kids :
       fn \notin Keywords \cup {"argument", "condition", "then", "else"}
         => FrameCopies(Frame(fn, at, prec, kids))
  BY DEF FrameCopies, LoopFrame, Frame, Keywords

LEMMA AloneCopies ==
  /\ FramesCopy(<<>>)
  /\ \A f : FrameCopies(f) => FramesCopy(<<f>>)
  /\ \A f, g : FrameCopies(f) /\ FrameCopies(g) => FramesCopy(<<f, g>>)
  BY DEF FramesCopy

LEMMA CurrentIs ==
  ASSUME ParserInv
  PROVE  \A i, S : NoToken \notin S /\ TokenAt(i) \in S => IsToken(i, S)
<1>1. tokens \in Seq(Token)  BY DEF ParserInv, TypeOK
<1> QED  BY <1>1 DEF TokenAt, IsToken

LEMMA CallCopies ==
  ASSUME NodesCopy(nodes), NEW S, NEW s \in Seq(S), FramesCopy(s), NEW n, CallExpression(s, n)
  PROVE  CopiesKept'
<1>1. FrameCopies(Frame("parseExpression", 0, 0, <<>>))
  BY NoToKeep DEF Keywords
<1> QED  BY <1>1, PushCopies, CopiesNow DEF CallExpression

LEMMA BuildCopies ==
  ASSUME ParserInv, NodesCopy(nodes), NEW s, FramesCopy(s), NEW node, NodeCopies(node),
         NEW n, ReturnNew(node, s, n)
  PROVE  CopiesKept'
  BY StackIsSeq, NewCopies, CopiesNow DEF ReturnNew

\* parse() and the prototypes.
LEMMA ParseCopies ==
  ASSUME CopiesInv, Parse \/ ParsePrototype PROVE CopiesKept'
<1>1. /\ ParserInv /\ FramesCopy(stack) /\ NodesCopy(nodes)
      /\ stack \in Seq(FrameType) /\ nodes \in Seq(NodeType)
  BY StackIsSeq DEF CopiesInv
<1>2. NoToken \notin Identifiers
  BY DEF NoToken, Identifiers
<1>3. CASE Finish \/ SkipSeparator \/ RejectPrototype \/ ExhaustMemory \/ RejectParameter
             \/ DropLastBracket
  BY <1>1, <1>3, CopiesNow DEF Finish, SkipSeparator, RejectPrototype, ExhaustMemory,
     RejectParameter, DropLastBracket, Halt, vars
<1>4. CASE BeginPrototype
  <2>1. IsToken(pos + 1, Identifiers)
    BY <1>1, <1>2, <1>4, CurrentIs DEF BeginPrototype, Stalk
  <2>2. FrameCopies(Frame(Current, pos + 1, 0, <<>>))
    BY <1>4, <2>1 DEF BeginPrototype, Frame, FrameCopies, Keywords
  <2> QED  BY <1>1, <1>4, <2>2, AloneCopies, CopiesNow DEF BeginPrototype
<1>5. CASE BeginTopLevel
  <2> DEFINE f == Frame("parseTopLevelExpression", 0, 0, <<>>)
  <2>1. <<f>> \in Seq({f}) /\ FramesCopy(<<f>>)
    BY NoToKeep, AloneCopies DEF Keywords
  <2> QED  BY <1>1, <1>5, <2>1, CallCopies DEF BeginTopLevel
<1>6. CASE EndTopLevel
  <2> DEFINE a == Node("prototype", 0, <<>>)
             b == Node("motif", 0, <<Len(nodes) + 1, value>>)
  <2>1. NodeCopies(a) /\ NodeCopies(b)
    BY DEF NodeCopies, Node
  <2>2. NodesCopy(Append(nodes, a)) /\ Append(nodes, a) \in Seq(NodeType \cup {a})
    <3> HIDE DEF a
    <3> QED  BY <1>1, <2>1, NewCopies
  <2>3. NodesCopy(Append(Append(nodes, a), b))
    <3> HIDE DEF a, b
    <3> QED  BY <2>1, <2>2, NewCopies
  <2>4. Append(Append(nodes, a), b) = nodes \o <<a, b>>
    <3> DEFINE S == NodeType \cup {a, b}
    <3>1. nodes \in Seq(S) /\ a \in S /\ b \in S  BY <1>1, SeqMonotonic
    <3> HIDE DEF S, a, b
    <3> QED  BY <3>1
  <2> QED  BY <1>1, <1>6, <2>3, <2>4, AloneCopies, CopiesNow DEF EndTopLevel
<1>7. CASE EndDefinition
  <2>1. \A k : NodeCopies(Node("motif", 0, k))
    BY DEF NodeCopies, Node
  <2> QED  BY <1>1, <1>7, <2>1, NewCopies, AloneCopies, CopiesNow DEF EndDefinition
<1>8. CASE AddParameter
  <2> DEFINE f == Last(stack)
             g == [f EXCEPT !.kids = Append(@, Len(nodes) + 1)]
  <2>1. stack # <<>> /\ f \in FrameType
    BY <1>1, <1>8, FrontLast DEF AddParameter, ParserInv, TopMatchesControl, Running, Outcomes
  <2>2. g.fn = f.fn /\ g.at = f.at
    BY <2>1 DEF FrameType
  <2>3. FramesCopy(Front(stack)) /\ FrameCopies(f) /\ Front(stack) \in Seq(FrameType)
    BY <1>1, <2>1, PopCopies
  <2>4. FrameCopies(g)
    BY <2>2, <2>3 DEF FrameCopies
  <2>5. FramesCopy(Append(Front(stack), g))
    <3> HIDE DEF g
    <3> QED  BY <2>3, <2>4, PushCopies
  <2>6. IsToken(pos + 1, Identifiers)
    BY <1>1, <1>2, <1>8, CurrentIs DEF AddParameter, Stalk
  <2>7. NodeCopies(Node("param", pos + 1, <<>>))
    BY <2>6 DEF NodeCopies, Node, CopiedBy
  <2> QED  BY <1>1, <1>8, <2>5, <2>7, NewCopies, CopiesNow DEF AddParameter, Replace
<1>9. CASE EndPrototype
  <2> DEFINE f == Last(stack)
  <2>1. stack # <<>> /\ f.fn \in Keywords
    BY <1>1, <1>9 DEF EndPrototype, ParserInv, TopMatchesControl, Running, Outcomes
  <2>2. FrameCopies(f)
    BY <1>1, <2>1, PopCopies
  <2>3. NodeCopies(Node("prototype", f.at, f.kids))
    BY <2>1, <2>2 DEF FrameCopies, NodeCopies, Node, CopiedBy
  <2>4. NodesCopy(nodes')
    BY <1>1, <1>9, <2>3, NewCopies DEF EndPrototype
  <2>5. \A k : FrameCopies(Frame("parseFunctionDefinition", 0, 0, k))
    BY NoToKeep DEF Keywords
  <2>6. FrameCopies(Frame("parseExpression", 0, 0, <<>>))
    BY NoToKeep DEF Keywords
  <2>7. FramesCopy(stack')
    BY <1>9, <2>5, <2>6, AloneCopies DEF EndPrototype
  <2> QED  BY <1>9, <2>4, <2>7, CopiesNow DEF EndPrototype
<1> QED  BY <1>3, <1>4, <1>5, <1>6, <1>7, <1>8, <1>9 DEF Parse, ParsePrototype

LEMMA PrimaryCopies ==
  ASSUME CopiesInv, ParsePrimary PROVE CopiesKept'
<1>1. /\ ParserInv /\ FramesCopy(stack) /\ NodesCopy(nodes) /\ stack \in Seq(FrameType)
  BY StackIsSeq DEF CopiesInv
<1>2. \A S : NoToken \notin S /\ Current \in S => IsToken(pos, S)
  BY <1>1, CurrentIs DEF Current
<1>3. CASE Overflow \/ UnknownToken
  BY <1>1, <1>3, CopiesNow DEF Overflow, UnknownToken, Halt
<1>4. CASE NoPrimary \/ CallCutShort
  BY <1>1, <1>4, CopiesNow DEF NoPrimary, CallCutShort, Return
<1>5. CASE Number \/ Variable \/ CallWithoutArguments
  <2>1. \/ Number /\ IsToken(pos, {"number"})
        \/ (Variable \/ CallWithoutArguments) /\ IsToken(pos, {"identifier"})
    BY <1>2, <1>5 DEF Number, Variable, CallWithoutArguments, IsCall, NoToken
  <2>2. \/ Number /\ NodeCopies(Node("number", pos, <<>>))
        \/ Variable /\ NodeCopies(Node("variable", pos, <<>>))
        \/ CallWithoutArguments /\ NodeCopies(Node("call", pos, <<>>))
    BY <2>1 DEF NodeCopies, Node, CopiedBy
  <2> QED  BY <1>1, <2>2, BuildCopies DEF Number, Variable, CallWithoutArguments
<1>6. ASSUME NEW f, FrameCopies(f), NEW n, CallExpression(Append(stack, f), n)
      PROVE  CopiesKept'
  BY <1>1, <1>6, PushCopies, CallCopies
<1>7. CASE CallWithArguments
  <2>1. IsToken(pos, {"identifier"})
    BY <1>2, <1>7 DEF CallWithArguments, IsCall, NoToken
  <2>2. FrameCopies(Frame("argument", pos, 0, <<>>))
    BY <2>1 DEF FrameCopies, Frame, Keywords
  <2> QED  BY <1>6, <1>7, <2>2 DEF CallWithArguments
<1>8. CASE BeginTernary
  <2>1. IsToken(pos, {"is"})
    BY <1>2, <1>8 DEF BeginTernary, NoToken
  <2>2. FrameCopies(Frame("condition", pos, 0, <<>>))
    BY <2>1 DEF FrameCopies, Frame, Keywords
  <2> QED  BY <1>6, <1>8, <2>2 DEF BeginTernary
<1>9. CASE OperatorAsPrimary
  BY <1>1, <1>9, CallCopies DEF OperatorAsPrimary
<1>10. CASE BeginParentheses
  <2>1. FrameCopies(Frame("parentheses", pos + 2, 0, <<>>))
    BY NoToKeep DEF Keywords
  <2> QED  BY <1>1, <1>6, <1>10, <2>1, CopiesNow DEF BeginParentheses, Return
<1>11. CASE BeginCurlyBrackets
  <2>1. FrameCopies(Frame("curlyBrackets", 0, 0, <<>>))
    BY NoToKeep DEF Keywords
  <2> QED  BY <1>6, <1>11, <2>1 DEF BeginCurlyBrackets
<1> QED  BY <1>3, <1>4, <1>5, <1>7, <1>8, <1>9, <1>10, <1>11 DEF ParsePrimary

LEMMA OperatorsCopy ==
  ASSUME CopiesInv, ParseOperators PROVE CopiesKept'
<1>1. control \in {"return", RHS}
  BY DEF ParseOperators, BeginOperators, TakeOperator, EndOperators, ClimbOperators,
     CombineOperand, CombineNested, AtTop, RHS
<1>2. /\ ParserInv /\ FramesCopy(stack) /\ NodesCopy(nodes)
      /\ stack \in Seq(FrameType) /\ nodes \in Seq(NodeType) /\ stack # <<>>
  BY <1>1, StackIsSeq DEF CopiesInv, ParserInv, TopMatchesControl, Running, Outcomes, RHS
<1>3. FramesCopy(Front(stack)) /\ Front(stack) \in Seq(FrameType)
  BY <1>2, PopCopies
<1>4. \A f : FrameCopies(f) => FramesCopy(Replace(f)) /\ Replace(f) \in Seq(FrameType \cup {f})
  BY <1>3, PushCopies DEF Replace
<1>5. /\ \A prec, lhs : FrameCopies(LoopFrame(prec, lhs))
      /\ \A at, prec, kids : FrameCopies(Frame("operand", at, prec, kids))
      /\ \A at, prec, kids : FrameCopies(Frame("nested", at, prec, kids))
  BY NoToKeep DEF Keywords
<1>6. CASE BeginOperators \/ TakeOperator
  BY <1>2, <1>4, <1>5, <1>6, CopiesNow DEF BeginOperators, TakeOperator
<1>7. CASE EndOperators
  BY <1>2, <1>3, <1>7, CopiesNow DEF EndOperators, Return
<1>8. CASE ClimbOperators
  <2> DEFINE f == Last(stack)
             g == Frame("nested", f.at, f.prec, Append(f.kids, value))
             h == LoopFrame(Precedence(tokens[f.at]) + 1, value)
  <2>1. FramesCopy(Append(Replace(g), h))
    <3>1. FramesCopy(Replace(g)) /\ Replace(g) \in Seq(FrameType \cup {g}) /\ FrameCopies(h)
      BY <1>4, <1>5
    <3> HIDE DEF g, h
    <3> QED  BY <3>1, PushCopies
  <2>2. stack' = Append(Replace(g), h) /\ nodes' = nodes /\ tokens' = tokens
    BY <1>8 DEF ClimbOperators
  <2> QED  BY <1>2, <2>1, <2>2, CopiesNow
<1>9. CASE CombineOperand \/ CombineNested
  <2> DEFINE f == Last(stack)
  <2>1. f.fn \in {"operand", "nested"} /\ FrameOK(f, Len(nodes))
    BY <1>2, <1>9, FrameFacts DEF CombineOperand, CombineNested, AtTop, ParserInv
  <2>2. PICK rhs : Combine(f, rhs)
    BY <1>9 DEF CombineOperand, CombineNested
  <2>3. \A kids : NodeCopies(Node("binary", f.at, kids))
    BY <2>1 DEF FrameOK, NodeCopies, IsToken, Node, CopiedBy
  <2> QED  BY <1>2, <1>4, <1>5, <2>2, <2>3, NewCopies, CopiesNow DEF Combine
<1> QED  BY <1>6, <1>7, <1>8, <1>9 DEF ParseOperators

LEMMA ResumeCopies ==
  ASSUME CopiesInv, Resume PROVE CopiesKept'
<1> DEFINE f == Last(stack)
<1>1. control = "return"
  BY DEF Resume, PropagateNil, EndArguments, NextArgument, RejectArguments, EndCondition,
     EndThen, EndElse, EndParentheses, EndCurlyBrackets, AtTop, AtArgument
<1>2. /\ ParserInv /\ FramesCopy(stack) /\ NodesCopy(nodes)
      /\ stack \in Seq(FrameType) /\ nodes \in Seq(NodeType) /\ stack # <<>>
  BY <1>1, StackIsSeq DEF CopiesInv, ParserInv, TopMatchesControl, Running, Outcomes
<1>3. FramesCopy(Front(stack)) /\ Front(stack) \in Seq(FrameType) /\ FrameCopies(f)
  BY <1>2, PopCopies
<1>4. f \in FrameType
  BY <1>2, FrontLast
<1>5. ASSUME NEW o, Halt(o) PROVE CopiesKept'
  BY <1>2, <1>5, CopiesNow DEF Halt
<1>6. ASSUME NEW v, NEW n, Return(v, Front(stack), n) PROVE CopiesKept'
  BY <1>2, <1>3, <1>6, CopiesNow DEF Return
<1>7. ASSUME NEW g, FrameCopies(g), NEW n, CallExpression(Replace(g), n) PROVE CopiesKept'
  BY <1>2, <1>3, <1>7, PushCopies, CallCopies DEF Replace
<1>8. CASE PropagateNil \/ RejectArguments \/ EndParentheses \/ EndCurlyBrackets
  BY <1>5, <1>6, <1>8 DEF PropagateNil, RejectArguments, EndParentheses, EndCurlyBrackets
<1>9. CASE EndArguments
  <2>1. NodeCopies(Node("call", f.at, Append(f.kids, value)))
    BY <1>3, <1>9 DEF EndArguments, AtArgument, AtTop, FrameCopies, NodeCopies, Node, CopiedBy
  <2> QED  BY <1>2, <1>3, <1>9, <2>1, BuildCopies DEF EndArguments
<1>10. CASE NextArgument
  <2> DEFINE g == [f EXCEPT !.kids = Append(@, value)]
  <2>1. FrameCopies(g)
    BY <1>3, <1>4 DEF FrameCopies, FrameType
  <2>2. PICK n : CallExpression(Replace(g), n)
    BY <1>10 DEF NextArgument
  <2> HIDE DEF g
  <2> QED  BY <1>7, <2>1, <2>2
<1>11. CASE EndCondition
  <2>1. FrameCopies(Frame("then", f.at, 0, <<value>>))
    BY <1>3, <1>11 DEF EndCondition, AtTop, FrameCopies, Frame, Keywords
  <2> QED  BY <1>5, <1>7, <1>11, <2>1 DEF EndCondition
<1>12. CASE EndThen
  <2>1. FrameCopies(Frame("else", f.at, 0, Append(f.kids, value)))
    BY <1>3, <1>12 DEF EndThen, AtTop, FrameCopies, Frame, Keywords
  <2> QED  BY <1>5, <1>7, <1>12, <2>1 DEF EndThen
<1>13. CASE EndElse
  <2>1. NodeCopies(Node("cond", f.at, Append(f.kids, value)))
    BY <1>3, <1>13 DEF EndElse, AtTop, FrameCopies, NodeCopies, Node, CopiedBy
  <2> QED  BY <1>2, <1>3, <1>5, <1>13, <2>1, BuildCopies DEF EndElse
<1> QED  BY <1>8, <1>9, <1>10, <1>11, <1>12, <1>13 DEF Resume

LEMMA FreshCopies == ASSUME tokens \in Seq(Token), Fresh PROVE CopiesInv
  BY FreshInv DEF Fresh, CopiesInv, FramesCopy, NodesCopy

LEMMA NextCopies == ASSUME CopiesInv, [Next]_vars PROVE CopiesInv'
<1>1. ParserInv'
  BY NextInv DEF CopiesInv
<1>2. ASSUME UNCHANGED vars \/ Ended PROVE CopiesKept'
  BY <1>2, CopiesNow DEF Ended, vars, CopiesInv
<1>3. CopiesKept'
  BY <1>2, ParseCopies, PrimaryCopies, OperatorsCopy, ResumeCopies DEF Next
<1> QED  BY <1>1, <1>3 DEF CopiesInv, CopiesKept

(* A name, number or operator of a node is copied from a token that has    *)
(* one, although the functions keep it while others move the cursor.       *)
THEOREM NodesCopyTokens == Spec => []NodesCopy(nodes)
<1>1. Init => CopiesInv
  BY InputsAssumption, FreshCopies DEF Init
<1>2. CopiesInv /\ [Next]_vars => CopiesInv'
  BY NextCopies
<1>3. CopiesInv => NodesCopy(nodes)
  BY DEF CopiesInv
<1> QED  BY <1>1, <1>2, <1>3, PTL DEF Spec

=============================================================================
