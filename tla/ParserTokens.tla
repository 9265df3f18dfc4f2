---------------------------- MODULE ParserTokens -----------------------------
(***************************************************************************)
(* What the parser does with its tokens: it makes no token into two nodes  *)
(* of an item, and is in no more than two calls for each, unless it meets  *)
(* an operator; for every input and limit.                                 *)
(*                                                                         *)
(* The first: the functions disagree on where they leave the cursor, but   *)
(* on two things they agree.  The tokens that a waiting call will use for  *)
(* its node, and those the item has used, are not after the cursor; and    *)
(* when a primary begins, or nil has been returned, they are before it     *)
(* (Behind).  So a node or a call that takes the token at the cursor, or   *)
(* the next, shares it with no other (Apart).                              *)
(*                                                                         *)
(* The second: every call of parseExpression() but one follows a read, and *)
(* it is two calls deeper.  Only parseBinaryOperatorRHS() calls itself     *)
(* with nothing read, and the operator that waits there has been counted   *)
(* once (Depths).                                                          *)
(***************************************************************************)
EXTENDS ParserProofs

-----------------------------------------------------------------------------
(* One node of a token: what is claimed                                    *)

\* The calls that hold a token for a node they have not built yet.
Claiming == Keywords \cup {"operand", "nested", "argument", "condition", "then", "else"}

\* Node n of h has a token and belongs to the item in progress: no tree of t
\* was completed after it.
OfItem(h, t, n) == h[n].at # 0 /\ \A k \in DOMAIN t : t[k] < n

\* Neither a call nor a node of the item has the token at this place.
Free(s, h, t, at) ==
  /\ \A i \in 1 .. Len(s) : s[i].fn \in Claiming => s[i].at # at
  /\ \A n \in 1 .. Len(h) : OfItem(h, t, n) => h[n].at # at

\* The tokens of the calls and of the nodes of the item come before this place.
Behind(s, h, t, p) ==
  /\ \A i \in 1 .. Len(s) : s[i].fn \in Claiming => s[i].at < p
  /\ \A n \in 1 .. Len(h) : OfItem(h, t, n) => h[n].at < p

\* TokensUsedOnce, of a heap.
OnceIn(h, t) ==
  \A m, n \in 1 .. Len(h) :
    (m < n /\ h[m].at = h[n].at /\ h[m].at # 0) => \E k \in DOMAIN t : m <= t[k] /\ t[k] < n

\* No token is held twice.
Apart(s, h, t) ==
  /\ OnceIn(h, t)
  /\ \A i, j \in 1 .. Len(s) :
       i < j /\ s[i].fn \in Claiming /\ s[j].fn \in Claiming => s[i].at # s[j].at
  /\ \A i \in 1 .. Len(s) : s[i].fn \in Claiming =>
       \A n \in 1 .. Len(h) : OfItem(h, t, n) => s[i].at # h[n].at

\* The token the cursor is on may become a node.
Unused(c, v) == c \in {"parse", "parsePrimary"} \/ (c = "return" /\ v = Nil)

ClaimsInv ==
  /\ Apart(stack, nodes, syntaxTree)
  /\ Running => Behind(stack, nodes, syntaxTree,
                        IF Unused(control, value) THEN pos ELSE pos + 1)

TokensInv == ParserInv /\ ClaimsInv

-----------------------------------------------------------------------------
(* Stacks *)

LEMMA Places ==
  ASSUME NEW s \in Seq(FrameType), NEW h \in Seq(NodeType)
  PROVE  /\ \A i \in 1 .. Len(s) : s[i].at \in Nat
         /\ \A n \in 1 .. Len(h) : h[n].at \in Nat
<1>1. ASSUME NEW i \in 1 .. Len(s) PROVE s[i].at \in Nat
  <2>1. s[i] \in FrameType  OBVIOUS
  <2> QED  BY <2>1 DEF FrameType
<1>2. ASSUME NEW n \in 1 .. Len(h) PROVE h[n].at \in Nat
  <2>1. h[n] \in NodeType  OBVIOUS
  <2> QED  BY <2>1 DEF NodeType
<1> QED  BY <1>1, <1>2

LEMMA BehindLater ==
  ASSUME NEW s \in Seq(FrameType), NEW h \in Seq(NodeType), NEW t,
         NEW p \in Nat, NEW q \in Nat, p <= q, Behind(s, h, t, p)
  PROVE  Behind(s, h, t, q)
<1>1. PICK k \in Nat : k = Len(s)  OBVIOUS
<1>2. PICK l \in Nat : l = Len(h)  OBVIOUS
<1>3. \A i \in 1 .. k : s[i].at \in Nat  BY <1>1, Places
<1>4. \A n \in 1 .. l : h[n].at \in Nat  BY <1>2, Places
<1> QED  BY <1>1, <1>2, <1>3, <1>4 DEF Behind

LEMMA BehindFree ==
  ASSUME NEW s \in Seq(FrameType), NEW h \in Seq(NodeType), NEW t,
         NEW p \in Nat, NEW at \in Nat, p <= at, Behind(s, h, t, p)
  PROVE  Free(s, h, t, at)
<1>1. PICK k \in Nat : k = Len(s)  OBVIOUS
<1>2. PICK l \in Nat : l = Len(h)  OBVIOUS
<1>3. \A i \in 1 .. k : s[i].at \in Nat  BY <1>1, Places
<1>4. \A n \in 1 .. l : h[n].at \in Nat  BY <1>2, Places
<1> QED  BY <1>1, <1>2, <1>3, <1>4 DEF Behind, Free

\* A call is added, whose token nothing else has.
LEMMA PushApart ==
  ASSUME NEW s \in Seq(FrameType), NEW h, NEW t, Apart(s, h, t),
         NEW f \in FrameType, f.fn \in Claiming => Free(s, h, t, f.at)
  PROVE  /\ Append(s, f) \in Seq(FrameType)
         /\ Apart(Append(s, f), h, t)
         /\ \A p : Behind(s, h, t, p) /\ (f.fn \in Claiming => f.at < p)
                     => Behind(Append(s, f), h, t, p)
<1> DEFINE u == Append(s, f)
<1>1. PICK k \in Nat : k = Len(s)  OBVIOUS
<1>2. /\ u \in Seq(FrameType) /\ Len(u) = k + 1 /\ u[k + 1] = f
      /\ \A i \in 1 .. k : u[i] = s[i]
  BY <1>1, Appended
<1>3. \A i \in 1 .. k + 1 : i \in 1 .. k \/ i = k + 1
  BY <1>1
<1> HIDE DEF u
<1>4. Apart(u, h, t)
  <2>1. ASSUME NEW i \in 1 .. k + 1, NEW j \in 1 .. k + 1, i < j,
               u[i].fn \in Claiming, u[j].fn \in Claiming
        PROVE  u[i].at # u[j].at
    <3>1. i \in 1 .. k  BY <1>1, <2>1
    <3>2. CASE j \in 1 .. k
      BY <1>1, <1>2, <2>1, <3>1, <3>2 DEF Apart
    <3>3. CASE j = k + 1
      BY <1>1, <1>2, <2>1, <3>1, <3>3 DEF Free
    <3> QED  BY <1>3, <3>2, <3>3
  <2>2. ASSUME NEW i \in 1 .. k + 1, u[i].fn \in Claiming,
               NEW n \in 1 .. Len(h), OfItem(h, t, n)
        PROVE  u[i].at # h[n].at
    <3>1. CASE i \in 1 .. k
      BY <1>1, <1>2, <2>2, <3>1 DEF Apart
    <3>2. CASE i = k + 1
      BY <1>2, <2>2, <3>2 DEF Free
    <3> QED  BY <1>3, <3>1, <3>2
  <2> QED  BY <1>2, <2>1, <2>2 DEF Apart
<1>5. ASSUME NEW p, Behind(s, h, t, p), f.fn \in Claiming => f.at < p
      PROVE  Behind(u, h, t, p)
  BY <1>1, <1>2, <1>3, <1>5 DEF Behind
<1> QED  BY <1>2, <1>4, <1>5 DEF u

\* The call on top returns: its token is free.
LEMMA PopApart ==
  ASSUME NEW s \in Seq(FrameType), s # <<>>, NEW h, NEW t, Apart(s, h, t)
  PROVE  /\ Front(s) \in Seq(FrameType)
         /\ Apart(Front(s), h, t)
         /\ Last(s).fn \in Claiming => Free(Front(s), h, t, Last(s).at)
         /\ \A p : Behind(s, h, t, p) =>
              /\ Behind(Front(s), h, t, p)
              /\ Last(s).fn \in Claiming => Last(s).at < p
<1> DEFINE u == Front(s)
<1>1. PICK k \in Nat \ {0} : k = Len(s)  OBVIOUS
<1>2. /\ u \in Seq(FrameType) /\ Len(u) = k - 1 /\ Last(s) = s[k]
      /\ \A i \in 1 .. k - 1 : u[i] = s[i]
  BY <1>1, FrontLast
<1>3. /\ \A i \in 1 .. k - 1 : i \in 1 .. k /\ i < k
      /\ k \in 1 .. k
  BY <1>1
<1> HIDE DEF u
<1>4. Apart(u, h, t)
  BY <1>1, <1>2, <1>3 DEF Apart
<1>5. Last(s).fn \in Claiming => Free(u, h, t, Last(s).at)
  BY <1>1, <1>2, <1>3 DEF Apart, Free
<1>6. ASSUME NEW p, Behind(s, h, t, p)
      PROVE  Behind(u, h, t, p) /\ (Last(s).fn \in Claiming => Last(s).at < p)
  BY <1>1, <1>2, <1>3, <1>6 DEF Behind
<1> QED  BY <1>2, <1>4, <1>5, <1>6 DEF u

-----------------------------------------------------------------------------
(* Nodes and trees *)

\* A node is added, whose token nothing else has.
LEMMA NodeApart ==
  ASSUME NEW s, NEW h \in Seq(NodeType), NEW t \in Seq(DOMAIN h), Apart(s, h, t),
         NEW node \in NodeType, node.at = 0 \/ Free(s, h, t, node.at)
  PROVE  /\ Apart(s, Append(h, node), t)
         /\ \A p : Behind(s, h, t, p) /\ (node.at # 0 => node.at < p)
                     => Behind(s, Append(h, node), t, p)
<1> DEFINE g == Append(h, node)
<1>1. PICK k \in Nat : k = Len(h) /\ DOMAIN h = 1 .. k  OBVIOUS
<1>2. /\ Len(g) = k + 1 /\ g[k + 1] = node
      /\ \A n \in 1 .. k : g[n] = h[n]
  BY <1>1, Appended
<1>3. \A n \in 1 .. k + 1 : n \in 1 .. k \/ n = k + 1
  BY <1>1
<1>4. \A i \in DOMAIN t : t[i] \in 1 .. k
  BY <1>1
<1> HIDE DEF g
<1>5. \A n \in 1 .. k : OfItem(g, t, n) => OfItem(h, t, n)
  BY <1>2 DEF OfItem
<1>6. OnceIn(g, t)
  <2> SUFFICES ASSUME NEW m \in 1 .. k + 1, NEW n \in 1 .. k + 1,
                      m < n, g[m].at = g[n].at, g[m].at # 0
               PROVE  \E i \in DOMAIN t : m <= t[i] /\ t[i] < n
    BY <1>2 DEF OnceIn
  <2>1. m \in 1 .. k /\ g[m] = h[m]  BY <1>1, <1>2
  <2>2. CASE n \in 1 .. k
    BY <1>1, <1>2, <2>1, <2>2 DEF Apart, OnceIn
  <2>3. CASE n = k + 1
    <3>1. g[n] = node /\ h[m].at = node.at /\ node.at # 0
      BY <1>2, <2>1, <2>3
    <3>2. ~OfItem(h, t, m)
      BY <1>1, <2>1, <3>1 DEF Free
    <3>3. PICK i \in DOMAIN t : ~(t[i] < m)
      BY <3>1, <3>2 DEF OfItem
    <3>4. t[i] \in 1 .. k  BY <1>4
    <3> QED  BY <1>1, <2>1, <2>3, <3>3, <3>4
  <2> QED  BY <1>3, <2>2, <2>3
<1>7. ASSUME NEW i \in 1 .. Len(s), s[i].fn \in Claiming, NEW n \in 1 .. k + 1, OfItem(g, t, n)
      PROVE  s[i].at # g[n].at
  <2>1. CASE n \in 1 .. k
    BY <1>1, <1>2, <1>5, <1>7, <2>1 DEF Apart
  <2>2. CASE n = k + 1
    BY <1>2, <1>7, <2>2 DEF Free, OfItem
  <2> QED  BY <1>3, <2>1, <2>2
<1>8. Apart(s, g, t)
  BY <1>2, <1>6, <1>7 DEF Apart
<1>9. ASSUME NEW p, Behind(s, h, t, p), node.at # 0 => node.at < p
      PROVE  Behind(s, g, t, p)
  <2>1. ASSUME NEW n \in 1 .. k + 1, OfItem(g, t, n) PROVE g[n].at < p
    <3>1. CASE n \in 1 .. k
      BY <1>1, <1>2, <1>5, <1>9, <2>1, <3>1 DEF Behind
    <3>2. CASE n = k + 1
      BY <1>2, <1>9, <2>1, <3>2 DEF OfItem
    <3> QED  BY <1>3, <3>1, <3>2
  <2> QED  BY <1>2, <1>9, <2>1 DEF Behind
<1> QED  BY <1>8, <1>9 DEF g

\* An item is complete: no call waits, and no node is of the next item.
LEMMA TreeApart ==
  ASSUME NEW s, NEW h \in Seq(NodeType), NEW t \in Seq(DOMAIN h), Apart(s, h, t),
         NEW root, root = Len(h), root \in DOMAIN h
  PROVE  /\ Apart(<<>>, h, Append(t, root))
         /\ \A p : Behind(<<>>, h, Append(t, root), p)
<1> DEFINE u == Append(t, root)
<1>1. PICK k \in Nat : k = Len(h) /\ DOMAIN h = 1 .. k  OBVIOUS
<1>2. PICK l \in Nat : l = Len(t) /\ DOMAIN t = 1 .. l  OBVIOUS
<1>3. /\ DOMAIN u = 1 .. l + 1 /\ u[l + 1] = k
      /\ \A i \in 1 .. l : u[i] = t[i]
  BY <1>1, <1>2
<1>4. l + 1 \in DOMAIN u /\ \A i \in DOMAIN t : i \in DOMAIN u
  BY <1>2, <1>3
<1> HIDE DEF u
<1>5. \A n \in 1 .. k : ~OfItem(h, u, n)
  <2> SUFFICES ASSUME NEW n \in 1 .. k, u[l + 1] < n PROVE FALSE
    BY <1>4 DEF OfItem
  <2> QED  BY <1>1, <1>3
<1>6. OnceIn(h, u)
  BY <1>2, <1>3, <1>4 DEF Apart, OnceIn
<1>7. \A i : i \notin 1 .. Len(<<>>)
  OBVIOUS
<1>8. Apart(<<>>, h, u)
  BY <1>6, <1>7 DEF Apart
<1>9. \A p : Behind(<<>>, h, u, p)
  BY <1>1, <1>5, <1>7 DEF Behind
<1> QED  BY <1>8, <1>9 DEF u

\* Calls that hold no token.
LEMMA NoClaims ==
  ASSUME NEW s, \A i \in 1 .. Len(s) : s[i].fn \notin Claiming, NEW h, NEW t
  PROVE  /\ \A u : Apart(u, h, t) => Apart(s, h, t)
         /\ \A u, p : Behind(u, h, t, p) => Behind(s, h, t, p)
  BY DEF Apart, Behind

-----------------------------------------------------------------------------
(* The cursor *)

LEMMA ReadsOn ==
  ASSUME TypeOK, NEW n \in Nat
  PROVE  /\ pos \in Nat /\ Reads(n) \in Nat /\ pos <= Reads(n)
         /\ Reads(0) = pos
         /\ pos + n <= Len(tokens) + 1 => Reads(n) = pos + n
<1>1. PICK k \in Nat : k = Len(tokens)
  BY DEF TypeOK
<1>2. pos \in 1 .. k + 1
  BY <1>1 DEF TypeOK
<1> QED  BY <1>1, <1>2 DEF Reads

LEMMA Ahead ==
  ASSUME TypeOK
  PROVE  /\ Current # NoToken => Reads(1) = pos + 1
         /\ Stalk # NoToken => Reads(1) = pos + 1 /\ Reads(2) = pos + 2
<1>1. PICK k \in Nat : k = Len(tokens)
  BY DEF TypeOK
<1>2. pos \in Nat  BY DEF TypeOK
<1>3. Current # NoToken => pos <= k
  BY <1>1, <1>2 DEF Current, TokenAt
<1>4. Stalk # NoToken => pos + 1 <= k
  BY <1>1, <1>2 DEF Stalk, TokenAt
<1> QED  BY <1>1, <1>2, <1>3, <1>4 DEF Reads

\* Where the tokens in use are, whatever function runs.
LEMMA ClaimsNow ==
  ASSUME TokensInv
  PROVE  /\ stack \in Seq(FrameType) /\ nodes \in Seq(NodeType)
         /\ syntaxTree \in Seq(DOMAIN nodes) /\ pos \in Nat /\ TypeOK
         /\ Apart(stack, nodes, syntaxTree)
         /\ Running => Behind(stack, nodes, syntaxTree, pos + 1)
         /\ Running /\ Unused(control, value) => Behind(stack, nodes, syntaxTree, pos)
<1>1. /\ stack \in Seq(FrameType) /\ nodes \in Seq(NodeType)
      /\ syntaxTree \in Seq(DOMAIN nodes) /\ pos \in Nat /\ TypeOK
  BY DEF TokensInv, ParserInv, TypeOK, FrameType, NodeType
<1>2. Running => Behind(stack, nodes, syntaxTree, IF Unused(control, value) THEN pos ELSE pos + 1)
  BY DEF TokensInv, ClaimsInv
<1>3. Running /\ Unused(control, value) => Behind(stack, nodes, syntaxTree, pos + 1)
  <2>1. pos + 1 \in Nat /\ pos <= pos + 1  BY <1>1
  <2> QED  BY <1>1, <1>2, <2>1, BehindLater
<1> QED  BY <1>1, <1>2, <1>3 DEF TokensInv, ClaimsInv

-----------------------------------------------------------------------------
(* The ways a step ends *)

LEMMA HaltClaims ==
  ASSUME TokensInv, UNCHANGED <<stack, nodes, syntaxTree>>, control' \in Outcomes
  PROVE  ClaimsInv'
<1>1. Apart(stack', nodes', syntaxTree')
  BY ClaimsNow
<1> QED  BY <1>1 DEF ClaimsInv, Running

LEMMA CallClaims ==
  ASSUME TokensInv, NEW s \in Seq(FrameType), Apart(s, nodes, syntaxTree), NEW n \in Nat,
         Behind(s, nodes, syntaxTree, Reads(n)), CallExpression(s, n)
  PROVE  ClaimsInv'
<1> DEFINE f == Frame("parseExpression", 0, 0, <<>>)
<1>1. f \in FrameType /\ f.fn \notin Claiming
  BY DEF Frame, FrameType, CallSites, Claiming, Keywords
<1>2. /\ stack' = Append(s, f) /\ control' = "parsePrimary" /\ pos' = Reads(n)
      /\ nodes' = nodes /\ syntaxTree' = syntaxTree
  BY DEF CallExpression
<1> HIDE DEF f
<1>3. Apart(stack', nodes', syntaxTree') /\ Behind(stack', nodes', syntaxTree', pos')
  BY <1>1, <1>2, PushApart
<1> QED  BY <1>2, <1>3 DEF ClaimsInv, Unused

LEMMA ReturnClaims ==
  ASSUME TokensInv, NEW s, Apart(s, nodes, syntaxTree), NEW n \in Nat, NEW v,
         Behind(s, nodes, syntaxTree, IF v = Nil THEN Reads(n) ELSE Reads(n) + 1),
         Return(v, s, n)
  PROVE  ClaimsInv'
<1>1. /\ stack' = s /\ control' = "return" /\ pos' = Reads(n) /\ value' = v
      /\ nodes' = nodes /\ syntaxTree' = syntaxTree
  BY DEF Return
<1> QED  BY <1>1 DEF ClaimsInv, Unused

LEMMA ReturnNewClaims ==
  ASSUME TokensInv, NEW s, Apart(s, nodes, syntaxTree), NEW n \in Nat,
         NEW node \in NodeType, Free(s, nodes, syntaxTree, node.at),
         Behind(s, nodes, syntaxTree, pos + 1), s \in Seq(FrameType), node.at < pos + 1,
         ReturnNew(node, s, n)
  PROVE  ClaimsInv'
<1>1. /\ stack' = s /\ control' = "return" /\ pos' = Reads(n) /\ value' = Len(nodes) + 1
      /\ nodes' = Append(nodes, node) /\ syntaxTree' = syntaxTree
  BY DEF ReturnNew
<1>2. nodes \in Seq(NodeType) /\ syntaxTree \in Seq(DOMAIN nodes) /\ pos \in Nat /\ TypeOK
  BY ClaimsNow
<1>3. Reads(n) \in Nat /\ pos <= Reads(n) /\ node.at \in Nat
  BY <1>2, ReadsOn DEF NodeType
<1>4. node.at < Reads(n) + 1 /\ pos + 1 \in Nat /\ Reads(n) + 1 \in Nat /\ pos + 1 <= Reads(n) + 1
  BY <1>2, <1>3
<1>5. Behind(s, nodes, syntaxTree, Reads(n) + 1)
  BY <1>2, <1>4, BehindLater
<1>6. Apart(stack', nodes', syntaxTree') /\ Behind(stack', nodes', syntaxTree', pos' + 1)
  BY <1>1, <1>2, <1>4, <1>5, NodeApart
<1>7. Len(nodes) \in Nat /\ value' # Nil
  BY <1>1, <1>2 DEF Nil
<1> QED  BY <1>1, <1>6, <1>7 DEF ClaimsInv, Unused

LEMMA NodeIn ==
  ASSUME NEW kind \in NodeKinds, NEW at \in Nat, NEW kids \in Seq(Nat)
  PROVE  Node(kind, at, kids) \in NodeType /\ Node(kind, at, kids).at = at
  BY DEF Node, NodeType

-----------------------------------------------------------------------------
(* parsePrimary() *)

\* A call of parsePrimary() that waits may keep the token at the cursor.
LEMMA PushClaims ==
  ASSUME TokensInv, control = "parsePrimary", NEW at \in Nat, NEW n \in Nat,
         NEW fn \in {"argument", "condition", "parentheses", "curlyBrackets"},
         fn \in Claiming => at = pos /\ pos < Reads(n),
         CallExpression(Append(stack, Frame(fn, at, 0, <<>>)), n)
  PROVE  ClaimsInv'
<1> DEFINE f == Frame(fn, at, 0, <<>>)
<1>1. fn \in CallSites /\ <<>> \in Seq(Nat) /\ 0 \in Nat  BY DEF CallSites
<1>2. f \in FrameType /\ f.fn = fn /\ f.at = at
  BY <1>1 DEF Frame, FrameType
<1>3. /\ stack \in Seq(FrameType) /\ nodes \in Seq(NodeType) /\ pos \in Nat /\ TypeOK
      /\ Apart(stack, nodes, syntaxTree) /\ Behind(stack, nodes, syntaxTree, pos)
  BY ClaimsNow DEF Running, Outcomes, Unused
<1>4. Reads(n) \in Nat /\ pos <= Reads(n)
  BY <1>3, ReadsOn
<1> HIDE DEF f
<1>5. pos <= pos  BY <1>3
<1>6. f.fn \in Claiming => Free(stack, nodes, syntaxTree, f.at)
  BY <1>2, <1>3, <1>5, BehindFree
<1>7. Behind(stack, nodes, syntaxTree, Reads(n))
  BY <1>3, <1>4, BehindLater
<1>8. /\ Append(stack, f) \in Seq(FrameType) /\ Apart(Append(stack, f), nodes, syntaxTree)
      /\ Behind(Append(stack, f), nodes, syntaxTree, Reads(n))
  BY <1>2, <1>3, <1>6, <1>7, PushApart
<1> QED  BY <1>8, CallClaims DEF f

LEMMA PrimaryClaims ==
  ASSUME TokensInv, ParsePrimary PROVE ClaimsInv'
<1>1. control = "parsePrimary"
  BY DEF ParsePrimary, Overflow, UnknownToken, NoPrimary, Number, Variable,
     CallWithoutArguments, CallCutShort, CallWithArguments, BeginTernary,
     OperatorAsPrimary, BeginParentheses, BeginCurlyBrackets, IsCall, AtPrimary
<1>2. /\ stack \in Seq(FrameType) /\ nodes \in Seq(NodeType) /\ pos \in Nat /\ TypeOK
      /\ Apart(stack, nodes, syntaxTree) /\ Behind(stack, nodes, syntaxTree, pos)
      /\ Behind(stack, nodes, syntaxTree, pos + 1)
  BY <1>1, ClaimsNow DEF Running, Outcomes, Unused
<1>3. CASE Overflow \/ UnknownToken
  BY <1>3, HaltClaims DEF Overflow, UnknownToken, Halt, Outcomes
<1>4. ASSUME NEW n \in Nat, Return(Nil, stack, n) PROVE ClaimsInv'
  <2>1. Reads(n) \in Nat /\ pos <= Reads(n)
    BY <1>2, ReadsOn
  <2>2. Behind(stack, nodes, syntaxTree, Reads(n))
    BY <1>2, <2>1, BehindLater
  <2> QED  BY <1>2, <1>4, <2>2, ReturnClaims
<1>5. ASSUME NEW kind \in {"number", "variable", "call"}, NEW n \in Nat,
             ReturnNew(Node(kind, pos, <<>>), stack, n)
      PROVE  ClaimsInv'
  <2>1. kind \in NodeKinds /\ <<>> \in Seq(Nat)  BY DEF NodeKinds
  <2>2. Node(kind, pos, <<>>) \in NodeType /\ Node(kind, pos, <<>>).at = pos
    BY <1>2, <2>1, NodeIn
  <2>3. pos <= pos /\ pos < pos + 1  BY <1>2
  <2>4. Free(stack, nodes, syntaxTree, pos)
    BY <1>2, <2>3, BehindFree
  <2> QED  BY <1>2, <1>5, <2>2, <2>3, <2>4, ReturnNewClaims
<1>6. CASE NoPrimary \/ CallCutShort
  BY <1>4, <1>6 DEF NoPrimary, CallCutShort
<1>7. CASE Number \/ Variable \/ CallWithoutArguments
  BY <1>5, <1>7 DEF Number, Variable, CallWithoutArguments
<1>8. CASE CallWithArguments
  <2>1. Stalk # NoToken  BY <1>8 DEF CallWithArguments, IsCall, NoToken
  <2>2. pos < Reads(2)  BY <1>2, <2>1, Ahead
  <2> QED  BY <1>1, <1>2, <1>8, <2>2, PushClaims DEF CallWithArguments
<1>9. CASE BeginTernary
  <2>1. pos < Reads(1)  BY <1>2, <1>9, Ahead DEF BeginTernary
  <2> QED  BY <1>1, <1>2, <1>9, <2>1, PushClaims DEF BeginTernary
<1>10. CASE OperatorAsPrimary
  BY <1>2, <1>10, ReadsOn, CallClaims DEF OperatorAsPrimary
<1>11. CASE BeginParentheses
  <2>1. "parentheses" \notin Claiming  BY DEF Claiming, Keywords
  <2> QED  BY <1>1, <1>2, <1>4, <1>11, <2>1, PushClaims DEF BeginParentheses
<1>12. CASE BeginCurlyBrackets
  <2>1. "curlyBrackets" \notin Claiming  BY DEF Claiming, Keywords
  <2> QED  BY <1>1, <1>12, <2>1, PushClaims DEF BeginCurlyBrackets
<1> QED  BY <1>3, <1>6, <1>7, <1>8, <1>9, <1>10, <1>11, <1>12 DEF ParsePrimary

-----------------------------------------------------------------------------
(* A function has returned to the call on top *)

\* The call on top, and what holds when it is gone.
LEMMA TopClaims ==
  ASSUME TokensInv, control \in {"return", RHS, "parsePrototype"}
  PROVE  /\ stack \in Seq(FrameType) /\ stack # <<>> /\ Last(stack) \in FrameType
         /\ Last(stack).at \in Nat /\ Last(stack).prec \in Nat
         /\ Last(stack).kids \in Seq(Nat)
         /\ Front(stack) \in Seq(FrameType)
         /\ Apart(Front(stack), nodes, syntaxTree)
         /\ Behind(Front(stack), nodes, syntaxTree, pos + 1)
         /\ Unused(control, value) => Behind(Front(stack), nodes, syntaxTree, pos)
         /\ Last(stack).fn \in Claiming =>
              /\ Last(stack).at < pos + 1
              /\ Free(Front(stack), nodes, syntaxTree, Last(stack).at)
<1>1. stack # <<>> /\ Running
  BY DEF TokensInv, ParserInv, TopMatchesControl, Running, Outcomes, RHS
<1>2. /\ stack \in Seq(FrameType) /\ Apart(stack, nodes, syntaxTree)
      /\ Behind(stack, nodes, syntaxTree, pos + 1)
      /\ Unused(control, value) => Behind(stack, nodes, syntaxTree, pos)
  BY <1>1, ClaimsNow
<1>3. Last(stack) \in FrameType
  BY <1>1, <1>2, FrontLast
<1>4. Last(stack).at \in Nat /\ Last(stack).prec \in Nat /\ Last(stack).kids \in Seq(Nat)
  BY <1>3 DEF FrameType
<1> QED  BY <1>1, <1>2, <1>3, <1>4, PopApart

\* The call on top changes, and keeps its token, takes the next or has none.
LEMMA ReplaceClaims ==
  ASSUME TokensInv, control \in {"return", RHS, "parsePrototype"}, NEW g \in FrameType,
         g.fn \in Claiming =>
           g.at = pos + 1 \/ (Last(stack).fn \in Claiming /\ g.at = Last(stack).at)
  PROVE  /\ Replace(g) \in Seq(FrameType) /\ Apart(Replace(g), nodes, syntaxTree)
         /\ \A p \in Nat : pos + 1 <= p /\ (g.fn \in Claiming => g.at < p)
                             => Behind(Replace(g), nodes, syntaxTree, p)
<1> DEFINE s == Front(stack)
<1>1. /\ s \in Seq(FrameType) /\ Apart(s, nodes, syntaxTree)
      /\ Behind(s, nodes, syntaxTree, pos + 1)
      /\ Last(stack).fn \in Claiming => Free(s, nodes, syntaxTree, Last(stack).at)
  BY TopClaims
<1>2. pos \in Nat /\ nodes \in Seq(NodeType)
  BY ClaimsNow
<1> HIDE DEF s
<1>3. Free(s, nodes, syntaxTree, pos + 1)
  <2>1. pos + 1 \in Nat /\ pos + 1 <= pos + 1  BY <1>2
  <2> QED  BY <1>1, <1>2, <2>1, BehindFree
<1>4. g.fn \in Claiming => Free(s, nodes, syntaxTree, g.at)
  BY <1>1, <1>3
<1>5. /\ Append(s, g) \in Seq(FrameType) /\ Apart(Append(s, g), nodes, syntaxTree)
      /\ \A p : Behind(s, nodes, syntaxTree, p) /\ (g.fn \in Claiming => g.at < p)
                  => Behind(Append(s, g), nodes, syntaxTree, p)
  BY <1>1, <1>4, PushApart
<1>6. \A p \in Nat : pos + 1 <= p => Behind(s, nodes, syntaxTree, p)
  <2>1. pos + 1 \in Nat  BY <1>2
  <2> QED  BY <1>1, <1>2, <2>1, BehindLater
<1> QED  BY <1>5, <1>6 DEF Replace, s

\* The call on top calls parseExpression() again, some tokens further.
LEMMA AgainClaims ==
  ASSUME TokensInv, control = "return", NEW g \in FrameType, NEW n \in Nat,
         g.fn \in Claiming => Last(stack).fn \in Claiming /\ g.at = Last(stack).at,
         pos + 1 <= Reads(n), CallExpression(Replace(g), n)
  PROVE  ClaimsInv'
<1>1. pos \in Nat /\ TypeOK  BY ClaimsNow
<1>2. Reads(n) \in Nat  BY <1>1, ReadsOn
<1>3. /\ Replace(g) \in Seq(FrameType) /\ Apart(Replace(g), nodes, syntaxTree)
      /\ \A p \in Nat : pos + 1 <= p /\ (g.fn \in Claiming => g.at < p)
                          => Behind(Replace(g), nodes, syntaxTree, p)
  BY ReplaceClaims
<1>4. g.fn \in Claiming => g.at < Reads(n)
  <2>1. g.fn \in Claiming => g.at \in Nat /\ g.at < pos + 1
    BY TopClaims
  <2> QED  BY <1>1, <1>2, <2>1
<1> QED  BY <1>2, <1>3, <1>4, CallClaims

\* The call on top returns a node of its own.
LEMMA BuildClaims ==
  ASSUME TokensInv, control = "return", Last(stack).fn \in Claiming, NEW n \in Nat,
         NEW kind \in NodeKinds, NEW kids \in Seq(Nat),
         ReturnNew(Node(kind, Last(stack).at, kids), Front(stack), n)
  PROVE  ClaimsInv'
<1>1. /\ Last(stack).at \in Nat /\ Last(stack).at < pos + 1
      /\ Front(stack) \in Seq(FrameType) /\ Apart(Front(stack), nodes, syntaxTree)
      /\ Behind(Front(stack), nodes, syntaxTree, pos + 1)
      /\ Free(Front(stack), nodes, syntaxTree, Last(stack).at)
  BY TopClaims
<1>2. /\ Node(kind, Last(stack).at, kids) \in NodeType
      /\ Node(kind, Last(stack).at, kids).at = Last(stack).at
  BY <1>1, NodeIn
<1> QED  BY <1>1, <1>2, ReturnNewClaims

\* The call on top returns a node there is, or passes nil on.
LEMMA PassClaims ==
  ASSUME TokensInv, control \in {"return", RHS}, NEW v, NEW n \in Nat,
         v = Nil => control = "return" /\ value = Nil, Return(v, Front(stack), n)
  PROVE  ClaimsInv'
<1>1. pos \in Nat /\ TypeOK /\ nodes \in Seq(NodeType)  BY ClaimsNow
<1>2. Reads(n) \in Nat /\ pos <= Reads(n)  BY <1>1, ReadsOn
<1>3. pos + 1 \in Nat /\ Reads(n) + 1 \in Nat /\ pos + 1 <= Reads(n) + 1  BY <1>1, <1>2
<1>4. /\ Front(stack) \in Seq(FrameType) /\ Apart(Front(stack), nodes, syntaxTree)
      /\ Behind(Front(stack), nodes, syntaxTree, pos + 1)
      /\ v = Nil => Behind(Front(stack), nodes, syntaxTree, pos)
  BY TopClaims DEF Unused
<1>5. Behind(Front(stack), nodes, syntaxTree, IF v = Nil THEN Reads(n) ELSE Reads(n) + 1)
  BY <1>1, <1>2, <1>3, <1>4, BehindLater
<1> QED  BY <1>4, <1>5, ReturnClaims

LEMMA MoreKids ==
  ASSUME TokensInv, NEW kids \in Seq(Nat) PROVE Append(kids, value) \in Seq(Nat)
<1>1. value \in Nat  BY Counters DEF TokensInv
<1> QED  BY <1>1

LEMMA ResumeClaims ==
  ASSUME TokensInv, Resume PROVE ClaimsInv'
<1> DEFINE f == Last(stack)
<1>1. control = "return"
  BY DEF Resume, PropagateNil, EndArguments, NextArgument, RejectArguments, EndCondition,
     EndThen, EndElse, EndParentheses, EndCurlyBrackets, AtTop, AtArgument
<1>2. /\ f.at \in Nat /\ f.prec \in Nat /\ f.kids \in Seq(Nat) /\ f \in FrameType
      /\ pos \in Nat /\ TypeOK /\ value \in Nat
  BY <1>1, TopClaims, ClaimsNow, Counters DEF TokensInv
<1>3. Append(f.kids, value) \in Seq(Nat) /\ <<value>> \in Seq(Nat)
  BY <1>2, MoreKids
<1>4. ASSUME NEW o \in Outcomes, Halt(o) PROVE ClaimsInv'
  BY <1>4, HaltClaims DEF Halt
<1>5. /\ "argument" \in Claiming /\ "condition" \in Claiming /\ "then" \in Claiming
      /\ "else" \in Claiming
      /\ "then" \in CallSites /\ "else" \in CallSites /\ "argument" \in CallSites
      /\ "call" \in NodeKinds /\ "cond" \in NodeKinds
      /\ "threw" \in Outcomes /\ "trapped" \in Outcomes
  BY DEF Claiming, CallSites, NodeKinds, Outcomes
<1>6. CASE PropagateNil
  BY <1>1, <1>6, PassClaims DEF PropagateNil
<1>7. CASE EndArguments
  <2>1. f.fn = "argument"  BY <1>7 DEF EndArguments, AtArgument, AtTop
  <2> QED  BY <1>1, <1>3, <1>5, <1>7, <2>1, BuildClaims DEF EndArguments
<1>8. CASE NextArgument
  <2> DEFINE g == [f EXCEPT !.kids = Append(@, value)]
  <2>1. f.fn = "argument"  BY <1>8 DEF NextArgument, AtArgument, AtTop
  <2>2. g \in FrameType /\ g.fn = f.fn /\ g.at = f.at
    BY <1>2, <1>3 DEF FrameType
  <2>3. pos + 1 <= Reads(1)
    <3>1. Stalk # NoToken  BY <1>8 DEF NextArgument, NoToken
    <3>2. Reads(1) = pos + 1  BY <1>2, <3>1, Ahead
    <3> QED  BY <1>2, <3>2
  <2> HIDE DEF g
  <2>4. CallExpression(Replace(g), 1)
    BY <1>8 DEF NextArgument, g
  <2> QED  BY <1>1, <1>5, <2>1, <2>2, <2>3, <2>4, AgainClaims
<1>9. CASE RejectArguments
  BY <1>4, <1>5, <1>9 DEF RejectArguments
<1>10. CASE EndCondition
  <2>1. f.fn = "condition"  BY <1>10 DEF EndCondition, AtTop
  <2>2. CASE Current = "?"
    <3> DEFINE g == Frame("then", f.at, 0, <<value>>)
    <3>1. g \in FrameType /\ g.fn = "then" /\ g.at = f.at
      BY <1>2, <1>3, <1>5 DEF Frame, FrameType
    <3>2. pos + 1 <= Reads(1)
      BY <1>2, <2>2, Ahead DEF NoToken
    <3> HIDE DEF g
    <3>3. CallExpression(Replace(g), 1)
      BY <1>10, <2>2 DEF EndCondition, g
    <3> QED  BY <1>1, <1>5, <2>1, <3>1, <3>2, <3>3, AgainClaims
  <2>3. CASE Current # "?"
    BY <1>4, <1>5, <1>10, <2>3 DEF EndCondition
  <2> QED  BY <2>2, <2>3
<1>11. CASE EndThen
  <2>1. f.fn = "then"  BY <1>11 DEF EndThen, AtTop
  <2>2. CASE value # Nil /\ Stalk = ":"
    <3> DEFINE g == Frame("else", f.at, 0, Append(f.kids, value))
    <3>1. g \in FrameType /\ g.fn = "else" /\ g.at = f.at
      BY <1>2, <1>3, <1>5 DEF Frame, FrameType
    <3>2. pos + 1 <= Reads(2)
      BY <1>2, <2>2, Ahead DEF NoToken
    <3> HIDE DEF g
    <3>3. CallExpression(Replace(g), 2)
      BY <1>11, <2>2 DEF EndThen, g
    <3> QED  BY <1>1, <1>5, <2>1, <3>1, <3>2, <3>3, AgainClaims
  <2>3. CASE ~(value # Nil /\ Stalk = ":")
    BY <1>4, <1>5, <1>11, <2>3 DEF EndThen
  <2> QED  BY <2>2, <2>3
<1>12. CASE EndElse
  <2>1. f.fn = "else"  BY <1>12 DEF EndElse, AtTop
  <2> QED  BY <1>1, <1>3, <1>4, <1>5, <1>12, <2>1, BuildClaims DEF EndElse
<1>13. CASE EndParentheses
  BY <1>1, <1>4, <1>5, <1>13, PassClaims DEF EndParentheses
<1>14. CASE EndCurlyBrackets
  BY <1>1, <1>4, <1>5, <1>14, PassClaims DEF EndCurlyBrackets
<1> QED  BY <1>6, <1>7, <1>8, <1>9, <1>10, <1>11, <1>12, <1>13, <1>14 DEF Resume

-----------------------------------------------------------------------------
(* parseExpression() and parseBinaryOperatorRHS() *)

LEMMA LoopFrameIn ==
  ASSUME NEW prec \in Nat, NEW lhs \in Nat
  PROVE  LoopFrame(prec, lhs) \in FrameType /\ LoopFrame(prec, lhs).fn \notin Claiming
  BY DEF LoopFrame, Frame, FrameType, CallSites, Claiming, Keywords

\* The loop over the operators goes on with a left operand.
LEMMA CombineClaims ==
  ASSUME TokensInv, control = "return", Last(stack).fn \in {"operand", "nested"},
         NEW rhs \in Nat, Len(Last(stack).kids) >= 1, Combine(Last(stack), rhs)
  PROVE  ClaimsInv'
<1> DEFINE f == Last(stack)
           s == Front(stack)
           node == Node("binary", f.at, <<f.kids[1], rhs>>)
           g == LoopFrame(f.prec, Len(nodes) + 1)
<1>1. /\ f.at \in Nat /\ f.prec \in Nat /\ f.kids \in Seq(Nat) /\ f.at < pos + 1
      /\ s \in Seq(FrameType) /\ Apart(s, nodes, syntaxTree)
      /\ Behind(s, nodes, syntaxTree, pos + 1) /\ Free(s, nodes, syntaxTree, f.at)
  BY TopClaims DEF Claiming
<1>2. /\ nodes \in Seq(NodeType) /\ syntaxTree \in Seq(DOMAIN nodes) /\ pos \in Nat
      /\ TypeOK /\ Len(nodes) \in Nat
  BY ClaimsNow
<1>3. Reads(1) \in Nat /\ pos <= Reads(1)  BY <1>2, ReadsOn
<1>4. node \in NodeType /\ node.at = f.at
  <2>1. f.kids[1] \in Nat  BY <1>1
  <2>2. <<f.kids[1], rhs>> \in Seq(Nat) /\ "binary" \in NodeKinds
    BY <2>1 DEF NodeKinds
  <2> QED  BY <1>1, <2>2, NodeIn
<1>5. g \in FrameType /\ g.fn \notin Claiming
  <2>1. Len(nodes) + 1 \in Nat  BY <1>2
  <2> QED  BY <1>1, <2>1, LoopFrameIn
<1>6. /\ nodes' = Append(nodes, node) /\ stack' = Append(s, g) /\ pos' = Reads(1)
      /\ control' = "parseBinaryOperatorRHS" /\ syntaxTree' = syntaxTree
  BY DEF Combine, Replace
<1> HIDE DEF f, s, node, g
<1>7. /\ Apart(s, Append(nodes, node), syntaxTree)
      /\ Behind(s, Append(nodes, node), syntaxTree, pos + 1)
  BY <1>1, <1>2, <1>4, NodeApart
<1>8. Append(nodes, node) \in Seq(NodeType)
  BY <1>2, <1>4
<1>9. Behind(s, Append(nodes, node), syntaxTree, Reads(1) + 1)
  <2>1. pos + 1 \in Nat /\ Reads(1) + 1 \in Nat /\ pos + 1 <= Reads(1) + 1
    BY <1>2, <1>3
  <2> QED  BY <1>1, <1>7, <1>8, <2>1, BehindLater
<1>10. /\ Apart(stack', nodes', syntaxTree')
       /\ Behind(stack', nodes', syntaxTree', pos' + 1)
  BY <1>1, <1>5, <1>6, <1>7, <1>9, PushApart
<1> QED  BY <1>6, <1>10 DEF ClaimsInv, Unused

LEMMA OperatorsClaims ==
  ASSUME TokensInv, ParseOperators PROVE ClaimsInv'
<1> DEFINE f == Last(stack)
<1>1. control \in {"return", RHS}
  BY DEF ParseOperators, BeginOperators, TakeOperator, EndOperators, ClimbOperators,
     CombineOperand, CombineNested, AtTop, RHS
<1>2. /\ f.at \in Nat /\ f.prec \in Nat /\ f.kids \in Seq(Nat) /\ f \in FrameType
      /\ pos \in Nat /\ TypeOK /\ value \in Nat /\ nodes \in Seq(NodeType)
  BY <1>1, TopClaims, ClaimsNow, Counters DEF TokensInv
<1>3. /\ f.fn \in {RHS, "operand"} => Len(f.kids) = 1
      /\ f.fn = "nested" => Len(f.kids) = 2
      /\ f.fn \in {"operand", "nested"} => tokens[f.at] \in Operators
      /\ \A k \in DOMAIN f.kids : f.kids[k] \in 1 .. Len(nodes)
  <2>1. stack # <<>>  BY <1>1, TopClaims
  <2>2. FrameOK(f, Len(nodes))
    BY <2>1, FrameFacts DEF TokensInv, ParserInv
  <2> QED  BY <2>2 DEF FrameOK
<1>4. pos + 1 \in Nat /\ pos + 1 <= pos + 1  BY <1>2
<1>5. CASE BeginOperators
  <2> DEFINE g == LoopFrame(0, value)
  <2>1. g \in FrameType /\ g.fn \notin Claiming  BY <1>2, LoopFrameIn
  <2>2. /\ stack' = Replace(g) /\ control' = "parseBinaryOperatorRHS" /\ pos' = pos
        /\ nodes' = nodes /\ syntaxTree' = syntaxTree
    BY <1>5 DEF BeginOperators
  <2> HIDE DEF g
  <2>3. /\ Apart(stack', nodes', syntaxTree')
        /\ Behind(stack', nodes', syntaxTree', pos' + 1)
    BY <1>1, <1>4, <2>1, <2>2, ReplaceClaims
  <2> QED  BY <2>2, <2>3 DEF ClaimsInv, Unused
<1>6. CASE TakeOperator
  <2> DEFINE g == Frame("operand", pos + 1, f.prec, f.kids)
  <2>1. g \in FrameType /\ g.at = pos + 1
    BY <1>2, <1>4 DEF Frame, FrameType, CallSites
  <2>2. /\ stack' = Replace(g) /\ control' = "parsePrimary" /\ pos' = Reads(2)
        /\ nodes' = nodes /\ syntaxTree' = syntaxTree
    BY <1>6 DEF TakeOperator
  <2>3. Stalk # NoToken
    BY <1>6 DEF TakeOperator, Climbs, Operators, NoToken
  <2>4. pos' = pos + 2  BY <1>2, <2>2, <2>3, Ahead
  <2>5. pos' \in Nat /\ pos + 1 <= pos' /\ pos + 1 < pos'  BY <1>2, <2>4
  <2> HIDE DEF g
  <2>6. Apart(stack', nodes', syntaxTree') /\ Behind(stack', nodes', syntaxTree', pos')
    BY <1>1, <2>1, <2>2, <2>5, ReplaceClaims
  <2> QED  BY <2>2, <2>6 DEF ClaimsInv, Unused
<1>7. CASE EndOperators
  <2>1. f.fn = RHS
    BY <1>7 DEF EndOperators, TokensInv, ParserInv, TopMatchesControl, RHS
  <2>2. f.kids[1] # Nil
    BY <1>2, <1>3, <2>1 DEF Nil
  <2> QED  BY <1>1, <1>7, <2>2, PassClaims DEF EndOperators
<1>8. CASE ClimbOperators
  <2> DEFINE g == Frame("nested", f.at, f.prec, Append(f.kids, value))
             h == LoopFrame(Precedence(tokens[f.at]) + 1, value)
  <2>1. f.fn = "operand" /\ f.fn \in Claiming
    BY <1>8 DEF ClimbOperators, AtTop, Claiming
  <2>2. Append(f.kids, value) \in Seq(Nat)
    BY <1>2, MoreKids
  <2>3. g \in FrameType /\ g.at = f.at
    BY <1>2, <2>2 DEF Frame, FrameType, CallSites
  <2>4. Precedence(tokens[f.at]) + 1 \in Nat
    <3>1. Precedence(tokens[f.at]) \in Nat  BY <1>3, <2>1, Precedences
    <3> QED  BY <3>1
  <2>5. h \in FrameType /\ h.fn \notin Claiming
    BY <1>2, <2>4, LoopFrameIn
  <2>6. /\ stack' = Append(Replace(g), h) /\ control' = "parseBinaryOperatorRHS"
        /\ pos' = pos /\ nodes' = nodes /\ syntaxTree' = syntaxTree
    BY <1>8 DEF ClimbOperators
  <2>7. f.at < pos + 1
    BY <1>1, <2>1, TopClaims
  <2> HIDE DEF g, h
  <2>8. /\ Replace(g) \in Seq(FrameType) /\ Apart(Replace(g), nodes, syntaxTree)
        /\ Behind(Replace(g), nodes, syntaxTree, pos + 1)
    BY <1>1, <1>4, <2>1, <2>3, <2>7, ReplaceClaims
  <2>9. /\ Apart(stack', nodes', syntaxTree')
        /\ Behind(stack', nodes', syntaxTree', pos' + 1)
    BY <2>5, <2>6, <2>8, PushApart
  <2> QED  BY <2>6, <2>9 DEF ClaimsInv, Unused
<1>9. CASE CombineOperand
  <2>1. f.fn = "operand" /\ control = "return" /\ Combine(f, value)
    BY <1>9 DEF CombineOperand, AtTop
  <2>2. Len(f.kids) >= 1  BY <1>3, <2>1
  <2> QED  BY <1>2, <2>1, <2>2, CombineClaims
<1>10. CASE CombineNested
  <2> DEFINE rhs == IF value = Nil THEN f.kids[2] ELSE value
  <2>1. f.fn = "nested" /\ control = "return" /\ Combine(f, rhs)
    BY <1>10 DEF CombineNested, AtTop
  <2>2. Len(f.kids) >= 1 /\ f.kids[2] \in Nat  BY <1>2, <1>3, <2>1
  <2>3. rhs \in Nat  BY <1>2, <2>2
  <2> HIDE DEF rhs
  <2> QED  BY <2>1, <2>2, <2>3, CombineClaims
<1> QED  BY <1>5, <1>6, <1>7, <1>8, <1>9, <1>10 DEF ParseOperators

-----------------------------------------------------------------------------
(* parse() and parsePrototype() *)

\* The loop of parse() goes on after an item, complete or dropped.
LEMMA LoopClaims ==
  ASSUME Apart(stack', nodes', syntaxTree'), Behind(stack', nodes', syntaxTree', pos')
  PROVE  (control' = "parse") => ClaimsInv'
  BY DEF ClaimsInv, Unused

LEMMA ParameterClaims ==
  ASSUME TokensInv, AddParameter PROVE ClaimsInv'
<1> DEFINE f == Last(stack)
           g == [f EXCEPT !.kids = Append(@, Len(nodes) + 1)]
           node == Node("param", pos + 1, <<>>)
<1>1. control = "parsePrototype"  BY DEF AddParameter
<1>2. /\ nodes \in Seq(NodeType) /\ syntaxTree \in Seq(DOMAIN nodes) /\ pos \in Nat
      /\ TypeOK /\ Len(nodes) \in Nat /\ pos + 1 \in Nat /\ pos + 1 <= pos + 1
  BY ClaimsNow
<1>3. f \in FrameType /\ f.kids \in Seq(Nat)
  BY <1>1, TopClaims
<1>4. f.fn \in Claiming
  BY <1>1 DEF TokensInv, ParserInv, TopMatchesControl, Claiming
<1>5. f.at < pos + 1
  BY <1>1, <1>4, TopClaims
<1>6. g \in FrameType /\ g.fn = f.fn /\ g.at = f.at
  <2>1. Append(f.kids, Len(nodes) + 1) \in Seq(Nat)  BY <1>2, <1>3
  <2> QED  BY <1>3, <2>1 DEF FrameType
<1>7. node \in NodeType /\ node.at = pos + 1
  <2>1. "param" \in NodeKinds /\ <<>> \in Seq(Nat)  BY DEF NodeKinds
  <2> QED  BY <1>2, <2>1, NodeIn
<1>8. /\ nodes' = Append(nodes, node) /\ stack' = Replace(g)
      /\ pos' \in {Reads(1), Reads(2)} /\ control' = control /\ syntaxTree' = syntaxTree
  BY DEF AddParameter
<1> HIDE DEF f, g, node
<1>9. pos' \in Nat /\ pos + 1 <= pos'
  <2>1. Stalk # NoToken  BY DEF AddParameter, Identifiers, NoToken
  <2> QED  BY <1>2, <1>8, <2>1, Ahead
<1>10. pos + 1 < pos' + 1 /\ pos + 1 <= pos' + 1 /\ pos' + 1 \in Nat
  <2>1. \A p, q \in Nat : p + 1 <= q => p + 1 < q + 1 /\ p + 1 <= q + 1 /\ q + 1 \in Nat
    OBVIOUS
  <2>2. pos \in Nat  BY <1>2
  <2> QED  BY <1>9, <2>1, <2>2
<1>11. /\ Replace(g) \in Seq(FrameType) /\ Apart(Replace(g), nodes, syntaxTree)
       /\ Behind(Replace(g), nodes, syntaxTree, pos + 1)
  BY <1>1, <1>2, <1>4, <1>5, <1>6, ReplaceClaims DEF f
<1>12. Behind(Replace(g), nodes, syntaxTree, pos' + 1)
  BY <1>2, <1>10, <1>11, BehindLater
<1>13. Free(Replace(g), nodes, syntaxTree, pos + 1)
  BY <1>2, <1>11, BehindFree
<1>14. Apart(stack', nodes', syntaxTree') /\ Behind(stack', nodes', syntaxTree', pos' + 1)
  BY <1>2, <1>7, <1>8, <1>10, <1>11, <1>12, <1>13, NodeApart
<1> QED  BY <1>1, <1>8, <1>14 DEF ClaimsInv, Unused

LEMMA EndPrototypeClaims ==
  ASSUME TokensInv, EndPrototype PROVE ClaimsInv'
<1> DEFINE f == Last(stack)
           s == Front(stack)
           node == Node("prototype", f.at, f.kids)
           root == Len(nodes) + 1
           h == Append(nodes, node)
<1>1. control = "parsePrototype"  BY DEF EndPrototype
<1>2. /\ nodes \in Seq(NodeType) /\ syntaxTree \in Seq(DOMAIN nodes) /\ pos \in Nat
      /\ TypeOK /\ Len(nodes) \in Nat
  BY ClaimsNow
<1>3. f.fn \in Claiming
  BY <1>1 DEF TokensInv, ParserInv, TopMatchesControl, Claiming
<1>4. /\ f.at \in Nat /\ f.kids \in Seq(Nat) /\ f.at < pos + 1
      /\ s \in Seq(FrameType) /\ Apart(s, nodes, syntaxTree)
      /\ Behind(s, nodes, syntaxTree, pos + 1) /\ Free(s, nodes, syntaxTree, f.at)
  BY <1>1, <1>3, TopClaims
<1>5. node \in NodeType /\ node.at = f.at
  <2>1. "prototype" \in NodeKinds  BY DEF NodeKinds
  <2> QED  BY <1>4, <2>1, NodeIn
<1>6. /\ nodes' = h /\ pos' = Reads(2)
      /\ \/ syntaxTree' = Append(syntaxTree, root) /\ stack' = <<>> /\ control' = "parse"
         \/ /\ stack' = << Frame("parseFunctionDefinition", 0, 0, <<root>>),
                           Frame("parseExpression", 0, 0, <<>>) >>
            /\ control' = "parsePrimary" /\ syntaxTree' = syntaxTree
  BY DEF EndPrototype
<1>7. pos' = pos + 2
  <2>1. Stalk # NoToken  BY DEF EndPrototype, NoToken
  <2> QED  BY <1>2, <1>6, <2>1, Ahead
<1> HIDE DEF f, s, node
<1>8. h \in Seq(NodeType) /\ Len(h) = root /\ DOMAIN nodes \subseteq DOMAIN h /\ root \in DOMAIN h
  BY <1>2, <1>5
<1>9. syntaxTree \in Seq(DOMAIN h)
  BY <1>2, <1>8, SeqMonotonic
<1>10. Apart(s, h, syntaxTree) /\ Behind(s, h, syntaxTree, pos + 1)
  BY <1>2, <1>4, <1>5, NodeApart
<1>11. Behind(s, h, syntaxTree, pos')
  <2>1. pos + 1 \in Nat /\ pos' \in Nat /\ pos + 1 <= pos'  BY <1>2, <1>7
  <2> QED  BY <1>4, <1>8, <1>10, <2>1, BehindLater
<1> HIDE DEF h, root
<1>12. CASE syntaxTree' = Append(syntaxTree, root) /\ stack' = <<>> /\ control' = "parse"
  BY <1>6, <1>8, <1>9, <1>10, <1>12, TreeApart, LoopClaims
<1>13. CASE /\ stack' = << Frame("parseFunctionDefinition", 0, 0, <<root>>),
                           Frame("parseExpression", 0, 0, <<>>) >>
            /\ control' = "parsePrimary" /\ syntaxTree' = syntaxTree
  <2>1. \A i \in 1 .. Len(stack') : stack'[i].fn \notin Claiming
    BY <1>13 DEF Frame, Claiming, Keywords
  <2>2. Apart(stack', nodes', syntaxTree') /\ Behind(stack', nodes', syntaxTree', pos')
    BY <1>6, <1>10, <1>11, <1>13, <2>1, NoClaims
  <2> QED  BY <1>13, <2>2 DEF ClaimsInv, Unused
<1> QED  BY <1>6, <1>12, <1>13

\* An item is complete, with these nodes after the others.
LEMMA ItemClaims ==
  ASSUME TokensInv, NEW h \in Seq(NodeType), Apart(<<>>, h, syntaxTree),
         Len(nodes) <= Len(h), Len(h) \in Nat \ {0},
         nodes' = h, syntaxTree' = Append(syntaxTree, Len(h)), stack' = <<>>, control' = "parse"
  PROVE  ClaimsInv'
<1>1. nodes \in Seq(NodeType) /\ syntaxTree \in Seq(DOMAIN nodes)  BY ClaimsNow
<1>2. DOMAIN nodes \subseteq DOMAIN h /\ Len(h) \in DOMAIN h
  BY <1>1
<1>3. syntaxTree \in Seq(DOMAIN h)
  BY <1>1, <1>2, SeqMonotonic
<1> QED  BY <1>2, <1>3, TreeApart, LoopClaims

\* A node without a token of its own, after the others.
LEMMA PlainNode ==
  ASSUME NEW h \in Seq(NodeType), NEW t \in Seq(DOMAIN h), Apart(<<>>, h, t),
         NEW kind \in NodeKinds, NEW kids \in Seq(Nat)
  PROVE  LET g == Append(h, Node(kind, 0, kids))
         IN  /\ g \in Seq(NodeType) /\ Len(g) = Len(h) + 1 /\ t \in Seq(DOMAIN g)
             /\ Apart(<<>>, g, t)
<1> DEFINE node == Node(kind, 0, kids)
           g == Append(h, node)
<1>1. node \in NodeType /\ node.at = 0  BY NodeIn
<1> HIDE DEF node
<1>2. g \in Seq(NodeType) /\ Len(g) = Len(h) + 1 /\ DOMAIN h \subseteq DOMAIN g
  BY <1>1
<1>3. Apart(<<>>, g, t)  BY <1>1, NodeApart
<1>4. t \in Seq(DOMAIN g)  BY <1>2, SeqMonotonic
<1> QED  BY <1>2, <1>3, <1>4 DEF node

LEMMA EndTopLevelClaims ==
  ASSUME TokensInv, EndTopLevel PROVE ClaimsInv'
<1>1. control = "return" /\ control' = "parse" /\ stack' = <<>> /\ pos' = pos
  BY DEF EndTopLevel, AtTop
<1>2. /\ nodes \in Seq(NodeType) /\ syntaxTree \in Seq(DOMAIN nodes)
      /\ Apart(stack, nodes, syntaxTree) /\ Len(nodes) \in Nat
      /\ value = Nil => Behind(stack, nodes, syntaxTree, pos)
  BY <1>1, ClaimsNow DEF Running, Outcomes, Unused
<1>3. \A i \in 1 .. Len(<<>>) : <<>>[i].fn \notin Claiming
  OBVIOUS
<1>4. Apart(<<>>, nodes, syntaxTree) /\ (value = Nil => Behind(<<>>, nodes, syntaxTree, pos))
  BY <1>2, <1>3, NoClaims
<1>5. CASE value = Nil
  BY <1>1, <1>4, <1>5, LoopClaims DEF EndTopLevel
<1>6. CASE value # Nil
  <2> DEFINE main == Len(nodes) + 1
             a == Node("prototype", 0, <<>>)
             b == Node("motif", 0, <<main, value>>)
             h == Append(nodes, a)
             g == Append(h, b)
  <2>1. nodes' = nodes \o <<a, b>> /\ syntaxTree' = Append(syntaxTree, main + 1)
    BY <1>6 DEF EndTopLevel
  <2>2. "prototype" \in NodeKinds /\ "motif" \in NodeKinds /\ <<>> \in Seq(Nat)
        /\ <<main, value>> \in Seq(Nat)
    <3>1. value \in Nat /\ main \in Nat  BY <1>2, Counters DEF TokensInv
    <3> QED  BY <3>1 DEF NodeKinds
  <2>3. h \in Seq(NodeType) /\ Len(h) = main /\ syntaxTree \in Seq(DOMAIN h)
        /\ Apart(<<>>, h, syntaxTree)
    BY <1>2, <1>4, <2>2, PlainNode
  <2> HIDE DEF h
  <2>4. g \in Seq(NodeType) /\ Len(g) = Len(h) + 1 /\ Apart(<<>>, g, syntaxTree)
    BY <2>2, <2>3, PlainNode
  <2>5. g = nodes \o <<a, b>>
    <3>1. a \in NodeType /\ b \in NodeType  BY <1>2, <2>2, NodeIn
    <3> HIDE DEF a, b
    <3> QED  BY <1>2, <3>1 DEF h
  <2> HIDE DEF g, a, b
  <2>6. nodes' = g /\ Len(g) = main + 1 /\ Len(g) \in Nat \ {0} /\ Len(nodes) <= Len(g)
    BY <1>2, <2>1, <2>3, <2>4, <2>5
  <2> QED  BY <1>1, <2>1, <2>4, <2>6, ItemClaims
<1> QED  BY <1>5, <1>6

LEMMA EndDefinitionClaims ==
  ASSUME TokensInv, EndDefinition PROVE ClaimsInv'
<1> DEFINE kids == Last(stack).kids \o (IF value = Nil THEN <<>> ELSE <<value>>)
           h == Append(nodes, Node("motif", 0, kids))
<1>1. /\ control = "return" /\ control' = "parse" /\ stack' = <<>>
      /\ nodes' = h /\ syntaxTree' = Append(syntaxTree, Len(nodes) + 1)
  BY DEF EndDefinition, AtTop
<1>2. /\ nodes \in Seq(NodeType) /\ syntaxTree \in Seq(DOMAIN nodes)
      /\ Apart(stack, nodes, syntaxTree) /\ Len(nodes) \in Nat /\ value \in Nat
  BY ClaimsNow, Counters DEF TokensInv
<1>3. \A i \in 1 .. Len(<<>>) : <<>>[i].fn \notin Claiming
  OBVIOUS
<1>4. Apart(<<>>, nodes, syntaxTree)
  BY <1>2, <1>3, NoClaims
<1>5. kids \in Seq(Nat) /\ "motif" \in NodeKinds
  <2>1. Last(stack).kids \in Seq(Nat)  BY <1>1, TopClaims
  <2>2. (IF value = Nil THEN <<>> ELSE <<value>>) \in Seq(Nat)  BY <1>2
  <2> QED  BY <2>1, <2>2 DEF NodeKinds
<1> HIDE DEF kids
<1>6. h \in Seq(NodeType) /\ Len(h) = Len(nodes) + 1 /\ Apart(<<>>, h, syntaxTree)
  BY <1>2, <1>4, <1>5, PlainNode
<1> HIDE DEF h
<1>7. Len(h) \in Nat \ {0} /\ Len(nodes) <= Len(h)  BY <1>2, <1>6
<1> QED  BY <1>1, <1>6, <1>7, ItemClaims

LEMMA ParseClaims ==
  ASSUME TokensInv, Parse \/ ParsePrototype PROVE ClaimsInv'
<1>1. /\ stack \in Seq(FrameType) /\ nodes \in Seq(NodeType) /\ pos \in Nat /\ TypeOK
      /\ Apart(stack, nodes, syntaxTree)
      /\ control = "parse" => stack = <<>> /\ Behind(stack, nodes, syntaxTree, pos)
  BY ClaimsNow, InLoopIsEmpty DEF Running, Outcomes, Unused, TokensInv
<1>2. CASE Finish \/ RejectPrototype \/ ExhaustMemory \/ RejectParameter
  BY <1>2, HaltClaims DEF Finish, RejectPrototype, ExhaustMemory, RejectParameter, Halt, Outcomes
<1>3. CASE SkipSeparator
  BY <1>1, <1>3, LoopClaims DEF SkipSeparator, InLoop, vars
<1>4. CASE DropLastBracket
  <2>1. /\ control = "parse" /\ control' = "parse" /\ pos' = Reads(1)
        /\ UNCHANGED <<stack, nodes, syntaxTree>>
    BY <1>4 DEF DropLastBracket, IsTopLevel, InLoop
  <2>2. Reads(1) \in Nat /\ pos <= Reads(1)  BY <1>1, ReadsOn
  <2>3. Behind(stack, nodes, syntaxTree, Reads(1))
    BY <1>1, <2>1, <2>2, BehindLater
  <2> QED  BY <1>1, <2>1, <2>3, LoopClaims
<1>5. CASE BeginTopLevel
  <2> DEFINE f == Frame("parseTopLevelExpression", 0, 0, <<>>)
  <2>1. f \in FrameType /\ f.fn \notin Claiming
    BY DEF Frame, FrameType, CallSites, Claiming, Keywords
  <2>2. control = "parse" /\ CallExpression(<<f>>, 0)
    BY <1>5 DEF BeginTopLevel, IsTopLevel, InLoop
  <2> HIDE DEF f
  <2>3. \A i \in 1 .. Len(<<f>>) : <<f>>[i].fn \notin Claiming
    BY <2>1
  <2>4. Apart(<<f>>, nodes, syntaxTree) /\ Behind(<<f>>, nodes, syntaxTree, pos)
    BY <1>1, <2>2, <2>3, NoClaims
  <2>5. <<f>> \in Seq(FrameType)  BY <2>1
  <2> QED  BY <1>1, <2>2, <2>4, <2>5, ReadsOn, CallClaims
<1>6. CASE BeginPrototype
  <2> DEFINE f == Frame(Current, pos + 1, 0, <<>>)
  <2>1. f \in FrameType /\ f.at = pos + 1
    BY <1>1, <1>6 DEF BeginPrototype, Frame, FrameType, CallSites
  <2>2. /\ control = "parse" /\ control' = "parsePrototype" /\ pos' = Reads(2)
        /\ stack' = <<f>> /\ UNCHANGED <<nodes, syntaxTree>> /\ Stalk # NoToken
    BY <1>6 DEF BeginPrototype, InLoop, Identifiers, NoToken
  <2>3. pos' = pos + 2  BY <1>1, <2>2, Ahead
  <2>4. /\ pos + 1 \in Nat /\ pos <= pos + 1
        /\ pos' + 1 \in Nat /\ pos <= pos' + 1 /\ pos + 1 < pos' + 1
    BY <1>1, <2>3
  <2>5. stack = <<>> /\ Behind(stack, nodes, syntaxTree, pos)
    BY <1>1, <2>2
  <2>6. Free(stack, nodes, syntaxTree, pos + 1) /\ Behind(stack, nodes, syntaxTree, pos' + 1)
    BY <1>1, <2>4, <2>5, BehindFree, BehindLater
  <2> HIDE DEF f
  <2>7. Append(stack, f) = <<f>>
    BY <2>5
  <2>8. Apart(stack', nodes', syntaxTree') /\ Behind(stack', nodes', syntaxTree', pos' + 1)
    BY <1>1, <2>1, <2>2, <2>4, <2>6, <2>7, PushApart
  <2> QED  BY <2>2, <2>8 DEF ClaimsInv, Unused
<1>7. CASE EndTopLevel \/ EndDefinition
  BY <1>7, EndTopLevelClaims, EndDefinitionClaims
<1>8. CASE AddParameter \/ EndPrototype
  BY <1>8, ParameterClaims, EndPrototypeClaims
<1> QED
  BY <1>2, <1>3, <1>4, <1>5, <1>6, <1>7, <1>8 DEF Parse, ParsePrototype

-----------------------------------------------------------------------------
(* The functions of the parser leave the cursor in different places, yet   *)
(* none makes a second node of a token within an item, for every input and *)
(* every limit.                                                            *)
THEOREM TokensMakeOneNode == Spec => []TokensUsedOnce
<1>1. Init => TokensInv
  <2> SUFFICES ASSUME Init PROVE TokensInv
    OBVIOUS
  <2>1. ParserInv  BY InitInv
  <2>2. /\ stack = <<>> /\ nodes = <<>> /\ syntaxTree = <<>>
    BY DEF Init, Fresh
  <2>3. Apart(<<>>, <<>>, <<>>) /\ \A p : Behind(<<>>, <<>>, <<>>, p)
    BY DEF Apart, Behind, OnceIn
  <2> QED  BY <2>1, <2>2, <2>3 DEF TokensInv, ClaimsInv
<1>2. TokensInv /\ [Next]_vars => TokensInv'
  <2> SUFFICES ASSUME TokensInv, [Next]_vars PROVE TokensInv'
    OBVIOUS
  <2>1. ParserInv'  BY NextInv DEF TokensInv
  <2>2. ASSUME UNCHANGED vars \/ Ended PROVE ClaimsInv'
    BY <2>2 DEF Ended, vars, TokensInv, ClaimsInv, Running
  <2>3. ASSUME Parse \/ ParsePrototype PROVE ClaimsInv'
    BY <2>3, ParseClaims
  <2>4. ASSUME ParsePrimary PROVE ClaimsInv'
    BY <2>4, PrimaryClaims
  <2>5. ASSUME ParseOperators PROVE ClaimsInv'
    BY <2>5, OperatorsClaims
  <2>6. ASSUME Resume PROVE ClaimsInv'
    BY <2>6, ResumeClaims
  <2>7. ClaimsInv'
    BY <2>2, <2>3, <2>4, <2>5, <2>6 DEF Next
  <2> QED  BY <2>1, <2>7 DEF TokensInv
<1>3. TokensInv => TokensUsedOnce
  <2> SUFFICES ASSUME TokensInv PROVE TokensUsedOnce
    OBVIOUS
  <2>1. OnceIn(nodes, syntaxTree) /\ DOMAIN nodes = 1 .. Len(nodes)
    BY ClaimsNow DEF TokensInv, ClaimsInv, Apart
  <2>2. \A k \in DOMAIN syntaxTree : syntaxTree[k] \in Range(syntaxTree)
    BY DEF Range
  <2> QED  BY <2>1, <2>2 DEF OnceIn, TokensUsedOnce
<1> QED  BY <1>1, <1>2, <1>3, PTL DEF Spec

-----------------------------------------------------------------------------
(* How deep the calls are *)

\* Two calls for a token at most.  An operand that waits is counted by its
\* operator, because parseBinaryOperatorRHS() calls itself with nothing read.
Depths(s, p) ==
  /\ Len(s) <= 2 * p
  /\ \A i \in 1 .. Len(s) : s[i].fn = "operand" => i + 2 <= 2 * s[i].at /\ s[i].at <= p

DepthInv ==
  \/ Runaway
  \/ /\ Running => Depths(stack, pos)
     /\ control = "overflowed" => StackLimit < 2 * (Len(tokens) + 1)

LEMMA PushDepth ==
  ASSUME NEW s \in Seq(FrameType), NEW p \in Nat, NEW q \in Nat, p <= q, Depths(s, p),
         NEW f \in FrameType, Len(s) + 1 <= 2 * q,
         f.fn = "operand" => Len(s) + 3 <= 2 * f.at /\ f.at <= q
  PROVE  Append(s, f) \in Seq(FrameType) /\ Len(Append(s, f)) = Len(s) + 1 /\ Depths(Append(s, f), q)
<1> DEFINE u == Append(s, f)
<1>1. PICK k \in Nat : k = Len(s)  OBVIOUS
<1>2. /\ u \in Seq(FrameType) /\ Len(u) = k + 1 /\ u[k + 1] = f
      /\ \A i \in 1 .. k : u[i] = s[i]
  BY <1>1, Appended
<1> HIDE DEF u
<1>3. ASSUME NEW i \in 1 .. k + 1, u[i].fn = "operand"
      PROVE  i + 2 <= 2 * u[i].at /\ u[i].at <= q
  <2>1. i \in 1 .. k \/ i = k + 1  BY <1>1
  <2>2. CASE i \in 1 .. k
    <3>1. u[i] = s[i] /\ s[i] \in FrameType /\ i + 2 <= 2 * s[i].at /\ s[i].at <= p
      BY <1>1, <1>2, <1>3, <2>2 DEF Depths
    <3>2. s[i].at \in Nat  BY <3>1 DEF FrameType
    <3> QED  BY <3>1, <3>2
  <2>3. CASE i = k + 1
    <3>1. f.at \in Nat  BY DEF FrameType
    <3> QED  BY <1>1, <1>2, <1>3, <2>3, <3>1
  <2> QED  BY <2>1, <2>2, <2>3
<1> QED  BY <1>1, <1>2, <1>3 DEF Depths, u

LEMMA PopDepth ==
  ASSUME NEW s \in Seq(FrameType), s # <<>>, NEW p \in Nat, Depths(s, p)
  PROVE  /\ Front(s) \in Seq(FrameType) /\ Len(Front(s)) = Len(s) - 1 /\ Len(s) \in Nat \ {0}
         /\ Depths(Front(s), p) /\ Len(s) <= 2 * p /\ Last(s) \in FrameType
         /\ Last(s).fn = "operand" => Len(s) + 2 <= 2 * Last(s).at /\ Last(s).at <= p
<1> DEFINE u == Front(s)
<1>1. PICK k \in Nat \ {0} : k = Len(s)  OBVIOUS
<1>2. /\ u \in Seq(FrameType) /\ Len(u) = k - 1 /\ Last(s) = s[k] /\ Last(s) \in FrameType
      /\ \A i \in 1 .. k - 1 : u[i] = s[i]
  BY <1>1, FrontLast
<1> HIDE DEF u
<1>3. k <= 2 * p /\ k - 1 <= 2 * p
  BY <1>1 DEF Depths
<1>4. \A i \in 1 .. k - 1 : i \in 1 .. k
  BY <1>1
<1>5. k \in 1 .. k  BY <1>1
<1>6. Depths(u, p)
  BY <1>1, <1>2, <1>3, <1>4 DEF Depths
<1> QED  BY <1>1, <1>2, <1>3, <1>5, <1>6 DEF Depths, u

\* What is so now, when no operator is being met.
LEMMA DepthNow ==
  ASSUME ParserInv, DepthInv, ~Runaway, Running
  PROVE  /\ TypeOK /\ pos \in Nat \ {0} /\ stack \in Seq(FrameType) /\ Depths(stack, pos)
         /\ Len(stack) \in Nat /\ Len(stack) <= 2 * pos
         /\ stack # <<>> =>
              /\ Front(stack) \in Seq(FrameType) /\ Len(Front(stack)) = Len(stack) - 1
              /\ Depths(Front(stack), pos) /\ Last(stack) \in FrameType
              /\ Last(stack).fn = "operand" =>
                   Len(stack) + 2 <= 2 * Last(stack).at /\ Last(stack).at <= pos
<1>1. TypeOK /\ pos \in Nat \ {0} /\ stack \in Seq(FrameType) /\ Depths(stack, pos)
  BY DEF ParserInv, WellFormed, TypeOK, DepthInv
<1> QED  BY <1>1, PopDepth DEF Depths

-----------------------------------------------------------------------------
(* The ways a step ends *)

\* A call that has read something since the calls in s were that deep.
LEMMA CallDepth ==
  ASSUME TypeOK, NEW s \in Seq(FrameType), NEW p \in Nat, NEW n \in Nat, p <= Reads(n),
         Depths(s, p), Len(s) + 1 <= 2 * Reads(n), CallExpression(s, n)
  PROVE  DepthInv'
<1> DEFINE f == Frame("parseExpression", 0, 0, <<>>)
<1>1. f \in FrameType /\ f.fn # "operand"
  BY DEF Frame, FrameType, CallSites
<1>2. stack' = Append(s, f) /\ control' = "parsePrimary" /\ pos' = Reads(n)
  BY DEF CallExpression
<1> HIDE DEF f
<1>3. Reads(n) \in Nat  BY ReadsOn
<1>4. Depths(Append(s, f), Reads(n))
  BY <1>1, <1>3, PushDepth
<1>5. Depths(stack', pos')  BY <1>2, <1>4
<1> QED  BY <1>2, <1>5 DEF DepthInv, Depths

\* The calls in s are no deeper than they were and the cursor is no further back.
LEMMA BackDepth ==
  ASSUME TypeOK, NEW s \in Seq(FrameType), Depths(s, pos), NEW n \in Nat, pos' = Reads(n),
         stack' = s, control' # "overflowed"
  PROVE  DepthInv'
<1>1. pos \in Nat /\ Reads(n) \in Nat /\ pos <= Reads(n)  BY ReadsOn
<1>2. PICK k \in Nat : k = Len(s)  OBVIOUS
<1>3. ASSUME NEW i \in 1 .. k, s[i].fn = "operand"
      PROVE  i + 2 <= 2 * s[i].at /\ s[i].at <= Reads(n)
  <2>1. s[i] \in FrameType  BY <1>2
  <2>2. s[i].at \in Nat  BY <2>1 DEF FrameType
  <2>3. i + 2 <= 2 * s[i].at /\ s[i].at <= pos  BY <1>2, <1>3 DEF Depths
  <2> QED  BY <1>1, <2>2, <2>3
<1>4. k <= 2 * pos  BY <1>2 DEF Depths
<1>5. k <= 2 * Reads(n)  BY <1>1, <1>2, <1>4
<1>6. Depths(stack', pos')
  BY <1>2, <1>3, <1>5 DEF Depths
<1> QED  BY <1>6 DEF DepthInv, Depths

\* The call on top is replaced by one that is no operand, or by an operand at
\* the operator read for it.
LEMMA ReplaceDepth ==
  ASSUME ParserInv, DepthInv, ~Runaway, Running, stack # <<>>, NEW f \in FrameType,
         NEW q \in Nat, pos <= q,
         f.fn = "operand" => Len(stack) + 2 <= 2 * f.at /\ f.at <= q
  PROVE  /\ Replace(f) \in Seq(FrameType) /\ Len(Replace(f)) = Len(stack)
         /\ Depths(Replace(f), q)
<1>1. /\ pos \in Nat /\ Len(stack) \in Nat /\ Len(stack) <= 2 * pos
      /\ Front(stack) \in Seq(FrameType) /\ Len(Front(stack)) = Len(stack) - 1
      /\ Depths(Front(stack), pos)
  BY DepthNow
<1>2. PICK k \in Nat : k = Len(stack)  BY <1>1
<1>3. (k - 1) + 1 = k /\ (k - 1) + 3 = k + 2 /\ k <= 2 * q
  BY <1>1, <1>2
<1>4. /\ Append(Front(stack), f) \in Seq(FrameType)
      /\ Len(Append(Front(stack), f)) = (k - 1) + 1
      /\ Depths(Append(Front(stack), f), q)
  BY <1>1, <1>2, <1>3, PushDepth
<1> QED  BY <1>2, <1>3, <1>4 DEF Replace
-----------------------------------------------------------------------------
(* Every step *)

\* Which actions a step can be.
LEMMA WhoRuns ==
  ASSUME Next
  PROVE  /\ control = "parse" => \/ Finish \/ SkipSeparator \/ BeginPrototype \/ RejectPrototype
                                 \/ DropLastBracket \/ BeginTopLevel \/ ExhaustMemory
         /\ control = "parsePrimary" => ParsePrimary
         /\ control = RHS => TakeOperator \/ EndOperators
         /\ control = "return" /\ Last(stack).fn = "parseExpression" => BeginOperators \/ PropagateNil
         /\ control = "return" /\ Last(stack).fn = "parseTopLevelExpression" => EndTopLevel
         /\ control \in Outcomes => UNCHANGED vars
  BY DEF Next, Parse, Finish, SkipSeparator, BeginPrototype, RejectPrototype, DropLastBracket,
     BeginTopLevel, ExhaustMemory, IsTopLevel, InLoop, EndTopLevel, EndDefinition,
     ParsePrototype, AddParameter, EndPrototype, RejectParameter, ParsePrimary, AtPrimary,
     Overflow, NoPrimary, Number, Variable, CallWithoutArguments, CallCutShort,
     CallWithArguments, IsCall, BeginTernary, OperatorAsPrimary, BeginParentheses,
     BeginCurlyBrackets, UnknownToken, ParseOperators, BeginOperators, TakeOperator,
     EndOperators, ClimbOperators, CombineOperand, CombineNested, Resume, PropagateNil,
     EndArguments, NextArgument, RejectArguments, AtArgument, EndCondition, EndThen, EndElse,
     EndParentheses, EndCurlyBrackets, AtTop, Ended, Running, Outcomes, RHS

LEMMA RunawayStays ==
  ASSUME TypeOK, Runaway, Next
  PROVE  Runaway'
<1>1. Current \in Operators /\ control \in {"parsePrimary"} \cup Outcomes
  BY DEF Runaway
<1>2. ASSUME UNCHANGED <<tokens, pos>>, control' \in {"parsePrimary"} \cup Outcomes
      PROVE  Runaway'
  BY <1>1, <1>2 DEF Runaway, Current, TokenAt
<1>3. CASE control = "parsePrimary"
  <2>1. Overflow \/ OperatorAsPrimary
    <3>1. ParsePrimary  BY <1>3, WhoRuns
    <3> QED
      BY <1>1, <3>1 DEF ParsePrimary, NoPrimary, Number, Variable, CallWithoutArguments,
         CallCutShort, CallWithArguments, IsCall, BeginTernary, BeginParentheses,
         BeginCurlyBrackets, UnknownToken, Operators, Keywords, Identifiers, NoToken
  <2>2. CASE Overflow
    BY <1>2, <2>2 DEF Overflow, Halt, Outcomes
  <2>3. CASE OperatorAsPrimary
    BY <1>2, <2>3, NoRead DEF OperatorAsPrimary, CallExpression
  <2> QED  BY <2>1, <2>2, <2>3
<1>4. CASE control \in Outcomes
  <2>1. UNCHANGED vars
    BY <1>4, WhoRuns
  <2> QED  BY <1>1, <1>2, <1>4, <2>1 DEF vars
<1> QED  BY <1>1, <1>3, <1>4

LEMMA PrimaryDepth ==
  ASSUME ParserInv, DepthInv, ~Runaway, ParsePrimary
  PROVE  DepthInv'
<1>1. control = "parsePrimary"
  BY DEF ParsePrimary, Overflow, UnknownToken, NoPrimary, Number, Variable,
     CallWithoutArguments, CallCutShort, CallWithArguments, BeginTernary,
     OperatorAsPrimary, BeginParentheses, BeginCurlyBrackets, IsCall, AtPrimary
<1>2. Running /\ Current \notin Operators
  BY <1>1 DEF Running, Outcomes, Runaway
<1>3. /\ TypeOK /\ pos \in Nat \ {0} /\ stack \in Seq(FrameType) /\ Depths(stack, pos)
      /\ Len(stack) \in Nat /\ Len(stack) <= 2 * pos
  BY <1>2, DepthNow
<1>4. CASE Overflow
  <2>1. control' = "overflowed" /\ UNCHANGED tokens /\ StackLimit < Len(stack)
    BY <1>3, <1>4, LimitsAssumption DEF Overflow, Halt
  <2>2. PICK k \in Nat : k = Len(tokens)  BY <1>3 DEF TypeOK
  <2>3. pos <= k + 1  BY <1>3, <2>2 DEF TypeOK
  <2>4. StackLimit < 2 * (k + 1)  BY <1>3, <2>1, <2>3, LimitsAssumption
  <2> QED  BY <2>1, <2>2, <2>4 DEF DepthInv, Running, Outcomes
<1>5. ASSUME NEW n \in Nat, pos' = Reads(n), stack' = stack, control' # "overflowed"
      PROVE  DepthInv'
  BY <1>3, <1>5, BackDepth
<1>6. CASE \/ UnknownToken \/ NoPrimary \/ Number \/ Variable
           \/ CallWithoutArguments \/ CallCutShort
  <2>1. CASE UnknownToken
    <3>1. pos' = Reads(0) /\ stack' = stack /\ control' # "overflowed"
      BY <1>3, <2>1, NoRead DEF UnknownToken, Halt
    <3> QED  BY <1>5, <3>1
  <2>2. CASE NoPrimary \/ Number \/ Variable
    <3>1. pos' = Reads(0) /\ stack' = stack /\ control' # "overflowed"
      BY <2>2 DEF NoPrimary, Number, Variable, Return, ReturnNew
    <3> QED  BY <1>5, <3>1
  <2>3. CASE CallWithoutArguments \/ CallCutShort
    <3>1. pos' = Reads(2) /\ stack' = stack /\ control' # "overflowed"
      BY <2>3 DEF CallWithoutArguments, CallCutShort, Return, ReturnNew
    <3> QED  BY <1>5, <3>1
  <2> QED  BY <1>6, <2>1, <2>2, <2>3
<1>7. ASSUME NEW fn \in {"argument", "condition", "parentheses", "curlyBrackets"},
             NEW at \in Nat, NEW n \in 1 .. 2, Current # NoToken,
             CallExpression(Append(stack, Frame(fn, at, 0, <<>>)), n)
      PROVE  DepthInv'
  <2> DEFINE f == Frame(fn, at, 0, <<>>)
  <2>1. f \in FrameType /\ f.fn # "operand"
    <3>1. fn \in CallSites /\ fn # "operand" /\ <<>> \in Seq(Nat) /\ 0 \in Nat  BY DEF CallSites
    <3> QED  BY <3>1 DEF Frame, FrameType
  <2> HIDE DEF f
  <2>2. Reads(n) \in Nat /\ pos + 1 <= Reads(n)
    <3>1. PICK k \in Nat : k = Len(tokens)  BY <1>3 DEF TypeOK
    <3>2. pos <= k  BY <1>3, <1>7, <3>1 DEF Current, TokenAt
    <3> QED  BY <1>3, <3>1, <3>2 DEF Reads
  <2>3. PICK q \in Nat : q = Reads(n)  BY <2>2
  <2>4. pos <= q /\ Len(stack) + 1 <= 2 * q /\ (Len(stack) + 1) + 1 <= 2 * q
    BY <1>3, <2>2, <2>3
  <2>5. /\ Append(stack, f) \in Seq(FrameType) /\ Len(Append(stack, f)) = Len(stack) + 1
        /\ Depths(Append(stack, f), q)
    BY <1>3, <2>1, <2>4, PushDepth
  <2> DEFINE u == Append(stack, f)
  <2>6. CallExpression(u, n)  BY <1>7 DEF f
  <2>7. u \in Seq(FrameType) /\ Depths(u, q) /\ q <= Reads(n) /\ Len(u) + 1 <= 2 * Reads(n)
    <3>1. q <= q  BY <2>3
    <3> HIDE DEF u
    <3> QED  BY <2>3, <2>4, <2>5, <3>1 DEF u
  <2>8. n \in Nat  OBVIOUS
  <2> HIDE DEF u
  <2> QED  BY <1>3, <2>3, <2>6, <2>7, <2>8, CallDepth
<1>8. CASE CallWithArguments \/ BeginTernary \/ BeginCurlyBrackets
  <2>1. Current # NoToken
    BY <1>8 DEF CallWithArguments, IsCall, BeginTernary, BeginCurlyBrackets, NoToken
  <2>2. PICK fn \in {"argument", "condition", "parentheses", "curlyBrackets"}, at \in Nat, n \in 1 .. 2 :
          CallExpression(Append(stack, Frame(fn, at, 0, <<>>)), n)
    <3>1. pos \in Nat /\ 0 \in Nat /\ 1 \in 1 .. 2 /\ 2 \in 1 .. 2  BY <1>3
    <3> QED  BY <1>8, <3>1 DEF CallWithArguments, BeginTernary, BeginCurlyBrackets
  <2> QED  BY <1>7, <2>1, <2>2
<1>9. CASE BeginParentheses
  <2>1. Current # NoToken  BY <1>9 DEF BeginParentheses, NoToken
  <2>2. pos + 2 \in Nat  BY <1>3
  <2>3. CASE Return(Nil, stack, 2)
    BY <1>5, <2>3 DEF Return
  <2> QED  BY <1>7, <1>9, <2>1, <2>2, <2>3 DEF BeginParentheses
<1>10. ~OperatorAsPrimary
  BY <1>2 DEF OperatorAsPrimary
<1> QED  BY <1>4, <1>6, <1>8, <1>9, <1>10 DEF ParsePrimary

LEMMA OperatorsDepth ==
  ASSUME ParserInv, DepthInv, ~Runaway, ParseOperators
  PROVE  DepthInv'
<1> DEFINE f == Last(stack)
<1>1. control \in {"return", RHS}
  BY DEF ParseOperators, BeginOperators, TakeOperator, EndOperators, ClimbOperators,
     CombineOperand, CombineNested, AtTop, RHS
<1>2. stack # <<>> /\ Running
  BY <1>1 DEF ParserInv, TopMatchesControl, Running, Outcomes, RHS
<1>3. /\ TypeOK /\ pos \in Nat \ {0} /\ stack \in Seq(FrameType) /\ Depths(stack, pos)
      /\ Len(stack) \in Nat /\ Len(stack) <= 2 * pos
      /\ Front(stack) \in Seq(FrameType) /\ Depths(Front(stack), pos) /\ f \in FrameType
      /\ f.fn = "operand" => Len(stack) + 2 <= 2 * f.at /\ f.at <= pos
  BY <1>2, DepthNow
<1>4. /\ value \in Nat /\ Len(nodes) + 1 \in Nat /\ f.at \in Nat /\ f.prec \in Nat
      /\ f.kids \in Seq(Nat) /\ pos + 1 \in Nat /\ FrameOK(f, Len(nodes))
  <2>1. FrameOK(f, Len(nodes))  BY <1>2, FrameFacts DEF ParserInv
  <2>2. value \in Nat /\ Len(nodes) + 1 \in Nat /\ pos + 1 \in Nat  BY Counters
  <2> QED  BY <1>3, <2>1, <2>2 DEF FrameType
<1>5. ASSUME NEW g \in FrameType, g.fn # "operand", NEW n \in Nat, pos' = Reads(n),
             stack' = Replace(g), control' # "overflowed"
      PROVE  DepthInv'
  <2>1. pos <= pos  BY <1>3
  <2>2. Replace(g) \in Seq(FrameType) /\ Depths(Replace(g), pos)
    BY <1>2, <1>3, <1>5, <2>1, ReplaceDepth
  <2> QED  BY <1>3, <1>5, <2>2, BackDepth
<1>6. CASE BeginOperators
  <2> DEFINE g == LoopFrame(0, value)
  <2>1. g \in FrameType /\ g.fn # "operand"
    <3>1. 0 \in Nat  OBVIOUS
    <3> QED  BY <1>4, <3>1, LoopFrameIn DEF LoopFrame, Frame
  <2>2. stack' = Replace(g) /\ control' # "overflowed" /\ pos' = Reads(0)
    BY <1>3, <1>6, NoRead DEF BeginOperators
  <2> HIDE DEF g
  <2> QED  BY <1>5, <2>1, <2>2
<1>7. CASE TakeOperator
  <2> DEFINE g == Frame("operand", pos + 1, f.prec, f.kids)
  <2>1. g \in FrameType /\ g.at = pos + 1
    BY <1>4 DEF Frame, FrameType, CallSites
  <2>2. stack' = Replace(g) /\ control' = "parsePrimary" /\ pos' = Reads(2)
    BY <1>7 DEF TakeOperator
  <2> HIDE DEF g
  <2>3. Reads(2) = pos + 2
    <3>1. Stalk # NoToken  BY <1>7 DEF TakeOperator, Climbs, Operators, NoToken
    <3> QED  BY <1>3, <3>1, Ahead
  <2>4. /\ pos + 2 \in Nat /\ pos <= pos + 2 /\ Len(stack) + 2 <= 2 * (pos + 1)
        /\ pos + 1 <= pos + 2
    BY <1>3
  <2>5. Depths(Replace(g), pos + 2)
    BY <1>2, <2>1, <2>4, ReplaceDepth
  <2>6. Depths(stack', pos')  BY <2>2, <2>3, <2>5
  <2> QED  BY <2>2, <2>6 DEF DepthInv, Depths
<1>8. CASE EndOperators
  BY <1>3, <1>8, BackDepth DEF EndOperators, Return
<1>9. CASE ClimbOperators
  <2> DEFINE g == Frame("nested", f.at, f.prec, Append(f.kids, value))
             h == LoopFrame(Precedence(tokens[f.at]) + 1, value)
  <2>1. f.fn = "operand"  BY <1>9 DEF ClimbOperators, AtTop
  <2>2. g \in FrameType /\ g.fn # "operand"
    <3>1. Append(f.kids, value) \in Seq(Nat)  BY <1>4
    <3> QED  BY <1>4, <3>1 DEF Frame, FrameType, CallSites
  <2>3. h \in FrameType /\ h.fn # "operand"
    <3>1. tokens[f.at] \in Operators  BY <1>4, <2>1 DEF FrameOK
    <3>2. Precedence(tokens[f.at]) \in Nat  BY <3>1, Precedences
    <3>3. Precedence(tokens[f.at]) + 1 \in Nat  BY <3>2
    <3> QED  BY <1>4, <3>3, LoopFrameIn DEF LoopFrame, Frame
  <2>4. stack' = Append(Replace(g), h) /\ control' # "overflowed" /\ pos' = Reads(0)
    BY <1>3, <1>9, NoRead DEF ClimbOperators
  <2> HIDE DEF g, h
  <2>5. pos <= pos  BY <1>3
  <2>6. Replace(g) \in Seq(FrameType) /\ Len(Replace(g)) = Len(stack) /\ Depths(Replace(g), pos)
    BY <1>2, <1>3, <2>2, <2>5, ReplaceDepth
  <2>7. Len(Replace(g)) + 1 <= 2 * pos
    <3>1. Len(stack) + 2 <= 2 * f.at /\ f.at <= pos  BY <1>3, <2>1
    <3>2. Len(stack) + 1 <= 2 * pos  BY <1>3, <1>4, <3>1
    <3> QED  BY <2>6, <3>2
  <2>8. Append(Replace(g), h) \in Seq(FrameType) /\ Depths(Append(Replace(g), h), pos)
    BY <1>3, <2>3, <2>5, <2>6, <2>7, PushDepth
  <2> QED  BY <1>3, <2>4, <2>8, BackDepth
<1>10. ASSUME NEW rhs, Combine(f, rhs)
       PROVE  DepthInv'
  <2> DEFINE g == LoopFrame(f.prec, Len(nodes) + 1)
  <2>1. g \in FrameType /\ g.fn # "operand"
    BY <1>4, LoopFrameIn DEF LoopFrame, Frame
  <2>2. stack' = Replace(g) /\ control' # "overflowed" /\ pos' = Reads(1)
    BY <1>10 DEF Combine
  <2> HIDE DEF g
  <2> QED  BY <1>5, <2>1, <2>2
<1>11. CASE CombineOperand \/ CombineNested
  BY <1>10, <1>11 DEF CombineOperand, CombineNested
<1> QED  BY <1>6, <1>7, <1>8, <1>9, <1>11 DEF ParseOperators

LEMMA ResumeDepth ==
  ASSUME ParserInv, DepthInv, ~Runaway, Resume
  PROVE  DepthInv'
<1> DEFINE f == Last(stack)
<1>1. control = "return"
  BY DEF Resume, PropagateNil, EndArguments, NextArgument, RejectArguments, EndCondition,
     EndThen, EndElse, EndParentheses, EndCurlyBrackets, AtTop, AtArgument
<1>2. stack # <<>> /\ Running
  BY <1>1 DEF ParserInv, TopMatchesControl, Running, Outcomes
<1>3. /\ TypeOK /\ pos \in Nat \ {0} /\ stack \in Seq(FrameType) /\ Depths(stack, pos)
      /\ Len(stack) \in Nat /\ Len(stack) <= 2 * pos
      /\ Front(stack) \in Seq(FrameType) /\ Depths(Front(stack), pos) /\ f \in FrameType
  BY <1>2, DepthNow
<1>4. value \in Nat /\ f.at \in Nat /\ f.kids \in Seq(Nat) /\ Append(f.kids, value) \in Seq(Nat)
  <2>1. value \in Nat /\ f.at \in Nat /\ f.kids \in Seq(Nat)
    BY <1>3, Counters DEF FrameType
  <2> QED  BY <2>1
<1>5. CASE control' \in Outcomes \ {"overflowed"}
  BY <1>5 DEF DepthInv, Running
<1>6. ASSUME NEW n \in 0 .. 1, pos' = Reads(n), stack' = Front(stack), control' # "overflowed"
      PROVE  DepthInv'
  BY <1>3, <1>6, BackDepth
<1>7. ASSUME NEW g \in FrameType, g.fn # "operand", NEW n \in 1 .. 2,
             Current # NoToken \/ Stalk # NoToken, CallExpression(Replace(g), n)
      PROVE  DepthInv'
  <2>1. Reads(n) \in Nat /\ pos + 1 <= Reads(n)
    <3>0. Len(tokens) \in Nat  BY <1>3 DEF TypeOK
    <3>1. PICK k \in Nat : k = Len(tokens)  BY <3>0
    <3>2. pos <= k  BY <1>3, <1>7, <3>1 DEF Current, Stalk, TokenAt
    <3> QED  BY <1>3, <3>1, <3>2 DEF Reads
  <2>2. PICK q \in Nat : q = Reads(n)  BY <2>1
  <2>3. pos <= q /\ Len(stack) + 1 <= 2 * q /\ q <= q  BY <1>3, <2>1, <2>2
  <2> DEFINE u == Replace(g)
  <2>4. u \in Seq(FrameType) /\ Len(u) = Len(stack) /\ Depths(u, q)
    BY <1>2, <1>7, <2>3, ReplaceDepth
  <2>5. CallExpression(u, n) /\ n \in Nat  BY <1>7
  <2> HIDE DEF u
  <2>6. q <= Reads(n) /\ Len(u) + 1 <= 2 * Reads(n)
    BY <2>2, <2>3, <2>4
  <2> QED  BY <1>3, <2>2, <2>4, <2>5, <2>6, CallDepth
<1>8. CASE PropagateNil \/ EndArguments \/ EndElse \/ EndParentheses \/ EndCurlyBrackets
  <2>1. \/ control' \in Outcomes \ {"overflowed"}
        \/ \E n \in 0 .. 1 : pos' = Reads(n) /\ stack' = Front(stack) /\ control' # "overflowed"
    <3>1. 0 \in 0 .. 1 /\ 1 \in 0 .. 1  OBVIOUS
    <3>2. CASE EndArguments
      <4>1. PICK n \in 0 .. 1 : n = IF Current = ")" THEN 0 ELSE 1  BY <3>1
      <4>2. pos' = Reads(n) /\ stack' = Front(stack) /\ control' = "return"
        BY <3>2, <4>1 DEF EndArguments, ReturnNew
      <4> QED  BY <4>2
    <3>3. CASE PropagateNil
      BY <3>1, <3>3 DEF PropagateNil, Return
    <3>4. CASE EndElse
      BY <3>1, <3>4 DEF EndElse, ReturnNew, Halt, Outcomes
    <3>5. CASE EndParentheses \/ EndCurlyBrackets
      BY <3>1, <3>5 DEF EndParentheses, EndCurlyBrackets, Return, Halt, Outcomes
    <3> QED  BY <1>8, <3>2, <3>3, <3>4, <3>5
  <2> QED  BY <1>5, <1>6, <2>1
<1>9. CASE NextArgument
  <2> DEFINE g == [f EXCEPT !.kids = Append(@, value)]
  <2>1. g \in FrameType /\ g.fn # "operand"
    <3>1. f.fn = "argument"  BY <1>9 DEF NextArgument, AtArgument, AtTop
    <3>2. f \in [fn : CallSites, at : Nat, prec : Nat, kids : Seq(Nat)]  BY <1>3 DEF FrameType
    <3> QED  BY <1>4, <3>1, <3>2 DEF FrameType
  <2>2. CallExpression(Replace(g), 1)
    BY <1>9 DEF NextArgument
  <2>3. Stalk # NoToken
    BY <1>9 DEF NextArgument, NoToken
  <2>4. 1 \in 1 .. 2
    OBVIOUS
  <2> HIDE DEF g
  <2> QED  BY <1>7, <2>1, <2>2, <2>3, <2>4
<1>10. CASE EndCondition
  <2> DEFINE g == Frame("then", f.at, 0, <<value>>)
  <2>1. g \in FrameType /\ g.fn # "operand"
    BY <1>4 DEF Frame, FrameType, CallSites
  <2>2. \/ control' \in Outcomes \ {"overflowed"}
        \/ CallExpression(Replace(g), 1) /\ Current # NoToken
    BY <1>10 DEF EndCondition, Halt, Outcomes, NoToken
  <2>3. 1 \in 1 .. 2  OBVIOUS
  <2> HIDE DEF g
  <2> QED  BY <1>5, <1>7, <2>1, <2>2, <2>3
<1>11. CASE EndThen
  <2> DEFINE g == Frame("else", f.at, 0, Append(f.kids, value))
  <2>1. g \in FrameType /\ g.fn # "operand"
    BY <1>4 DEF Frame, FrameType, CallSites
  <2>2. \/ control' \in Outcomes \ {"overflowed"}
        \/ CallExpression(Replace(g), 2) /\ Stalk # NoToken
    BY <1>11 DEF EndThen, Halt, Outcomes, NoToken
  <2>3. 2 \in 1 .. 2  OBVIOUS
  <2> HIDE DEF g
  <2> QED  BY <1>5, <1>7, <2>1, <2>2, <2>3
<1>12. CASE RejectArguments
  BY <1>5, <1>12 DEF RejectArguments, Halt, Outcomes
<1> QED  BY <1>8, <1>9, <1>10, <1>11, <1>12 DEF Resume

LEMMA ParseDepth ==
  ASSUME ParserInv, DepthInv, ~Runaway, Parse \/ ParsePrototype
  PROVE  DepthInv'
<1>1. Running
  BY DEF Parse, ParsePrototype, Finish, SkipSeparator, BeginPrototype, RejectPrototype,
     DropLastBracket, BeginTopLevel, ExhaustMemory, IsTopLevel, InLoop, EndTopLevel,
     EndDefinition, AddParameter, EndPrototype, RejectParameter, AtTop, Running, Outcomes
<1>2. /\ TypeOK /\ pos \in Nat \ {0} /\ stack \in Seq(FrameType) /\ Depths(stack, pos)
      /\ Len(stack) \in Nat /\ Len(stack) <= 2 * pos
  BY <1>1, DepthNow
<1>3. ASSUME NEW s, s = <<>> \/ \E f \in FrameType : s = <<f>> /\ f.fn # "operand",
             NEW n \in Nat, pos' = Reads(n), stack' = s, control' # "overflowed"
      PROVE  DepthInv'
  <2>1. s \in Seq(FrameType) /\ Len(s) <= 1 /\ \A i \in 1 .. Len(s) : s[i].fn # "operand"
    <3>1. CASE s = <<>>
      BY <3>1
    <3>2. ASSUME NEW f \in FrameType, f.fn # "operand"
          PROVE  /\ <<f>> \in Seq(FrameType) /\ Len(<<f>>) <= 1
                 /\ \A i \in 1 .. Len(<<f>>) : <<f>>[i].fn # "operand"
      BY <3>2
    <3> QED  BY <1>3, <3>1, <3>2
  <2>2. Len(s) <= 2 * pos  BY <1>2, <2>1
  <2>3. Depths(s, pos)  BY <2>1, <2>2 DEF Depths
  <2> QED  BY <1>2, <1>3, <2>1, <2>3, BackDepth
<1>4. CASE Finish \/ RejectPrototype \/ ExhaustMemory \/ RejectParameter
  BY <1>4 DEF Finish, RejectPrototype, ExhaustMemory, RejectParameter, Halt, Outcomes,
     DepthInv, Running
<1>5. CASE SkipSeparator \/ EndTopLevel \/ EndDefinition \/ DropLastBracket
  <2>1. stack' = <<>>
    <3>1. CASE SkipSeparator \/ DropLastBracket
      <4>1. control = "parse" /\ stack' = stack
        BY <3>1 DEF SkipSeparator, DropLastBracket, IsTopLevel, InLoop, vars
      <4> QED  BY <4>1, InLoopIsEmpty
    <3> QED  BY <1>5, <3>1 DEF EndTopLevel, EndDefinition
  <2>2. control' # "overflowed"
    BY <1>5 DEF SkipSeparator, EndTopLevel, EndDefinition, DropLastBracket, IsTopLevel,
       InLoop, vars
  <2>3. pos' = Reads(0) \/ pos' = Reads(1)
    BY <1>2, <1>5, NoRead DEF SkipSeparator, EndTopLevel, EndDefinition, DropLastBracket, vars
  <2>4. 0 \in Nat /\ 1 \in Nat  OBVIOUS
  <2> QED  BY <1>3, <2>1, <2>2, <2>3, <2>4
<1>6. ASSUME NEW fn \in Bottoms, NEW at \in Nat
      PROVE  Frame(fn, at, 0, <<>>) \in FrameType /\ Frame(fn, at, 0, <<>>).fn # "operand"
  BY <1>6, BottomFrame DEF Frame, Bottoms, Keywords
<1>7. CASE BeginPrototype
  <2>1. Current \in Bottoms /\ pos + 1 \in Nat /\ 2 \in Nat
    BY <1>2, <1>7 DEF BeginPrototype, Bottoms
  <2>2. stack' = <<Frame(Current, pos + 1, 0, <<>>)>> /\ pos' = Reads(2) /\ control' # "overflowed"
    BY <1>7 DEF BeginPrototype
  <2> QED  BY <1>3, <1>6, <2>1, <2>2
<1>8. CASE BeginTopLevel
  <2> DEFINE f == Frame("parseTopLevelExpression", 0, 0, <<>>)
  <2>1. f \in FrameType /\ f.fn # "operand"
    <3>1. "parseTopLevelExpression" \in Bottoms /\ 0 \in Nat  BY DEF Bottoms
    <3> QED  BY <1>6, <3>1
  <2>2. CallExpression(<<f>>, 0)  BY <1>8 DEF BeginTopLevel
  <2> HIDE DEF f
  <2>3. <<f>> \in Seq(FrameType) /\ Len(<<f>>) = 1 /\ \A i \in 1 .. 1 : <<f>>[i].fn # "operand"
    BY <2>1
  <2>4. 1 <= 2 * pos /\ 1 + 1 <= 2 * pos /\ pos <= pos /\ 0 \in Nat  BY <1>2
  <2>5. Depths(<<f>>, pos)  BY <2>3, <2>4 DEF Depths
  <2>6. Reads(0) = pos  BY <1>2, NoRead
  <2> DEFINE u == <<f>>
  <2>7. u \in Seq(FrameType) /\ Len(u) = 1 /\ Depths(u, pos) /\ CallExpression(u, 0)
    BY <2>2, <2>3, <2>5
  <2> HIDE DEF u
  <2>8. pos <= Reads(0) /\ Len(u) + 1 <= 2 * Reads(0)
    BY <2>4, <2>6, <2>7
  <2> QED  BY <1>2, <2>4, <2>7, <2>8, CallDepth
<1>9. CASE AddParameter
  <2> DEFINE f == Last(stack)
             g == [f EXCEPT !.kids = Append(@, Len(nodes) + 1)]
  <2>1. /\ stack' = Replace(g) /\ control' = control /\ control = "parsePrototype"
        /\ pos' = Reads(1) \/ pos' = Reads(2)
    BY <1>9 DEF AddParameter
  <2>2. stack # <<>> /\ f.fn # "operand"
    BY <2>1 DEF ParserInv, TopMatchesControl, Running, Outcomes, Keywords
  <2>3. f \in FrameType  BY <1>1, <2>2, DepthNow
  <2>4. g \in FrameType /\ g.fn # "operand"
    <3>1. f.kids \in Seq(Nat) /\ Len(nodes) + 1 \in Nat  BY <2>3, Counters DEF FrameType
    <3>2. Append(f.kids, Len(nodes) + 1) \in Seq(Nat)  BY <3>1
    <3>3. f \in [fn : CallSites, at : Nat, prec : Nat, kids : Seq(Nat)]  BY <2>3 DEF FrameType
    <3> QED  BY <2>2, <3>2, <3>3 DEF FrameType
  <2> HIDE DEF g
  <2>5. pos <= pos /\ 1 \in Nat /\ 2 \in Nat  BY <1>2
  <2>6. Replace(g) \in Seq(FrameType) /\ Depths(Replace(g), pos)
    BY <1>1, <1>2, <2>2, <2>4, <2>5, ReplaceDepth
  <2> QED  BY <1>2, <2>1, <2>5, <2>6, BackDepth
<1>10. CASE EndPrototype
  <2> DEFINE d == Frame("parseFunctionDefinition", 0, 0, <<Len(nodes) + 1>>)
             e == Frame("parseExpression", 0, 0, <<>>)
  <2>1. /\ stack' = <<>> \/ stack' = <<d, e>>
        /\ pos' = Reads(2) /\ control' # "overflowed" /\ 2 \in Nat
    BY <1>10 DEF EndPrototype
  <2>2. d \in FrameType /\ e \in FrameType /\ d.fn # "operand" /\ e.fn # "operand"
    <3>1. Len(nodes) + 1 \in Nat  BY Counters
    <3> QED  BY <3>1 DEF Frame, FrameType, CallSites
  <2> HIDE DEF d, e
  <2>3. <<d, e>> \in Seq(FrameType) /\ Len(<<d, e>>) = 2 /\ \A i \in 1 .. 2 : <<d, e>>[i].fn # "operand"
    BY <2>2
  <2>4. 2 <= 2 * pos  BY <1>2
  <2>5. Depths(<<d, e>>, pos)  BY <2>3, <2>4 DEF Depths
  <2> QED  BY <1>2, <1>3, <2>1, <2>3, <2>5, BackDepth
<1> QED  BY <1>4, <1>5, <1>7, <1>8, <1>9, <1>10 DEF Parse, ParsePrototype

LEMMA DepthStays ==
  ASSUME ParserInv, DepthInv, [Next]_vars
  PROVE  DepthInv'
<1>1. CASE UNCHANGED vars \/ Ended
  BY <1>1 DEF Ended, vars, DepthInv, Runaway, Current, TokenAt, Running, Depths
<1>2. CASE Next /\ Runaway
  BY <1>2, RunawayStays DEF DepthInv, ParserInv
<1>3. CASE Next /\ ~Runaway
  BY <1>1, <1>3, ParseDepth, PrimaryDepth, OperatorsDepth, ResumeDepth DEF Next
<1> QED  BY <1>1, <1>2, <1>3

\* What the depth of the calls says of the end.
DeepOnlyAtOperator ==
  control = "overflowed" => Current \in Operators \/ StackLimit < 2 * (Len(tokens) + 1)

\* No step changes the input.
LEMMA TokensStay == ASSUME [Next]_vars PROVE tokens' = tokens
<1>1. CASE Parse \/ ParsePrototype
  BY <1>1 DEF Parse, ParsePrototype, Finish, SkipSeparator, BeginPrototype, RejectPrototype,
     DropLastBracket, BeginTopLevel, ExhaustMemory, EndTopLevel, EndDefinition, AddParameter,
     EndPrototype, RejectParameter, CallExpression, Halt, vars
<1>2. CASE ParsePrimary
  BY <1>2 DEF ParsePrimary, Overflow, NoPrimary, Number, Variable, CallWithoutArguments,
     CallCutShort, CallWithArguments, BeginTernary, OperatorAsPrimary, BeginParentheses,
     BeginCurlyBrackets, UnknownToken, CallExpression, Return, ReturnNew, Halt
<1>3. CASE ParseOperators
  BY <1>3 DEF ParseOperators, BeginOperators, TakeOperator, EndOperators, ClimbOperators,
     CombineOperand, CombineNested, Combine, Return
<1>4. CASE Resume
  BY <1>4 DEF Resume, PropagateNil, EndArguments, NextArgument, RejectArguments, EndCondition,
     EndThen, EndElse, EndParentheses, EndCurlyBrackets, CallExpression, Return, ReturnNew, Halt
<1>5. CASE Ended \/ UNCHANGED vars
  BY <1>5 DEF Ended, vars
<1> QED  BY <1>1, <1>2, <1>3, <1>4, <1>5 DEF Next

LEMMA DepthHolds == Spec => [](ParserInv /\ DepthInv /\ tokens \in Inputs)
<1>1. Init => ParserInv /\ DepthInv /\ tokens \in Inputs
  <2> SUFFICES ASSUME Init PROVE ParserInv /\ DepthInv /\ tokens \in Inputs
    OBVIOUS
  <2>1. ParserInv /\ tokens \in Inputs  BY InitInv DEF Init
  <2>2. stack = <<>> /\ control = "parse" /\ pos = 1  BY DEF Init, Fresh
  <2>3. Depths(<<>>, 1)  BY DEF Depths
  <2> QED  BY <2>1, <2>2, <2>3 DEF DepthInv
<1>2. ParserInv /\ DepthInv /\ tokens \in Inputs /\ [Next]_vars
        => (ParserInv /\ DepthInv /\ tokens \in Inputs)'
  <2> SUFFICES ASSUME ParserInv, DepthInv, tokens \in Inputs, [Next]_vars
               PROVE  (ParserInv /\ DepthInv /\ tokens \in Inputs)'
    OBVIOUS
  <2>1. tokens' = tokens  BY TokensStay
  <2> QED  BY <2>1, NextInv, DepthStays
<1> QED  BY <1>1, <1>2, PTL DEF Spec

(* Every call but the one of parseToken() reads: with a stack of any size, *)
(* the parser runs out of it only where parseToken() meets an operator, or *)
(* where the input has a token for every two frames of the stack.          *)
THEOREM CallsBoundedByInput == Spec => []DeepOnlyAtOperator
<1>1. ParserInv /\ DepthInv /\ tokens \in Inputs => DeepOnlyAtOperator
  BY DEF DepthInv, DeepOnlyAtOperator, Runaway
<1> QED  BY <1>1, DepthHolds, PTL

(* So with room for two calls a token, and for two more, the recursion     *)
(* runs away at an operator or not at all.                                 *)
THEOREM RunsAwayOnlyAtOperator ==
  ASSUME \A t \in Inputs : 2 * (Len(t) + 1) <= StackLimit
  PROVE  Spec => []OverflowOnlyAtOperator
<1>1. ParserInv /\ DepthInv /\ tokens \in Inputs => OverflowOnlyAtOperator
  <2> SUFFICES ASSUME ParserInv, DepthInv, tokens \in Inputs, control = "overflowed"
               PROVE  Current \in Operators
    BY DEF OverflowOnlyAtOperator
  <2>1. PICK k \in Nat : k = Len(tokens)  BY DEF ParserInv, TypeOK
  <2>2. 2 * (k + 1) <= StackLimit  BY <2>1
  <2>3. ~(StackLimit < 2 * (k + 1))  BY <2>1, <2>2, LimitsAssumption
  <2> QED  BY <2>1, <2>3 DEF DepthInv, Runaway
<1> QED  BY <1>1, DepthHolds, PTL

-----------------------------------------------------------------------------
(***************************************************************************)
(* A tree reads like the source, for every input and every limit.          *)
(*                                                                         *)
(* What a call waits with, its own token and the nodes it has, comes after *)
(* what the calls below it wait with, and all of it before Limit: the      *)
(* first token that may still be made into a node.  That is not the token  *)
(* at the cursor, because a primary leaves the cursor ON its last token;   *)
(* whether the token there is used shows in what it is and what was        *)
(* returned.  Limit never goes back, except where the loop of parse()      *)
(* takes a literal a second time, and then it takes it for ever (Stuck).   *)
(*                                                                         *)
(* Covered is recursive, so the proofs are about every c of which Covers   *)
(* says that it solves the equation of Covered: an item adds nodes, and a  *)
(* c for the longer list is one for the shorter.                           *)
(***************************************************************************)

\* c gives the tokens of every node of h.
Covers(c, h) ==
  \A n \in 1 .. Len(h) :
    c[n] = ({h[n].at} \ {0}) \cup UNION {c[h[n].kids[i]] : i \in DOMAIN h[n].kids}

\* The token at the cursor is one that alone makes a node.
OnLiteral == Current = "number" \/ (Current = "identifier" /\ Stalk # "(")

\* The token at the cursor may be in a node already.
CursorUsed ==
  \/ control = "parsePrototype"
  \/ control = RHS /\ OnLiteral
  \/ control = "return" /\ value # Nil /\ OnLiteral
  \/ control = "parse" /\ OnLiteral /\ Stalk \notin Operators

Limit == IF CursorUsed THEN pos + 1 ELSE pos

-----------------------------------------------------------------------------
(* What a call has *)

Own(f) == IF f.fn \in Claiming THEN {f.at} ELSE {}

\* Of its nodes, those that the call above it does not hold too: the loop over
\* the tighter operators begins with the right operand of the waiting one.
Keeps(f) == IF f.fn = "nested" THEN {1} ELSE DOMAIN f.kids

KidsCover(c, f) == UNION {c[f.kids[i]] : i \in DOMAIN f.kids}

All(c, f) == Own(f) \cup KidsCover(c, f)
Has(c, f) == Own(f) \cup UNION {c[f.kids[i]] : i \in Keeps(f)}

\* The parts of a node, or of a call that will be one, are in order.
InOrder(c, head, kids) ==
  /\ \A i, j \in DOMAIN kids : i < j => Before(c[kids[i]], c[kids[j]])
  /\ \A i \in DOMAIN kids : Before(head, c[kids[i]])

FrameInOrder(c, f) ==
  IF f.fn \in {"operand", "nested"}
    THEN /\ Before(c[f.kids[1]], Own(f))
         /\ f.fn = "nested" => Before(Own(f), c[f.kids[2]])
    ELSE InOrder(c, Own(f), f.kids)

NodeInOrder(c, node) ==
  IF node.kind = "binary"
    THEN /\ Len(node.kids) = 2
         /\ Before(c[node.kids[1]], {node.at} \ {0})
         /\ Before({node.at} \ {0}, c[node.kids[2]])
         /\ Before(c[node.kids[1]], c[node.kids[2]])
    ELSE InOrder(c, {node.at} \ {0}, node.kids)

\* The tokens X come after R and after what the calls of s have.
After(R, s, c, X) ==
  /\ Before(R, X)
  /\ \A i \in 1 .. Len(s) : Before(Has(c, s[i]), X)

\* The calls of s have tokens after R and before p, each after those below it.
Order(R, s, c, p) ==
  /\ Before(R, {p})
  /\ \A i \in 1 .. Len(s) :
       /\ FrameInOrder(c, s[i])
       /\ Before(All(c, s[i]), {p})
       /\ Before(R, Has(c, s[i]))
  /\ \A i, j \in 1 .. Len(s) : i < j => Before(Has(c, s[i]), Has(c, s[j]))

NodesInOrder(c, h) == \A n \in 1 .. Len(h) : c[n] \in SUBSET Nat /\ NodeInOrder(c, h[n])

\* Where the calls and the value on its way to them stand, after R.
CallsInOrder(c, R) ==
  /\ Running => Order(R, stack, c, Limit)
  /\ control = "return" /\ value # Nil =>
       After(R, stack, c, c[value]) /\ Before(c[value], {Limit})

-----------------------------------------------------------------------------
(* Order among sets of places *)

LEMMA BeforeParts ==
  /\ \A S, T, U : Before(S, T) /\ Before(S, U) => Before(S, T \cup U)
  /\ \A S, T, U : Before(S, U) /\ Before(T, U) => Before(S \cup T, U)
  /\ \A S, T, U : Before(S, T) /\ U \subseteq S => Before(U, T)
  /\ \A S, T, U : Before(S, T) /\ U \subseteq T => Before(S, U)
  /\ \A S : Before({}, S) /\ Before(S, {})
  BY DEF Before

LEMMA BeforeLater ==
  ASSUME NEW S \in SUBSET Nat, NEW p \in Nat, NEW q \in Nat, p <= q, Before(S, {p})
  PROVE  Before(S, {q})
  BY DEF Before

LEMMA AfterParts ==
  ASSUME NEW R, NEW s, NEW c
  PROVE  /\ \A X, Y : After(R, s, c, X) /\ After(R, s, c, Y) => After(R, s, c, X \cup Y)
         /\ \A X, Y : After(R, s, c, X) /\ Y \subseteq X => After(R, s, c, Y)
         /\ After(R, s, c, {})
<1>1. \A X, Y : After(R, s, c, X) /\ After(R, s, c, Y) => After(R, s, c, X \cup Y)
  BY BeforeParts DEF After
<1>2. \A X, Y : After(R, s, c, X) /\ Y \subseteq X => After(R, s, c, Y)
  BY BeforeParts DEF After
<1>3. After(R, s, c, {})
  BY BeforeParts DEF After
<1> QED  BY <1>1, <1>2, <1>3

LEMMA HasIsOfAll ==
  ASSUME NEW c, NEW f, f.fn = "nested" => 1 \in DOMAIN f.kids
  PROVE  Has(c, f) \subseteq All(c, f) /\ Own(f) \subseteq Has(c, f)
  BY DEF Has, All, Keeps, KidsCover

-----------------------------------------------------------------------------
(* The calls in order *)

\* What is said of calls over nodes whose tokens are places.
AllPlaces(c, n) == \A k \in 1 .. n : c[k] \in SUBSET Nat

LEMMA CallPlaces ==
  ASSUME NEW c, NEW n, AllPlaces(c, n), NEW f \in FrameType, FrameOK(f, n)
  PROVE  /\ All(c, f) \in SUBSET Nat /\ Has(c, f) \in SUBSET Nat
         /\ Has(c, f) \subseteq All(c, f) /\ Own(f) \subseteq Has(c, f)
<1>1. \A i \in DOMAIN f.kids : c[f.kids[i]] \in SUBSET Nat
  BY DEF FrameOK, AllPlaces
<1>2. f.fn = "nested" => 1 \in DOMAIN f.kids
  <2>1. f.kids \in Seq(Nat)  BY DEF FrameType
  <2>2. f.fn = "nested" => Len(f.kids) = 2  BY DEF FrameOK
  <2> QED  BY <2>1, <2>2
<1>3. f.at \in Nat  BY DEF FrameType
<1>4. All(c, f) \in SUBSET Nat
  BY <1>1, <1>3 DEF All, Own, KidsCover
<1> QED  BY <1>2, <1>4, HasIsOfAll

LEMMA OrderLater ==
  ASSUME NEW R \in SUBSET Nat, NEW n, NEW s, WellFormed(s, n), NEW c, AllPlaces(c, n),
         NEW p \in Nat, NEW q \in Nat, p <= q, Order(R, s, c, p)
  PROVE  Order(R, s, c, q)
<1>1. s \in Seq(FrameType)  BY DEF WellFormed
<1>2. \A i \in 1 .. Len(s) : s[i] \in FrameType /\ FrameOK(s[i], n)
  BY <1>1 DEF WellFormed
<1>3. \A i \in 1 .. Len(s) : All(c, s[i]) \in SUBSET Nat
  BY <1>2, CallPlaces
<1> QED  BY <1>3, BeforeLater DEF Order

LEMMA PushOrder ==
  ASSUME NEW R, NEW s \in Seq(FrameType), NEW c, NEW p, Order(R, s, c, p),
         NEW f \in FrameType, FrameInOrder(c, f), Before(All(c, f), {p}),
         After(R, s, c, Has(c, f))
  PROVE  Order(R, Append(s, f), c, p)
<1> DEFINE u == Append(s, f)
<1>1. PICK k \in Nat : k = Len(s)  OBVIOUS
<1>2. /\ Len(u) = k + 1 /\ u[k + 1] = f
      /\ \A i \in 1 .. k : u[i] = s[i]
  BY <1>1, Appended
<1>3. \A i \in 1 .. k + 1 : i \in 1 .. k \/ i = k + 1
  BY <1>1
<1> HIDE DEF u
<1>4. \A i \in 1 .. k + 1 :
        FrameInOrder(c, u[i]) /\ Before(All(c, u[i]), {p}) /\ Before(R, Has(c, u[i]))
  BY <1>1, <1>2, <1>3 DEF Order, After
<1>5. ASSUME NEW i \in 1 .. k + 1, NEW j \in 1 .. k + 1, i < j
      PROVE  Before(Has(c, u[i]), Has(c, u[j]))
  <2>1. i \in 1 .. k  BY <1>1, <1>5
  <2>2. CASE j \in 1 .. k
    BY <1>1, <1>2, <1>5, <2>1, <2>2 DEF Order
  <2>3. CASE j = k + 1
    BY <1>1, <1>2, <2>1, <2>3 DEF After
  <2> QED  BY <1>3, <2>2, <2>3
<1>6. Before(R, {p})  BY DEF Order
<1> QED  BY <1>2, <1>4, <1>5, <1>6 DEF Order, u

LEMMA PopOrder ==
  ASSUME NEW R, NEW s \in Seq(FrameType), s # <<>>, NEW c, NEW p, Order(R, s, c, p)
  PROVE  /\ Order(R, Front(s), c, p)
         /\ FrameInOrder(c, Last(s)) /\ Before(All(c, Last(s)), {p})
         /\ After(R, Front(s), c, Has(c, Last(s)))
         /\ \A X : After(R, s, c, X) => After(R, Front(s), c, X) /\ Before(Has(c, Last(s)), X)
<1> DEFINE u == Front(s)
<1>1. PICK k \in Nat \ {0} : k = Len(s)  OBVIOUS
<1>2. Len(u) = k - 1 /\ Last(s) = s[k] /\ \A i \in 1 .. k - 1 : u[i] = s[i]
  BY <1>1, FrontLast
<1>3. /\ \A i \in 1 .. k - 1 : i \in 1 .. k /\ i < k
      /\ k \in 1 .. k
  BY <1>1
<1> HIDE DEF u
<1>4. Order(R, u, c, p)
  BY <1>1, <1>2, <1>3 DEF Order
<1>5. FrameInOrder(c, Last(s)) /\ Before(All(c, Last(s)), {p}) /\ After(R, u, c, Has(c, Last(s)))
  BY <1>1, <1>2, <1>3 DEF Order, After
<1>6. ASSUME NEW X, After(R, s, c, X) PROVE After(R, u, c, X) /\ Before(Has(c, Last(s)), X)
  BY <1>1, <1>2, <1>3, <1>6 DEF After
<1> QED  BY <1>4, <1>5, <1>6 DEF u

\* Whatever comes at Limit or later comes after all that the calls have.
LEMMA AfterLimit ==
  ASSUME NEW R \in SUBSET Nat, NEW n, NEW s, WellFormed(s, n), NEW c, AllPlaces(c, n),
         NEW p \in Nat, NEW q \in Nat, p <= q, Order(R, s, c, p)
  PROVE  After(R, s, c, {q})
<1>1. Order(R, s, c, q)  BY OrderLater
<1>2. s \in Seq(FrameType)  BY DEF WellFormed
<1>3. \A i \in 1 .. Len(s) : Has(c, s[i]) \subseteq All(c, s[i])
  <2>1. \A i \in 1 .. Len(s) : s[i] \in FrameType /\ FrameOK(s[i], n)
    BY <1>2 DEF WellFormed
  <2> QED  BY <2>1, CallPlaces
<1> QED  BY <1>1, <1>3, BeforeParts DEF Order, After

-----------------------------------------------------------------------------
(* Nodes in order *)

CoverOf(c, kids) == UNION {c[kids[i]] : i \in DOMAIN kids}

LEMMA OneMoreCovers ==
  ASSUME NEW c, NEW kids, NEW more, NEW v, NEW k \in Nat, DOMAIN kids = 1 .. k,
         DOMAIN more = 1 .. k + 1, more[k + 1] = v, \A i \in 1 .. k : more[i] = kids[i]
  PROVE  CoverOf(c, more) = CoverOf(c, kids) \cup c[v]
<1>1. \A i \in 1 .. k + 1 : i \in 1 .. k \/ i = k + 1
  OBVIOUS
<1>2. k + 1 \in 1 .. k + 1 /\ \A i \in 1 .. k : i \in 1 .. k + 1
  OBVIOUS
<1>3. UNION {c[more[i]] : i \in DOMAIN more}
        = (UNION {c[kids[i]] : i \in DOMAIN kids}) \cup c[v]
  BY <1>1, <1>2
<1> QED  BY <1>3, Zenon DEF CoverOf

LEMMA OneMoreInOrder ==
  ASSUME NEW c, NEW X, NEW kids \in Seq(Nat), NEW v \in Nat,
         InOrder(c, X, kids), Before(X, c[v]), \A i \in DOMAIN kids : Before(c[kids[i]], c[v])
  PROVE  LET more == Append(kids, v) IN
         InOrder(c, X, more) /\ CoverOf(c, more) = CoverOf(c, kids) \cup c[v]
<1> DEFINE more == Append(kids, v)
<1>1. PICK k \in Nat : k = Len(kids) /\ DOMAIN kids = 1 .. k
  OBVIOUS
<1>2. DOMAIN more = 1 .. k + 1 /\ more[k + 1] = v /\ \A i \in 1 .. k : more[i] = kids[i]
  BY <1>1
<1>3. \A i \in 1 .. k + 1 : i \in 1 .. k \/ i = k + 1
  BY <1>1
<1> HIDE DEF more
<1>4. ASSUME NEW i \in 1 .. k + 1, NEW j \in 1 .. k + 1, i < j
      PROVE  Before(c[more[i]], c[more[j]])
  <2>1. i \in 1 .. k  BY <1>1, <1>4
  <2>2. CASE j \in 1 .. k
    BY <1>1, <1>2, <1>4, <2>1, <2>2 DEF InOrder
  <2>3. CASE j = k + 1
    BY <1>1, <1>2, <2>1, <2>3
  <2> QED  BY <1>3, <2>2, <2>3
<1>5. \A i \in 1 .. k + 1 : Before(X, c[more[i]])
  BY <1>1, <1>2, <1>3 DEF InOrder
<1>6. CoverOf(c, more) = CoverOf(c, kids) \cup c[v]
  BY <1>1, <1>2, OneMoreCovers, SMTT(30)
<1>7. InOrder(c, X, more)
  BY <1>2, <1>4, <1>5 DEF InOrder
<1> QED  BY <1>6, <1>7 DEF more

LEMMA NoKidsInOrder ==
  ASSUME NEW c, NEW X
  PROVE  /\ InOrder(c, X, <<>>) /\ UNION {c[<<>>[i]] : i \in DOMAIN <<>>} = {}
         /\ \A v \in Nat : Before(X, c[v]) =>
              /\ InOrder(c, X, <<v>>)
              /\ UNION {c[<<v>>[i]] : i \in DOMAIN <<v>>} = c[v]
<1>1. InOrder(c, X, <<>>) /\ UNION {c[<<>>[i]] : i \in DOMAIN <<>>} = {}
  BY DEF InOrder
<1>2. ASSUME NEW v \in Nat, Before(X, c[v])
      PROVE  InOrder(c, X, <<v>>) /\ UNION {c[<<v>>[i]] : i \in DOMAIN <<v>>} = c[v]
  <2>1. DOMAIN <<v>> = {1} /\ <<v>>[1] = v
    OBVIOUS
  <2> QED  BY <1>2, <2>1 DEF InOrder
<1> QED  BY <1>1, <1>2

\* The head of an order may be less.
LEMMA LessInOrder ==
  ASSUME NEW c, NEW X, NEW Y, Y \subseteq X, NEW kids, InOrder(c, X, kids)
  PROVE  InOrder(c, Y, kids)
  BY BeforeParts DEF InOrder

\* A node is added, and c is for the longer list.
LEMMA NodeOrder ==
  ASSUME NEW c, NEW h, HeapOK(h), NEW node \in NodeType, Covers(c, Append(h, node))
  PROVE  /\ Covers(c, h)
         /\ c[Len(h) + 1] = ({node.at} \ {0}) \cup UNION {c[node.kids[i]] : i \in DOMAIN node.kids}
         /\ /\ NodesInOrder(c, h) /\ NodeInOrder(c, node)
            /\ \A i \in DOMAIN node.kids : node.kids[i] \in 1 .. Len(h)
            => NodesInOrder(c, Append(h, node)) /\ c[Len(h) + 1] \in SUBSET Nat
<1> DEFINE g == Append(h, node)
<1>1. PICK k \in Nat : k = Len(h)  BY DEF HeapOK
<1>2. /\ Len(g) = k + 1 /\ g[k + 1] = node
      /\ \A n \in 1 .. k : g[n] = h[n]
  BY <1>1, Appended DEF HeapOK
<1>3. /\ \A n \in 1 .. k + 1 : n \in 1 .. k \/ n = k + 1
      /\ k + 1 \in 1 .. k + 1 /\ \A n \in 1 .. k : n \in 1 .. k + 1
  BY <1>1
<1> HIDE DEF g
<1>4. \A n \in 1 .. k + 1 :
        c[n] = ({g[n].at} \ {0}) \cup UNION {c[g[n].kids[i]] : i \in DOMAIN g[n].kids}
  BY <1>2 DEF Covers, g
<1>5. Covers(c, h)
  <2>1. ASSUME NEW n \in 1 .. k
        PROVE  c[n] = ({h[n].at} \ {0}) \cup UNION {c[h[n].kids[i]] : i \in DOMAIN h[n].kids}
    <3>1. g[n] = h[n] /\ n \in 1 .. k + 1  BY <1>2, <1>3
    <3> QED  BY <1>4, <3>1
  <2> QED  BY <1>1, <2>1 DEF Covers
<1>6. c[k + 1] = ({node.at} \ {0}) \cup UNION {c[node.kids[i]] : i \in DOMAIN node.kids}
  BY <1>2, <1>3, <1>4
<1>7. ASSUME NodesInOrder(c, h), NodeInOrder(c, node),
             \A i \in DOMAIN node.kids : node.kids[i] \in 1 .. Len(h)
      PROVE  NodesInOrder(c, g) /\ c[k + 1] \in SUBSET Nat
  <2>1. \A i \in DOMAIN node.kids : c[node.kids[i]] \in SUBSET Nat
    BY <1>7 DEF NodesInOrder
  <2>2. node.at \in Nat  BY DEF NodeType
  <2>3. c[k + 1] \in SUBSET Nat
    BY <1>6, <2>1, <2>2
  <2>4. ASSUME NEW n \in 1 .. k + 1 PROVE c[n] \in SUBSET Nat /\ NodeInOrder(c, g[n])
    <3>1. CASE n \in 1 .. k  BY <1>1, <1>2, <1>7, <3>1 DEF NodesInOrder
    <3>2. CASE n = k + 1  BY <1>2, <1>7, <2>3, <3>2
    <3> QED  BY <1>3, <3>1, <3>2
  <2> QED  BY <1>2, <2>3, <2>4 DEF NodesInOrder
<1> QED  BY <1>1, <1>5, <1>6, <1>7 DEF g

-----------------------------------------------------------------------------
(* Limit *)

LEMMA LimitNow ==
  ASSUME TypeOK
  PROVE  /\ pos \in Nat /\ Limit \in Nat /\ pos <= Limit /\ Limit <= pos + 1
         /\ ~CursorUsed => Limit = pos
<1>1. pos \in Nat  BY DEF TypeOK
<1> QED  BY <1>1 DEF Limit

\* After n reads it is not behind, if it was at the cursor or the token there
\* is one of those read, or nothing was read and it is used as it was.
LEMMA LimitMoves ==
  ASSUME TypeOK, UNCHANGED tokens, NEW n \in Nat, pos' = Reads(n)
  PROVE  /\ pos' \in Nat /\ Limit' \in Nat /\ pos' <= Limit' /\ pos <= pos'
         /\ ~CursorUsed => Limit <= pos'
         /\ 1 <= n /\ Current # NoToken => Limit <= pos' /\ pos + 1 <= pos'
         /\ 1 <= n /\ OnLiteral => Limit <= pos'
         /\ n = 0 /\ (CursorUsed => CursorUsed') => Limit <= Limit'
<1>1. /\ pos \in Nat /\ Reads(n) \in Nat /\ pos <= Reads(n) /\ Reads(0) = pos
      /\ pos + n <= Len(tokens) + 1 => Reads(n) = pos + n
  BY ReadsOn
<1>2. pos' \in Nat /\ pos' <= Limit' /\ Limit' \in Nat
  <2>1. \A p \in Nat : p <= p /\ p <= p + 1 /\ p + 1 \in Nat  OBVIOUS
  <2>2. Limit' \in {pos', pos' + 1}  BY DEF Limit
  <2> QED  BY <1>1, <2>1, <2>2
<1>3. ~CursorUsed => Limit <= pos'
  BY <1>1 DEF Limit
<1>4. ASSUME 1 <= n, Current # NoToken PROVE Limit <= pos' /\ pos + 1 <= pos'
  <2>1. PICK k \in Nat : k = Len(tokens)  BY DEF TypeOK
  <2>2. pos <= k  BY <1>1, <1>4, <2>1 DEF Current, TokenAt
  <2>3. pos + 1 <= Reads(n)  BY <1>1, <1>4, <2>1, <2>2 DEF Reads
  <2>4. Limit \in {pos, pos + 1}  BY DEF Limit
  <2> QED  BY <1>1, <2>3, <2>4
<1>5. OnLiteral => Current # NoToken
  BY DEF OnLiteral, NoToken
<1>6. ASSUME n = 0, CursorUsed => CursorUsed' PROVE Limit <= Limit'
  BY <1>1, <1>6 DEF Limit
<1> QED  BY <1>1, <1>2, <1>3, <1>4, <1>5, <1>6

\* A value on its way and the loop over the operators read alike.
LEMMA LimitPasses ==
  ASSUME TypeOK, UNCHANGED tokens, NEW n \in 0 .. 1, pos' = Reads(n),
         control \in {"return", RHS}, control' \in {"return", RHS},
         control' = "return" /\ value' = Nil => control = "return" /\ value = Nil
  PROVE  Limit <= Limit'
<1>1. /\ pos' \in Nat /\ Limit' \in Nat /\ pos' <= Limit' /\ Limit \in Nat
      /\ ~CursorUsed => Limit <= pos'
      /\ 1 <= n /\ OnLiteral => Limit <= pos'
      /\ n = 0 /\ (CursorUsed => CursorUsed') => Limit <= Limit'
  BY LimitMoves, LimitNow
<1>2. CursorUsed => OnLiteral
  BY DEF CursorUsed, RHS
<1>3. CASE n = 0
  <2>1. pos' = pos  BY <1>3, NoRead
  <2>2. Current' = Current /\ Stalk' = Stalk
    BY <2>1 DEF Current, Stalk, TokenAt
  <2>3. OnLiteral => OnLiteral'
    BY <2>2 DEF OnLiteral
  <2>4. CursorUsed => CursorUsed'
    BY <1>2, <2>3 DEF CursorUsed, RHS
  <2> QED  BY <1>1, <1>3, <2>4
<1>4. CASE n = 1
  <2>1. Limit <= pos'  BY <1>1, <1>2, <1>4
  <2> QED  BY <1>1, <2>1
<1> QED  BY <1>3, <1>4

\* Where a value or the loop is, the token at the cursor is the one used, if
\* any is: to read is to step over it.
LEMMA LimitRead ==
  ASSUME TypeOK, UNCHANGED tokens, NEW n \in Nat \ {0}, pos' = Reads(n),
         control \in {"return", RHS}
  PROVE  Limit <= pos'
<1>1. /\ ~CursorUsed => Limit <= pos'
      /\ 1 <= n /\ OnLiteral => Limit <= pos'
  BY LimitMoves
<1>2. CursorUsed => OnLiteral
  BY DEF CursorUsed, RHS
<1> QED  BY <1>1, <1>2

-----------------------------------------------------------------------------
(* Where the parser is *)

OrderInv(c, R) == NodesInOrder(c, nodes) /\ CallsInOrder(c, R)

LEMMA OrderNow ==
  ASSUME ParserInv, NEW c, NEW R \in SUBSET Nat, OrderInv(c, R)
  PROVE  /\ TypeOK /\ HeapOK(nodes) /\ Len(nodes) \in Nat /\ value \in 0 .. Len(nodes)
         /\ pos \in Nat /\ Limit \in Nat /\ pos <= Limit /\ Limit <= pos + 1
         /\ WellFormed(stack, Len(nodes)) /\ stack \in Seq(FrameType)
         /\ AllPlaces(c, Len(nodes)) /\ NodesInOrder(c, nodes)
         /\ Running => Order(R, stack, c, Limit)
<1>1. TypeOK /\ HeapOK(nodes) /\ WellFormed(stack, Len(nodes)) /\ stack \in Seq(FrameType)
  BY TypeOKParts DEF ParserInv
<1>2. Len(nodes) \in Nat /\ value \in 0 .. Len(nodes)
  BY Counters
<1>3. AllPlaces(c, Len(nodes)) /\ NodesInOrder(c, nodes)
  BY DEF OrderInv, NodesInOrder, AllPlaces
<1> QED  BY <1>1, <1>2, <1>3, LimitNow DEF OrderInv, CallsInOrder

LEMMA FrontWellFormed ==
  ASSUME NEW n, NEW s, WellFormed(s, n), s # <<>>
  PROVE  WellFormed(Front(s), n) /\ Front(s) \in Seq(FrameType)
<1>1. s \in Seq(FrameType)  BY DEF WellFormed
<1>2. Len(s) \in Nat \ {0} /\ Front(s) \in Seq(FrameType) /\ Len(Front(s)) = Len(s) - 1
      /\ \A i \in 1 .. Len(s) - 1 : Front(s)[i] = s[i]
  BY <1>1, FrontLast
<1>3. PICK k \in Nat \ {0} : k = Len(s)  BY <1>2
<1>4. /\ \A i \in 1 .. k - 1 : i \in 1 .. k
      /\ \A i \in 1 .. (k - 1) - 1 : i \in 1 .. k - 1
  BY <1>3
<1> QED  BY <1>2, <1>3, <1>4 DEF WellFormed

\* The call on top, and those below it.
LEMMA TopOrder ==
  ASSUME ParserInv, NEW c, NEW R \in SUBSET Nat, OrderInv(c, R),
         control \in {"return", RHS, "parsePrototype"}
  PROVE  /\ stack # <<>> /\ Last(stack) \in FrameType /\ FrameOK(Last(stack), Len(nodes))
         /\ Last(stack).at \in Nat /\ Last(stack).prec \in Nat /\ Last(stack).kids \in Seq(Nat)
         /\ WellFormed(Front(stack), Len(nodes)) /\ Front(stack) \in Seq(FrameType)
         /\ Order(R, Front(stack), c, Limit)
         /\ FrameInOrder(c, Last(stack)) /\ Before(All(c, Last(stack)), {Limit})
         /\ After(R, Front(stack), c, Has(c, Last(stack)))
         /\ All(c, Last(stack)) \in SUBSET Nat /\ Has(c, Last(stack)) \subseteq All(c, Last(stack))
         /\ Own(Last(stack)) \subseteq Has(c, Last(stack))
<1>1. stack # <<>> /\ Running
  BY DEF ParserInv, TopMatchesControl, Running, Outcomes, RHS
<1>2. /\ WellFormed(stack, Len(nodes)) /\ stack \in Seq(FrameType)
      /\ AllPlaces(c, Len(nodes)) /\ Order(R, stack, c, Limit)
  BY <1>1, OrderNow
<1>3. Last(stack) \in FrameType /\ FrameOK(Last(stack), Len(nodes))
  BY <1>1, <1>2, FrameFacts
<1>4. Last(stack).at \in Nat /\ Last(stack).prec \in Nat /\ Last(stack).kids \in Seq(Nat)
  BY <1>3 DEF FrameType
<1>5. /\ Order(R, Front(stack), c, Limit)
      /\ FrameInOrder(c, Last(stack)) /\ Before(All(c, Last(stack)), {Limit})
      /\ After(R, Front(stack), c, Has(c, Last(stack)))
  BY <1>1, <1>2, PopOrder
<1>6. WellFormed(Front(stack), Len(nodes)) /\ Front(stack) \in Seq(FrameType)
  BY <1>1, <1>2, FrontWellFormed
<1> QED  BY <1>1, <1>2, <1>3, <1>4, <1>5, <1>6, CallPlaces

\* A node on its way to the call on top.
LEMMA ValueOrder ==
  ASSUME ParserInv, NEW c, NEW R \in SUBSET Nat, OrderInv(c, R),
         control = "return", value # Nil
  PROVE  /\ value \in 1 .. Len(nodes) /\ value \in Nat /\ c[value] \in SUBSET Nat
         /\ Before(c[value], {Limit}) /\ After(R, Front(stack), c, c[value])
         /\ Before(Has(c, Last(stack)), c[value])
<1>1. value \in 1 .. Len(nodes) /\ value \in Nat
  <2>1. Len(nodes) \in Nat /\ value \in 0 .. Len(nodes)  BY OrderNow
  <2> QED  BY <2>1 DEF Nil
<1>2. c[value] \in SUBSET Nat
  BY <1>1, OrderNow DEF AllPlaces
<1>3. Before(c[value], {Limit}) /\ After(R, stack, c, c[value])
  BY DEF OrderInv, CallsInOrder
<1>4. stack # <<>> /\ stack \in Seq(FrameType) /\ Order(R, stack, c, Limit)
  BY TopOrder, OrderNow DEF Running, Outcomes
<1> QED  BY <1>1, <1>2, <1>3, <1>4, PopOrder

-----------------------------------------------------------------------------
(* The ways a step ends *)

LEMMA HaltOrder ==
  ASSUME NEW c, NEW R, OrderInv(c, R), UNCHANGED nodes, control' \in Outcomes
  PROVE  OrderInv(c, R)'
  BY DEF OrderInv, CallsInOrder, Running, Outcomes, NodesInOrder

\* A call of parseExpression() holds nothing yet.
LEMMA ExpressionOrder ==
  ASSUME NEW R, NEW s \in Seq(FrameType), NEW c, NEW p, Order(R, s, c, p)
  PROVE  Order(R, Append(s, Frame("parseExpression", 0, 0, <<>>)), c, p)
<1> DEFINE f == Frame("parseExpression", 0, 0, <<>>)
<1>1. f \in FrameType /\ f.fn = "parseExpression" /\ f.kids = <<>>
  BY DEF Frame, FrameType, CallSites
<1> HIDE DEF f
<1>2. Own(f) = {}
  BY <1>1 DEF Own, Claiming, Keywords
<1>3. FrameInOrder(c, f)
  BY <1>1, NoKidsInOrder DEF FrameInOrder
<1>4. All(c, f) = {} /\ Has(c, f) = {}
  BY <1>1, <1>2, NoKidsInOrder DEF All, Has, KidsCover, Keeps
<1>5. Before({}, {p}) /\ After(R, s, c, {})
  BY BeforeParts, AfterParts
<1> QED  BY <1>1, <1>3, <1>4, <1>5, PushOrder DEF f

LEMMA CallOrder ==
  ASSUME ParserInv, NEW c, NEW R \in SUBSET Nat, OrderInv(c, R),
         NEW s, WellFormed(s, Len(nodes)), NEW p \in Nat, Order(R, s, c, p),
         NEW n \in Nat, p <= Reads(n), CallExpression(s, n)
  PROVE  OrderInv(c, R)'
<1>1. TypeOK /\ AllPlaces(c, Len(nodes)) /\ NodesInOrder(c, nodes) /\ s \in Seq(FrameType)
  BY OrderNow DEF WellFormed
<1>2. /\ stack' = Append(s, Frame("parseExpression", 0, 0, <<>>)) /\ control' = "parsePrimary"
      /\ pos' = Reads(n) /\ nodes' = nodes
  BY DEF CallExpression
<1>3. Reads(n) \in Nat
  BY <1>1, ReadsOn
<1>4. Order(R, s, c, Reads(n))
  BY <1>1, <1>3, OrderLater
<1>5. Order(R, stack', c, Reads(n))
  BY <1>1, <1>2, <1>4, ExpressionOrder
<1>6. Limit' = Reads(n)
  BY <1>2 DEF Limit, CursorUsed, RHS
<1>7. NodesInOrder(c, nodes')
  BY <1>1, <1>2
<1> QED  BY <1>2, <1>5, <1>6, <1>7 DEF OrderInv, CallsInOrder

LEMMA ReturnOrder ==
  ASSUME ParserInv, NEW c, NEW R \in SUBSET Nat, OrderInv(c, R),
         NEW s, WellFormed(s, Len(nodes)), NEW p \in Nat, Order(R, s, c, p),
         NEW n \in Nat, NEW v, Return(v, s, n), p <= Limit',
         v # Nil => v \in 1 .. Len(nodes) /\ After(R, s, c, c[v]) /\ Before(c[v], {p})
  PROVE  OrderInv(c, R)'
<1>1. TypeOK /\ AllPlaces(c, Len(nodes)) /\ NodesInOrder(c, nodes)
  BY OrderNow
<1>2. /\ stack' = s /\ control' = "return" /\ pos' = Reads(n) /\ nodes' = nodes /\ value' = v
      /\ UNCHANGED tokens
  BY DEF Return
<1>3. Limit' \in Nat
  BY <1>1, <1>2, LimitMoves
<1>4. Order(R, stack', c, Limit')
  BY <1>1, <1>2, <1>3, OrderLater
<1>5. ASSUME v # Nil PROVE After(R, stack', c, c[v]) /\ Before(c[v], {Limit'})
  <2>1. c[v] \in SUBSET Nat  BY <1>1, <1>5 DEF AllPlaces
  <2> QED  BY <1>2, <1>3, <1>5, <2>1, BeforeLater
<1>6. NodesInOrder(c, nodes')
  BY <1>1, <1>2
<1> QED  BY <1>2, <1>4, <1>5, <1>6 DEF OrderInv, CallsInOrder

\* X has the tokens of the new node.
LEMMA ReturnNewOrder ==
  ASSUME ParserInv, NEW c, NEW R \in SUBSET Nat, OrderInv(c, R), Covers(c, nodes'),
         NEW s, WellFormed(s, Len(nodes)), NEW p \in Nat, Order(R, s, c, p),
         NEW node \in NodeType, \A i \in DOMAIN node.kids : node.kids[i] \in 1 .. Len(nodes),
         NodeInOrder(c, node), NEW n \in Nat, ReturnNew(node, s, n), p <= Limit',
         NEW X, {node.at} \cup UNION {c[node.kids[i]] : i \in DOMAIN node.kids} \subseteq X,
         After(R, s, c, X), Before(X, {Limit'})
  PROVE  OrderInv(c, R)'
<1>1. /\ TypeOK /\ HeapOK(nodes) /\ AllPlaces(c, Len(nodes)) /\ NodesInOrder(c, nodes)
      /\ Len(nodes) \in Nat
  BY OrderNow
<1>2. /\ stack' = s /\ control' = "return" /\ pos' = Reads(n)
      /\ nodes' = Append(nodes, node) /\ value' = Len(nodes) + 1 /\ UNCHANGED tokens
  BY DEF ReturnNew
<1>3. Limit' \in Nat
  BY <1>1, <1>2, LimitMoves
<1>4. Order(R, stack', c, Limit')
  BY <1>1, <1>2, <1>3, OrderLater
<1>5. /\ c[value'] \subseteq X
      /\ NodesInOrder(c, nodes')
  BY <1>1, <1>2, NodeOrder
<1>6. After(R, stack', c, c[value']) /\ Before(c[value'], {Limit'})
  BY <1>2, <1>5, AfterParts, BeforeParts
<1> QED  BY <1>2, <1>4, <1>5, <1>6 DEF OrderInv, CallsInOrder

-----------------------------------------------------------------------------
(* parsePrimary(): what it takes is at Limit *)

LEMMA LeafOrder ==
  ASSUME NEW c, NEW kind \in NodeKinds \ {"binary"}, NEW at \in Nat, NEW n
  PROVE  /\ Node(kind, at, <<>>) \in NodeType /\ NodeInOrder(c, Node(kind, at, <<>>))
         /\ \A i \in DOMAIN Node(kind, at, <<>>).kids : Node(kind, at, <<>>).kids[i] \in 1 .. n
         /\ UNION {c[Node(kind, at, <<>>).kids[i]] : i \in DOMAIN Node(kind, at, <<>>).kids} = {}
<1> DEFINE node == Node(kind, at, <<>>)
<1>1. node.kind = kind /\ node.at = at /\ node.kids = <<>>
  BY DEF Node
<1>2. node \in NodeType /\ \A i \in DOMAIN node.kids : node.kids[i] \in 1 .. n
  BY Leaf
<1>3. NodeInOrder(c, node)
  BY <1>1, NoKidsInOrder DEF NodeInOrder
<1> QED  BY <1>1, <1>2, <1>3, NoKidsInOrder

\* A call of parsePrimary() that waits may keep the token at the cursor.
LEMMA PushPrimaryOrder ==
  ASSUME ParserInv, NEW c, NEW R \in SUBSET Nat, OrderInv(c, R),
         control = "parsePrimary", NEW at \in Nat, NEW n \in Nat,
         NEW fn \in {"argument", "condition", "parentheses", "curlyBrackets"},
         fn \in Claiming => at = pos /\ pos < Reads(n),
         CallExpression(Append(stack, Frame(fn, at, 0, <<>>)), n)
  PROVE  OrderInv(c, R)'
<1> DEFINE f == Frame(fn, at, 0, <<>>)
<1>1. f \in FrameType /\ f.fn = fn /\ f.at = at /\ f.kids = <<>>
  <2>1. fn \in CallSites /\ <<>> \in Seq(Nat) /\ 0 \in Nat  BY DEF CallSites
  <2> QED  BY <2>1 DEF Frame, FrameType
<1>2. /\ TypeOK /\ pos \in Nat /\ WellFormed(stack, Len(nodes)) /\ stack \in Seq(FrameType)
      /\ AllPlaces(c, Len(nodes)) /\ Order(R, stack, c, Limit)
  BY OrderNow DEF Running, Outcomes
<1>3. Limit = pos
  BY DEF Limit, CursorUsed, RHS
<1>4. Reads(n) \in Nat /\ pos <= Reads(n)
  BY <1>2, ReadsOn
<1>5. Order(R, stack, c, Reads(n)) /\ After(R, stack, c, {pos})
  BY <1>2, <1>3, <1>4, OrderLater, AfterLimit
<1> HIDE DEF f
<1>6. All(c, f) = Own(f) /\ Has(c, f) = Own(f) /\ FrameInOrder(c, f)
  <2>1. f.fn \notin {"operand", "nested"}  BY <1>1
  <2> QED  BY <1>1, <2>1, NoKidsInOrder DEF All, Has, KidsCover, Keeps, FrameInOrder
<1>7. Own(f) \subseteq {pos} /\ Before(Own(f), {Reads(n)})
  BY <1>1 DEF Own, Before
<1>8. After(R, stack, c, Has(c, f))
  BY <1>5, <1>6, <1>7, AfterParts
<1>9. Order(R, Append(stack, f), c, Reads(n))
  BY <1>1, <1>2, <1>5, <1>6, <1>7, <1>8, PushOrder
<1>10. WellFormed(Append(stack, f), Len(nodes))
  <2>1. stack # <<>> /\ Waiting(Last(stack))
    BY DEF ParserInv, TopMatchesControl, Running, Outcomes, Waiting, Keywords, RHS
  <2>2. FrameOK(f, Len(nodes)) /\ f.fn \notin Bottoms
    BY <1>1 DEF FrameOK, Bottoms, Keywords, RHS
  <2> QED  BY <1>1, <1>2, <2>1, <2>2, Push
<1>11. Reads(n) <= Reads(n)  BY <1>4
<1> QED  BY <1>4, <1>9, <1>10, <1>11, CallOrder DEF f

LEMMA PrimaryOrder ==
  ASSUME ParserInv, NEW c, NEW R \in SUBSET Nat, OrderInv(c, R), Covers(c, nodes'),
         ParsePrimary
  PROVE  OrderInv(c, R)'
<1>1. control = "parsePrimary"
  BY DEF ParsePrimary, Overflow, UnknownToken, NoPrimary, Number, Variable,
     CallWithoutArguments, CallCutShort, CallWithArguments, BeginTernary,
     OperatorAsPrimary, BeginParentheses, BeginCurlyBrackets, IsCall, AtPrimary
<1>2. /\ TypeOK /\ pos \in Nat /\ WellFormed(stack, Len(nodes))
      /\ AllPlaces(c, Len(nodes)) /\ Order(R, stack, c, Limit)
  BY <1>1, OrderNow DEF Running, Outcomes
<1>3. Limit = pos
  BY <1>1 DEF Limit, CursorUsed, RHS
<1>4. CASE Overflow \/ UnknownToken
  BY <1>4, HaltOrder DEF Overflow, UnknownToken, Halt, Outcomes
<1>5. ASSUME NEW n \in Nat, Return(Nil, stack, n) PROVE OrderInv(c, R)'
  <2>1. pos <= Limit'
    <3>1. pos' = Reads(n) /\ UNCHANGED tokens  BY <1>5 DEF Return
    <3>2. pos' \in Nat /\ Limit' \in Nat /\ pos' <= Limit' /\ pos <= pos'
      BY <1>2, <3>1, LimitMoves
    <3> QED  BY <1>2, <3>2
  <2> QED  BY <1>2, <1>3, <1>5, <2>1, ReturnOrder
<1>6. ASSUME NEW kind \in {"number", "variable", "call"}, NEW n \in Nat,
             ReturnNew(Node(kind, pos, <<>>), stack, n), pos < Limit'
      PROVE  OrderInv(c, R)'
  <2> DEFINE node == Node(kind, pos, <<>>)
  <2>1. kind \in NodeKinds \ {"binary"}  BY DEF NodeKinds
  <2>2. /\ node \in NodeType /\ NodeInOrder(c, node) /\ node.at = pos
        /\ \A i \in DOMAIN node.kids : node.kids[i] \in 1 .. Len(nodes)
        /\ UNION {c[node.kids[i]] : i \in DOMAIN node.kids} = {}
    BY <1>2, <2>1, LeafOrder DEF Node
  <2> HIDE DEF node
  <2>3. /\ {node.at} \cup UNION {c[node.kids[i]] : i \in DOMAIN node.kids} \subseteq {pos}
        /\ Before({pos}, {Limit'})
    BY <1>6, <2>2 DEF Before
  <2>4. After(R, stack, c, {pos})
    <3>1. pos <= pos  BY <1>2
    <3> QED  BY <1>2, <1>3, <3>1, AfterLimit
  <2>5. pos <= Limit'
    <3>1. pos' = Reads(n) /\ UNCHANGED tokens  BY <1>6 DEF ReturnNew
    <3>2. Limit' \in Nat  BY <1>2, <3>1, LimitMoves
    <3>3. pos \in Nat /\ pos < Limit'  BY <1>2, <1>6
    <3> QED  BY <3>2, <3>3
  <2>6. ReturnNew(node, stack, n)
    BY <1>6 DEF node
  <2> QED  BY <1>2, <1>3, <2>2, <2>3, <2>4, <2>5, <2>6, ReturnNewOrder, SMTT(30)
<1>7. CASE NoPrimary \/ CallCutShort
  BY <1>5, <1>7 DEF NoPrimary, CallCutShort
<1>8. ASSUME NEW kind \in {"number", "variable"}, OnLiteral,
             ReturnNew(Node(kind, pos, <<>>), stack, 0)
      PROVE  OrderInv(c, R)'
  <2>1. /\ pos' = Reads(0) /\ UNCHANGED tokens /\ control' = "return"
        /\ value' = Len(nodes) + 1
    BY <1>8 DEF ReturnNew
  <2>2. pos' = pos /\ value' # Nil
    BY <1>2, <2>1, NoRead, OrderNow DEF Nil
  <2>3. OnLiteral'
    BY <1>8, <2>1, <2>2 DEF OnLiteral, Current, Stalk, TokenAt
  <2>4. Limit' = pos + 1
    BY <2>1, <2>2, <2>3 DEF Limit, CursorUsed
  <2>5. pos < Limit'  BY <1>2, <2>4
  <2> QED  BY <1>6, <1>8, <2>5
<1>9. CASE Number \/ Variable
  <2>1. OnLiteral  BY <1>9 DEF Number, Variable, OnLiteral
  <2> QED  BY <1>8, <1>9, <2>1 DEF Number, Variable
<1>10. ASSUME NEW n \in Nat \ {0}, Current # NoToken PROVE pos < Reads(n) /\ n \in Nat
  <2>1. PICK k \in Nat : k = Len(tokens)  BY <1>2 DEF TypeOK
  <2>2. pos <= k  BY <1>2, <1>10, <2>1 DEF Current, TokenAt
  <2> QED  BY <1>2, <2>1, <2>2 DEF Reads
<1>11. CASE CallWithoutArguments
  <2>1. ReturnNew(Node("call", pos, <<>>), stack, 2) /\ Current # NoToken
    BY <1>11 DEF CallWithoutArguments, IsCall, NoToken
  <2>2. pos' = Reads(2) /\ UNCHANGED tokens  BY <2>1 DEF ReturnNew
  <2>3. pos' \in Nat /\ Limit' \in Nat /\ pos' <= Limit'  BY <1>2, <2>2, LimitMoves
  <2>4. pos < Limit'
    <3>1. pos < pos'  BY <1>10, <2>1, <2>2
    <3> QED  BY <1>2, <2>3, <3>1
  <2> QED  BY <1>6, <2>1, <2>4
<1>12. CASE CallWithArguments
  <2>1. Current # NoToken  BY <1>12 DEF CallWithArguments, IsCall, NoToken
  <2>2. pos < Reads(2)  BY <1>10, <2>1
  <2> QED  BY <1>1, <1>2, <1>12, <2>2, PushPrimaryOrder DEF CallWithArguments
<1>13. CASE BeginTernary
  <2>1. Current # NoToken  BY <1>13 DEF BeginTernary, NoToken
  <2>2. pos < Reads(1)  BY <1>10, <2>1
  <2> QED  BY <1>1, <1>2, <1>13, <2>2, PushPrimaryOrder DEF BeginTernary
<1>14. CASE OperatorAsPrimary
  <2>1. pos <= Reads(0)  BY <1>2, ReadsOn
  <2> QED  BY <1>2, <1>3, <1>14, <2>1, CallOrder DEF OperatorAsPrimary
<1>15. CASE BeginParentheses
  <2>1. "parentheses" \notin Claiming /\ pos + 2 \in Nat  BY <1>2 DEF Claiming, Keywords
  <2> QED  BY <1>1, <1>5, <1>15, <2>1, PushPrimaryOrder DEF BeginParentheses
<1>16. CASE BeginCurlyBrackets
  <2>1. "curlyBrackets" \notin Claiming  BY DEF Claiming, Keywords
  <2> QED  BY <1>1, <1>16, <2>1, PushPrimaryOrder DEF BeginCurlyBrackets
<1> QED  BY <1>4, <1>7, <1>9, <1>11, <1>12, <1>13, <1>14, <1>15, <1>16 DEF ParsePrimary

-----------------------------------------------------------------------------
(* A function has returned to the call on top *)

\* The call on top takes the value after the nodes it has, or as its first.
LEMMA TakeOrder ==
  ASSUME ParserInv, NEW c, NEW R \in SUBSET Nat, OrderInv(c, R),
         control = "return", value # Nil, Last(stack).fn \notin {"operand", "nested"},
         NEW kids, kids = Append(Last(stack).kids, value) \/ kids = <<value>>
  PROVE  LET X == All(c, Last(stack)) \cup c[value] IN
         /\ kids \in Seq(Nat) /\ \A i \in DOMAIN kids : kids[i] \in 1 .. Len(nodes)
         /\ InOrder(c, Own(Last(stack)), kids)
         /\ Own(Last(stack)) \cup UNION {c[kids[i]] : i \in DOMAIN kids} \subseteq X
         /\ After(R, Front(stack), c, X) /\ Before(X, {Limit}) /\ X \in SUBSET Nat
<1> DEFINE f == Last(stack)
           X == All(c, f) \cup c[value]
<1>1. /\ f \in FrameType /\ FrameOK(f, Len(nodes)) /\ f.kids \in Seq(Nat)
      /\ FrameInOrder(c, f) /\ Before(All(c, f), {Limit})
      /\ After(R, Front(stack), c, Has(c, f))
      /\ All(c, f) \in SUBSET Nat /\ Own(f) \subseteq Has(c, f)
  BY TopOrder
<1>2. /\ value \in 1 .. Len(nodes) /\ value \in Nat /\ c[value] \in SUBSET Nat
      /\ Before(c[value], {Limit}) /\ After(R, Front(stack), c, c[value])
      /\ Before(Has(c, f), c[value])
  BY ValueOrder
<1>3. Has(c, f) = All(c, f) /\ \A i \in DOMAIN f.kids : c[f.kids[i]] \subseteq Has(c, f)
  BY DEF Has, All, KidsCover, Keeps
<1>4. InOrder(c, Own(f), f.kids)
  BY <1>1 DEF FrameInOrder
<1>5. /\ Before(Own(f), c[value])
      /\ \A i \in DOMAIN f.kids : Before(c[f.kids[i]], c[value])
  BY <1>1, <1>2, <1>3, BeforeParts
<1>6. After(R, Front(stack), c, X) /\ Before(X, {Limit}) /\ X \in SUBSET Nat
  BY <1>1, <1>2, <1>3, AfterParts, BeforeParts
<1>7. \A k \in DOMAIN f.kids : f.kids[k] \in 1 .. Len(nodes)
  BY <1>1 DEF FrameOK
<1> HIDE DEF f
<1>8. CASE kids = Append(f.kids, value)
  <2>1. kids \in Seq(Nat) /\ \A i \in DOMAIN kids : kids[i] \in 1 .. Len(nodes)
    BY <1>1, <1>2, <1>7, <1>8, OneMore
  <2>2. /\ InOrder(c, Own(f), kids)
        /\ UNION {c[kids[i]] : i \in DOMAIN kids} = KidsCover(c, f) \cup c[value]
    <3> DEFINE more == Append(f.kids, value)
    <3>1. /\ InOrder(c, Own(f), more)
          /\ UNION {c[more[i]] : i \in DOMAIN more} = KidsCover(c, f) \cup c[value]
      <4>1. f.kids \in Seq(Nat) /\ value \in Nat  BY <1>1, <1>2
      <4>2. /\ InOrder(c, Own(f), more)
            /\ CoverOf(c, more) = CoverOf(c, f.kids) \cup c[value]
        BY <4>1, <1>4, <1>5, OneMoreInOrder
      <4>3. /\ CoverOf(c, f.kids) = KidsCover(c, f)
            /\ CoverOf(c, more) = UNION {c[more[i]] : i \in DOMAIN more}
        BY DEF KidsCover, CoverOf
      <4> QED  BY <4>2, <4>3
    <3> HIDE DEF more
    <3>2. kids = more  BY <1>8 DEF more
    <3> QED  BY <3>1, <3>2
  <2>3. Own(f) \cup UNION {c[kids[i]] : i \in DOMAIN kids} \subseteq X
    BY <2>2 DEF All
  <2> QED  BY <1>6, <2>1, <2>2, <2>3 DEF f
<1>9. CASE kids = <<value>>
  <2>1. kids \in Seq(Nat) /\ \A i \in DOMAIN kids : kids[i] \in 1 .. Len(nodes)
    BY <1>2, <1>9
  <2>2. /\ InOrder(c, Own(f), kids)
        /\ UNION {c[kids[i]] : i \in DOMAIN kids} = c[value]
    <3> DEFINE one == <<value>>
    <3>1. InOrder(c, Own(f), one) /\ UNION {c[one[i]] : i \in DOMAIN one} = c[value]
      BY <1>2, <1>5, NoKidsInOrder
    <3> HIDE DEF one
    <3>2. kids = one  BY <1>9 DEF one
    <3> QED  BY <3>1, <3>2
  <2>3. Own(f) \cup UNION {c[kids[i]] : i \in DOMAIN kids} \subseteq X
    BY <2>2 DEF All
  <2> QED  BY <1>6, <2>1, <2>2, <2>3 DEF f
<1> QED  BY <1>8, <1>9 DEF f

\* The call on top changes.
LEMMA ReplaceOrder ==
  ASSUME ParserInv, NEW c, NEW R \in SUBSET Nat, OrderInv(c, R),
         control \in {"return", RHS, "parsePrototype"},
         NEW g \in FrameType, FrameInOrder(c, g), NEW p \in Nat, Limit <= p,
         Before(All(c, g), {p}), After(R, Front(stack), c, Has(c, g))
  PROVE  Order(R, Replace(g), c, p)
<1>1. /\ WellFormed(Front(stack), Len(nodes)) /\ Front(stack) \in Seq(FrameType)
      /\ Order(R, Front(stack), c, Limit)
  BY TopOrder
<1>2. AllPlaces(c, Len(nodes)) /\ Limit \in Nat  BY OrderNow
<1>3. Order(R, Front(stack), c, p)
  BY <1>1, <1>2, OrderLater
<1> QED  BY <1>1, <1>3, PushOrder DEF Replace

\* With one more node, it calls parseExpression() again, some tokens further.
LEMMA AgainOrder ==
  ASSUME ParserInv, NEW c, NEW R \in SUBSET Nat, OrderInv(c, R),
         control = "return", value # Nil, Last(stack).fn \in {"argument", "condition", "then"},
         NEW g \in FrameType, g.fn \in {"argument", "then", "else"}, g.at = Last(stack).at,
         g.kids = Append(Last(stack).kids, value) \/ g.kids = <<value>>,
         NEW n \in Nat \ {0}, CallExpression(Replace(g), n)
  PROVE  OrderInv(c, R)'
<1> DEFINE f == Last(stack)
           X == All(c, f) \cup c[value]
<1>1. /\ \A i \in DOMAIN g.kids : g.kids[i] \in 1 .. Len(nodes)
      /\ InOrder(c, Own(f), g.kids)
      /\ Own(f) \cup UNION {c[g.kids[i]] : i \in DOMAIN g.kids} \subseteq X
      /\ After(R, Front(stack), c, X) /\ Before(X, {Limit}) /\ X \in SUBSET Nat
  BY TakeOrder
<1>2. Own(g) = Own(f)
  BY DEF Own, Claiming
<1>3. FrameInOrder(c, g) /\ Has(c, g) \subseteq X /\ All(c, g) \subseteq X
  BY <1>1, <1>2 DEF FrameInOrder, Has, All, KidsCover, Keeps
<1>4. TypeOK /\ pos' = Reads(n) /\ UNCHANGED tokens
  BY OrderNow DEF CallExpression
<1>5. Reads(n) \in Nat /\ Limit <= Reads(n) /\ Limit \in Nat
  BY <1>4, LimitRead, ReadsOn, OrderNow
<1> HIDE DEF X
<1>6. Before(All(c, g), {Reads(n)}) /\ After(R, Front(stack), c, Has(c, g))
  <2>1. Before(X, {Reads(n)})  BY <1>1, <1>5, BeforeLater
  <2> QED  BY <1>1, <1>3, <2>1, BeforeParts, AfterParts
<1>7. Order(R, Replace(g), c, Reads(n))
  BY <1>3, <1>5, <1>6, ReplaceOrder
<1>8. WellFormed(Replace(g), Len(nodes))
  <2>1. WellFormed(stack, Len(nodes)) /\ stack # <<>>  BY OrderNow, TopOrder
  <2>2. f.fn \notin Bottoms /\ g.fn \notin Bottoms  BY DEF Bottoms, Keywords
  <2>3. FrameOK(g, Len(nodes))  BY <1>1 DEF FrameOK, RHS
  <2> QED  BY <2>1, <2>2, <2>3, Advance DEF Replace
<1>9. Reads(n) <= Reads(n)  BY <1>5
<1> QED  BY <1>5, <1>7, <1>8, <1>9, CallOrder

\* With one more node, it returns a node of its own.
LEMMA BuildOrder ==
  ASSUME ParserInv, NEW c, NEW R \in SUBSET Nat, OrderInv(c, R), Covers(c, nodes'),
         control = "return", value # Nil, Last(stack).fn \in {"argument", "else"},
         NEW kind \in NodeKinds \ {"binary"}, NEW n \in 0 .. 1,
         ReturnNew(Node(kind, Last(stack).at, Append(Last(stack).kids, value)), Front(stack), n)
  PROVE  OrderInv(c, R)'
<1> DEFINE f == Last(stack)
           X == All(c, f) \cup c[value]
           kids == Append(f.kids, value)
           node == Node(kind, f.at, kids)
<1>1. /\ kids \in Seq(Nat) /\ \A i \in DOMAIN kids : kids[i] \in 1 .. Len(nodes)
      /\ InOrder(c, Own(f), kids)
      /\ Own(f) \cup UNION {c[kids[i]] : i \in DOMAIN kids} \subseteq X
      /\ After(R, Front(stack), c, X) /\ Before(X, {Limit}) /\ X \in SUBSET Nat
  BY TakeOrder
<1>2. Own(f) = {f.at}
  BY DEF Own, Claiming
<1>3. /\ WellFormed(Front(stack), Len(nodes)) /\ Order(R, Front(stack), c, Limit) /\ f.at \in Nat
  BY TopOrder
<1> HIDE DEF X, kids, f
<1>4. node \in NodeType /\ node.at = f.at /\ node.kids = kids /\ node.kind = kind
  BY <1>1, <1>3 DEF Node, NodeType
<1>5. NodeInOrder(c, node)
  <2>1. InOrder(c, {f.at} \ {0}, kids)  BY <1>1, <1>2, LessInOrder
  <2> QED  BY <1>4, <2>1 DEF NodeInOrder
<1>6. ReturnNew(node, Front(stack), n)
  BY DEF node, kids, f
<1>7. Limit <= Limit' /\ Limit \in Nat /\ Limit' \in Nat /\ n \in Nat
  <2>1. /\ TypeOK /\ UNCHANGED tokens /\ pos' = Reads(n) /\ control' = "return"
        /\ value' = Len(nodes) + 1 /\ Len(nodes) \in Nat
    BY <1>6, OrderNow DEF ReturnNew
  <2>2. value' # Nil  BY <2>1 DEF Nil
  <2> QED  BY <2>1, <2>2, LimitPasses, LimitMoves, OrderNow
<1>8. Before(X, {Limit'})
  BY <1>1, <1>7, BeforeLater
<1> HIDE DEF node
<1> QED  BY <1>1, <1>2, <1>3, <1>4, <1>5, <1>6, <1>7, <1>8, ReturnNewOrder

\* It returns a node there is, or nil.
LEMMA PassOrder ==
  ASSUME ParserInv, NEW c, NEW R \in SUBSET Nat, OrderInv(c, R),
         control \in {"return", RHS}, NEW n \in 0 .. 1, NEW v, Return(v, Front(stack), n),
         v = Nil => control = "return" /\ value = Nil,
         v # Nil => /\ v \in 1 .. Len(nodes) /\ After(R, Front(stack), c, c[v])
                    /\ Before(c[v], {Limit})
  PROVE  OrderInv(c, R)'
<1>1. WellFormed(Front(stack), Len(nodes)) /\ Order(R, Front(stack), c, Limit)
  BY TopOrder
<1>2. /\ TypeOK /\ UNCHANGED tokens /\ pos' = Reads(n) /\ control' = "return" /\ value' = v
  BY OrderNow DEF Return
<1>3. Limit <= Limit' /\ Limit \in Nat /\ n \in Nat
  BY <1>2, LimitPasses, OrderNow
<1> QED  BY <1>1, <1>3, ReturnOrder

LEMMA ResumeOrder ==
  ASSUME ParserInv, NEW c, NEW R \in SUBSET Nat, OrderInv(c, R), Covers(c, nodes'), Resume
  PROVE  OrderInv(c, R)'
<1> DEFINE f == Last(stack)
<1>1. control = "return"
  BY DEF Resume, PropagateNil, EndArguments, NextArgument, RejectArguments, EndCondition,
     EndThen, EndElse, EndParentheses, EndCurlyBrackets, AtTop, AtArgument
<1>2. /\ f.at \in Nat /\ f.kids \in Seq(Nat) /\ f \in FrameType
      /\ value # Nil => /\ value \in 1 .. Len(nodes) /\ value \in Nat
                        /\ After(R, Front(stack), c, c[value]) /\ Before(c[value], {Limit})
  BY <1>1, TopOrder, ValueOrder
<1>3. value # Nil => Append(f.kids, value) \in Seq(Nat) /\ <<value>> \in Seq(Nat)
  BY <1>2
<1>4. ASSUME NEW o \in Outcomes, Halt(o) PROVE OrderInv(c, R)'
  BY <1>4, HaltOrder DEF Halt
<1>5. /\ "then" \in CallSites /\ "else" \in CallSites /\ "argument" \in CallSites
      /\ "call" \in NodeKinds \ {"binary"} /\ "cond" \in NodeKinds \ {"binary"}
      /\ "threw" \in Outcomes /\ "trapped" \in Outcomes
      /\ 0 \in 0 .. 1 /\ 1 \in 0 .. 1 /\ 1 \in Nat \ {0} /\ 2 \in Nat \ {0}
  BY DEF CallSites, NodeKinds, Outcomes
<1>6. CASE PropagateNil
  BY <1>1, <1>5, <1>6, PassOrder DEF PropagateNil
<1>7. CASE EndArguments
  <2>1. f.fn = "argument" /\ value # Nil  BY <1>7 DEF EndArguments, AtArgument, AtTop
  <2> QED  BY <1>1, <1>5, <1>7, <2>1, BuildOrder DEF EndArguments
<1>8. CASE NextArgument
  <2> DEFINE g == [f EXCEPT !.kids = Append(@, value)]
  <2>1. f.fn = "argument" /\ value # Nil  BY <1>8 DEF NextArgument, AtArgument, AtTop
  <2>2. g \in FrameType /\ g.fn = f.fn /\ g.at = f.at /\ g.kids = Append(f.kids, value)
    BY <1>2, <1>3, <2>1 DEF FrameType
  <2> HIDE DEF g
  <2>3. CallExpression(Replace(g), 1)
    BY <1>8 DEF NextArgument, g
  <2> QED  BY <1>1, <1>5, <2>1, <2>2, <2>3, AgainOrder
<1>9. CASE RejectArguments
  BY <1>4, <1>5, <1>9 DEF RejectArguments
<1>10. CASE EndCondition
  <2>1. f.fn = "condition" /\ value # Nil  BY <1>10 DEF EndCondition, AtTop
  <2>2. CASE Current = "?"
    <3> DEFINE g == Frame("then", f.at, 0, <<value>>)
    <3>1. g \in FrameType /\ g.fn = "then" /\ g.at = f.at /\ g.kids = <<value>>
      BY <1>2, <1>3, <1>5, <2>1 DEF Frame, FrameType
    <3> HIDE DEF g
    <3>2. CallExpression(Replace(g), 1)
      BY <1>10, <2>2 DEF EndCondition, g
    <3> QED  BY <1>1, <1>5, <2>1, <3>1, <3>2, AgainOrder
  <2>3. CASE Current # "?"
    BY <1>4, <1>5, <1>10, <2>3 DEF EndCondition
  <2> QED  BY <2>2, <2>3
<1>11. CASE EndThen
  <2>1. f.fn = "then"  BY <1>11 DEF EndThen, AtTop
  <2>2. CASE value # Nil /\ Stalk = ":"
    <3> DEFINE g == Frame("else", f.at, 0, Append(f.kids, value))
    <3>1. g \in FrameType /\ g.fn = "else" /\ g.at = f.at /\ g.kids = Append(f.kids, value)
      BY <1>2, <1>3, <1>5, <2>2 DEF Frame, FrameType
    <3> HIDE DEF g
    <3>2. CallExpression(Replace(g), 2)
      BY <1>11, <2>2 DEF EndThen, g
    <3> QED  BY <1>1, <1>5, <2>1, <2>2, <3>1, <3>2, AgainOrder
  <2>3. CASE ~(value # Nil /\ Stalk = ":")
    BY <1>4, <1>5, <1>11, <2>3 DEF EndThen
  <2> QED  BY <2>2, <2>3
<1>12. CASE EndElse
  <2>1. f.fn = "else"  BY <1>12 DEF EndElse, AtTop
  <2>2. CASE value = Nil
    BY <1>4, <1>5, <1>12, <2>2 DEF EndElse
  <2>3. CASE value # Nil
    BY <1>1, <1>5, <1>12, <2>1, <2>3, BuildOrder DEF EndElse
  <2> QED  BY <2>2, <2>3
<1>13. CASE EndParentheses
  BY <1>1, <1>2, <1>4, <1>5, <1>13, PassOrder DEF EndParentheses
<1>14. CASE EndCurlyBrackets
  BY <1>1, <1>2, <1>4, <1>5, <1>14, PassOrder DEF EndCurlyBrackets
<1> QED  BY <1>6, <1>7, <1>8, <1>9, <1>10, <1>11, <1>12, <1>13, <1>14 DEF Resume

-----------------------------------------------------------------------------
(* parseExpression() and parseBinaryOperatorRHS() *)

\* A step of the loop over the operators leaves the value behind, if there was one.
LEMMA LoopsOrder ==
  ASSUME NEW c, NEW R, NodesInOrder(c, nodes'), control' \in {RHS, "parsePrimary"},
         Order(R, stack', c, Limit')
  PROVE  OrderInv(c, R)'
  BY DEF OrderInv, CallsInOrder, RHS

LEMMA LoopFrameOrder ==
  ASSUME NEW c, NEW prec \in Nat, NEW lhs \in Nat
  PROVE  LET g == LoopFrame(prec, lhs) IN
         g \in FrameType /\ FrameInOrder(c, g) /\ All(c, g) = c[lhs] /\ Has(c, g) = c[lhs]
<1> DEFINE g == LoopFrame(prec, lhs)
<1>1. g \in FrameType /\ g.fn = RHS /\ g.kids = <<lhs>>
  BY LoopFrameIn DEF LoopFrame, Frame, RHS
<1>2. Own(g) = {} /\ g.fn \notin {"operand", "nested"}
  BY <1>1, LoopFrameIn DEF Own, RHS
<1> HIDE DEF g
<1>3. InOrder(c, Own(g), g.kids)
  <2>1. Before(Own(g), c[lhs])  BY <1>2, BeforeParts
  <2>2. InOrder(c, Own(g), <<lhs>>)  BY <2>1, NoKidsInOrder
  <2> QED  BY <1>1, <2>2
<1>4. DOMAIN <<lhs>> = {1} /\ <<lhs>>[1] = lhs
  OBVIOUS
<1>5. All(c, g) = c[lhs] /\ Has(c, g) = c[lhs]
  BY <1>1, <1>2, <1>4 DEF All, Has, KidsCover, Keeps
<1> QED  BY <1>1, <1>2, <1>3, <1>5 DEF FrameInOrder, g

\* What comes after a token that comes after the calls does too.
LEMMA AfterThrough ==
  ASSUME NEW R \in SUBSET Nat, NEW n, NEW s, WellFormed(s, n), NEW c, AllPlaces(c, n),
         NEW x \in Nat, After(R, s, c, {x}), NEW T \in SUBSET Nat, Before({x}, T)
  PROVE  After(R, s, c, T)
<1>1. \A S \in SUBSET Nat : Before(S, {x}) => Before(S, T)
  BY DEF Before
<1>2. s \in Seq(FrameType)  BY DEF WellFormed
<1>3. \A i \in 1 .. Len(s) : Has(c, s[i]) \in SUBSET Nat
  <2>1. \A i \in 1 .. Len(s) : s[i] \in FrameType /\ FrameOK(s[i], n)
    BY <1>2 DEF WellFormed
  <2> QED  BY <2>1, CallPlaces
<1> QED  BY <1>1, <1>3 DEF After

\* The operator and its operands become a node, and the loop goes on with it.
LEMMA CombineOrder ==
  ASSUME ParserInv, NEW c, NEW R \in SUBSET Nat, OrderInv(c, R), Covers(c, nodes'),
         control = "return", Last(stack).fn \in {"operand", "nested"},
         NEW rhs \in 1 .. Len(nodes), Before({Last(stack).at}, c[rhs]), Before(c[rhs], {Limit}),
         Combine(Last(stack), rhs)
  PROVE  OrderInv(c, R)'
<1> DEFINE f == Last(stack)
           lhs == f.kids[1]
           node == Node("binary", f.at, <<lhs, rhs>>)
           g == LoopFrame(f.prec, Len(nodes) + 1)
           X == All(c, f) \cup c[rhs]
<1>1. /\ f \in FrameType /\ FrameOK(f, Len(nodes)) /\ f.at \in Nat /\ f.prec \in Nat
      /\ f.kids \in Seq(Nat)
      /\ WellFormed(Front(stack), Len(nodes))
      /\ FrameInOrder(c, f) /\ Before(All(c, f), {Limit})
      /\ After(R, Front(stack), c, Has(c, f))
      /\ All(c, f) \in SUBSET Nat /\ Own(f) \subseteq Has(c, f) /\ Has(c, f) \subseteq All(c, f)
  BY TopOrder
<1>2. /\ TypeOK /\ HeapOK(nodes) /\ Len(nodes) \in Nat /\ AllPlaces(c, Len(nodes))
      /\ NodesInOrder(c, nodes) /\ Limit \in Nat
  BY OrderNow
<1>3. Own(f) = {f.at}
  BY DEF Own, Claiming
<1>4. lhs \in 1 .. Len(nodes) /\ c[lhs] \subseteq Has(c, f)
  <2>1. Len(f.kids) \in {1, 2} /\ f.fn = "nested" => Len(f.kids) = 2  BY <1>1 DEF FrameOK
  <2>2. 1 \in DOMAIN f.kids /\ 1 \in Keeps(f)  BY <1>1, <2>1 DEF Keeps, FrameOK
  <2> QED  BY <1>1, <2>2 DEF FrameOK, Has
<1>5. c[rhs] \in SUBSET Nat /\ c[lhs] \in SUBSET Nat
  BY <1>2, <1>4 DEF AllPlaces
<1>6. Before(c[lhs], {f.at}) /\ Before(c[lhs], c[rhs])
  <2>1. Before(c[lhs], {f.at})  BY <1>1, <1>3 DEF FrameInOrder
  <2> QED  BY <1>1, <1>5, <2>1 DEF Before
<1>7. /\ nodes' = Append(nodes, node) /\ stack' = Append(Front(stack), g) /\ pos' = Reads(1)
      /\ control' = RHS /\ UNCHANGED tokens
  BY DEF Combine, Replace, RHS
<1>8. rhs \in Nat /\ lhs \in Nat  BY <1>2, <1>4
<1> HIDE DEF f, lhs, g
<1>9. node \in NodeType /\ NodeInOrder(c, node)
  <2>1. <<lhs, rhs>> \in Seq(Nat) /\ "binary" \in NodeKinds  BY <1>8 DEF NodeKinds
  <2>2. node \in NodeType  BY <1>1, <2>1, NodeIn
  <2>3. {f.at} \ {0} \subseteq {f.at}  OBVIOUS
  <2>4. Before(c[lhs], {f.at} \ {0}) /\ Before({f.at} \ {0}, c[rhs])
    BY <1>6, <2>3, BeforeParts DEF f
  <2>5. /\ node.kind = "binary" /\ node.at = f.at /\ node.kids[1] = lhs /\ node.kids[2] = rhs
        /\ Len(node.kids) = 2
    BY DEF Node
  <2> QED  BY <1>6, <2>2, <2>4, <2>5 DEF NodeInOrder
<1>10. /\ NodesInOrder(c, nodes')
       /\ c[Len(nodes) + 1] \subseteq {f.at} \cup c[lhs] \cup c[rhs]
  <2>1. node.at = f.at /\ node.kids = <<lhs, rhs>>  BY DEF Node
  <2>2. DOMAIN <<lhs, rhs>> = {1, 2} /\ <<lhs, rhs>>[1] = lhs /\ <<lhs, rhs>>[2] = rhs
    OBVIOUS
  <2> HIDE DEF node
  <2>3. \A i \in DOMAIN node.kids : node.kids[i] \in 1 .. Len(nodes)
    BY <1>4, <2>1, <2>2
  <2>4. /\ NodesInOrder(c, nodes')
        /\ c[Len(nodes) + 1] = ({node.at} \ {0}) \cup UNION {c[node.kids[i]] : i \in DOMAIN node.kids}
    BY <1>2, <1>7, <1>9, <2>3, NodeOrder
  <2> QED  BY <2>1, <2>2, <2>4
<1>11. {f.at} \cup c[lhs] \cup c[rhs] \subseteq X /\ X \in SUBSET Nat /\ Before(X, {Limit})
  BY <1>1, <1>3, <1>4, <1>5, BeforeParts
<1>12. After(R, Front(stack), c, {f.at} \cup c[lhs] \cup c[rhs])
  <2>1. After(R, Front(stack), c, {f.at}) /\ After(R, Front(stack), c, c[lhs])
    BY <1>1, <1>3, <1>4, AfterParts
  <2>2. After(R, Front(stack), c, c[rhs])
    BY <1>1, <1>2, <1>5, <2>1, AfterThrough DEF f
  <2> QED  BY <2>1, <2>2, AfterParts
<1>13. Limit <= Limit' /\ Limit' \in Nat
  BY <1>2, <1>7, LimitPasses, LimitMoves DEF RHS
<1>14. /\ After(R, Front(stack), c, c[Len(nodes) + 1])
       /\ Before(c[Len(nodes) + 1], {Limit'})
  <2> DEFINE Y == {f.at} \cup c[lhs] \cup c[rhs]
  <2>1. Before(X, {Limit'})  BY <1>2, <1>11, <1>13, BeforeLater
  <2>2. c[Len(nodes) + 1] \subseteq Y /\ Y \subseteq X /\ After(R, Front(stack), c, Y)
    BY <1>10, <1>11, <1>12
  <2> HIDE DEF X, Y
  <2>3. c[Len(nodes) + 1] \subseteq X  BY <2>2
  <2>4. After(R, Front(stack), c, c[Len(nodes) + 1])  BY <2>2, AfterParts
  <2>5. Before(c[Len(nodes) + 1], {Limit'})  BY <2>1, <2>3, BeforeParts
  <2> QED  BY <2>4, <2>5
<1>15. /\ g \in FrameType /\ FrameInOrder(c, g)
       /\ All(c, g) = c[Len(nodes) + 1] /\ Has(c, g) = c[Len(nodes) + 1]
  <2>1. Len(nodes) + 1 \in Nat  BY <1>2
  <2> QED  BY <1>1, <2>1, LoopFrameOrder DEF g
<1>16. Order(R, stack', c, Limit')
  BY <1>7, <1>13, <1>14, <1>15, ReplaceOrder DEF Replace
<1> QED  BY <1>7, <1>10, <1>16, LoopsOrder

LEMMA SecondKid ==
  ASSUME NEW kids \in Seq(Nat), Len(kids) = 1, NEW v \in Nat
  PROVE  LET more == Append(kids, v) IN
         more \in Seq(Nat) /\ more[1] = kids[1] /\ more[2] = v /\ DOMAIN more = {1, 2}
<1> DEFINE more == Append(kids, v)
<1>1. more \in Seq(Nat) /\ Len(more) = Len(kids) + 1
  BY AppendProperties
<1>2. \A i \in 1 .. Len(kids) : more[i] = kids[i]
  BY AppendProperties
<1>3. more[Len(kids) + 1] = v
  BY AppendProperties
<1> HIDE DEF more
<1>4. more[1] = kids[1] /\ more[2] = v
  BY <1>2, <1>3
<1>5. DOMAIN more = {1, 2}
  <2>1. Len(more) = 2  BY <1>1
  <2> QED  BY <1>1, <2>1
<1> QED  BY <1>1, <1>4, <1>5 DEF more

LEMMA OperatorsOrder ==
  ASSUME ParserInv, NEW c, NEW R \in SUBSET Nat, OrderInv(c, R), Covers(c, nodes'),
         ParseOperators
  PROVE  OrderInv(c, R)'
<1> DEFINE f == Last(stack)
<1>1. control \in {"return", RHS}
  BY DEF ParseOperators, BeginOperators, TakeOperator, EndOperators, ClimbOperators,
     CombineOperand, CombineNested, AtTop, RHS
<1>2. /\ f \in FrameType /\ FrameOK(f, Len(nodes)) /\ f.at \in Nat /\ f.prec \in Nat
      /\ f.kids \in Seq(Nat) /\ Front(stack) \in Seq(FrameType)
      /\ FrameInOrder(c, f) /\ Before(All(c, f), {Limit})
      /\ After(R, Front(stack), c, Has(c, f))
      /\ All(c, f) \in SUBSET Nat /\ Own(f) \subseteq Has(c, f) /\ Has(c, f) \subseteq All(c, f)
  BY <1>1, TopOrder
<1>3. /\ TypeOK /\ pos \in Nat /\ Limit \in Nat /\ Limit <= pos + 1 /\ AllPlaces(c, Len(nodes))
      /\ NodesInOrder(c, nodes) /\ Len(nodes) \in Nat /\ WellFormed(stack, Len(nodes))
      /\ Order(R, stack, c, Limit)
  BY <1>1, OrderNow DEF Running, Outcomes, RHS
<1>4. control = "return" /\ value # Nil =>
        /\ value \in 1 .. Len(nodes) /\ value \in Nat /\ c[value] \in SUBSET Nat
        /\ Before(c[value], {Limit}) /\ After(R, Front(stack), c, c[value])
        /\ Before(Has(c, f), c[value])
  BY ValueOrder
<1>5. /\ f.fn \in {RHS, "operand"} => Len(f.kids) = 1
      /\ f.fn = "nested" => Len(f.kids) = 2
      /\ f.fn \in {"operand", "nested"} => tokens[f.at] \in Operators
      /\ \A k \in DOMAIN f.kids : f.kids[k] \in 1 .. Len(nodes)
  BY <1>2 DEF FrameOK
<1>6. f.fn \in {RHS, "operand"} =>
        /\ DOMAIN f.kids = {1} /\ f.kids[1] \in 1 .. Len(nodes)
        /\ c[f.kids[1]] \subseteq Has(c, f) /\ KidsCover(c, f) = c[f.kids[1]]
  <2> SUFFICES ASSUME f.fn \in {RHS, "operand"}
               PROVE  /\ DOMAIN f.kids = {1} /\ f.kids[1] \in 1 .. Len(nodes)
                      /\ c[f.kids[1]] \subseteq Has(c, f) /\ KidsCover(c, f) = c[f.kids[1]]
    OBVIOUS
  <2>1. DOMAIN f.kids = {1}  BY <1>2, <1>5
  <2>2. Keeps(f) = {1}  BY <2>1 DEF Keeps, RHS
  <2> QED  BY <1>5, <2>1, <2>2 DEF Has, KidsCover
<1>7. CASE BeginOperators
  <2> DEFINE g == LoopFrame(0, value)
  <2>1. control = "return" /\ value # Nil  BY <1>7 DEF BeginOperators, AtTop
  <2>2. /\ stack' = Replace(g) /\ control' = RHS /\ pos' = pos /\ nodes' = nodes
        /\ UNCHANGED tokens
    BY <1>7 DEF BeginOperators, RHS
  <2>3. g \in FrameType /\ FrameInOrder(c, g) /\ All(c, g) = c[value] /\ Has(c, g) = c[value]
    BY <1>4, <2>1, LoopFrameOrder
  <2> HIDE DEF g
  <2>4. Limit <= Limit' /\ Limit' \in Nat
    <3>1. pos' = Reads(0) /\ 0 \in 0 .. 1 /\ 0 \in Nat  BY <1>3, <2>2, NoRead
    <3> QED  BY <1>1, <1>3, <2>2, <3>1, LimitPasses, LimitMoves DEF RHS
  <2>5. Before(c[value], {Limit'})
    BY <1>3, <1>4, <2>1, <2>4, BeforeLater
  <2>6. Order(R, stack', c, Limit')
    BY <1>1, <1>4, <2>1, <2>2, <2>3, <2>4, <2>5, ReplaceOrder
  <2> QED  BY <1>3, <2>2, <2>6, LoopsOrder
<1>8. CASE TakeOperator
  <2> DEFINE g == Frame("operand", pos + 1, f.prec, f.kids)
  <2>1. f.fn = RHS
    BY <1>8 DEF TakeOperator, ParserInv, TopMatchesControl, RHS
  <2>2. g \in FrameType /\ g.fn = "operand" /\ g.at = pos + 1 /\ g.kids = f.kids
    <3>1. pos + 1 \in Nat  BY <1>3
    <3> QED  BY <1>2, <3>1 DEF Frame, FrameType, CallSites
  <2>3. /\ stack' = Replace(g) /\ control' = "parsePrimary" /\ pos' = Reads(2)
        /\ nodes' = nodes
    BY <1>8 DEF TakeOperator
  <2>4. pos' = pos + 2
    <3>1. Stalk # NoToken  BY <1>8 DEF TakeOperator, Climbs, Operators, NoToken
    <3> QED  BY <1>3, <2>3, <3>1, Ahead
  <2>5. pos + 1 \in Nat /\ pos' \in Nat /\ Limit <= pos' /\ pos + 1 < pos'
    BY <1>3, <2>4
  <2>6. Limit' = pos'
    BY <2>3 DEF Limit, CursorUsed, RHS
  <2> HIDE DEF g
  <2>7. Own(g) = {pos + 1} /\ All(c, g) = {pos + 1} \cup c[f.kids[1]] /\ Has(c, g) = All(c, g)
    <3>1. Own(g) = {pos + 1}  BY <2>2 DEF Own, Claiming
    <3>2. KidsCover(c, g) = c[f.kids[1]]  BY <1>6, <2>1, <2>2 DEF KidsCover
    <3> QED  BY <2>2, <3>1, <3>2 DEF All, Has, Keeps, KidsCover
  <2>8. c[f.kids[1]] \in SUBSET Nat /\ Before(c[f.kids[1]], {Limit})
    BY <1>2, <1>6, <2>1, BeforeParts
  <2>9. FrameInOrder(c, g)
    <3>1. Before(c[f.kids[1]], {pos + 1})  BY <1>3, <2>5, <2>8, BeforeLater
    <3> QED  BY <2>2, <2>7, <3>1 DEF FrameInOrder
  <2>10. Before(All(c, g), {pos'})
    <3>1. Before(c[f.kids[1]], {pos'})  BY <1>3, <2>5, <2>8, BeforeLater
    <3>2. Before({pos + 1}, {pos'})  BY <2>5 DEF Before
    <3> QED  BY <2>7, <3>1, <3>2, BeforeParts
  <2>11. After(R, Front(stack), c, Has(c, g))
    <3>1. After(R, Front(stack), c, {pos + 1})
      <4>1. WellFormed(Front(stack), Len(nodes)) /\ Order(R, Front(stack), c, Limit)
        BY <1>1, TopOrder
      <4> QED  BY <1>3, <2>5, <4>1, AfterLimit
    <3>2. After(R, Front(stack), c, c[f.kids[1]])
      BY <1>2, <1>6, <2>1, AfterParts
    <3>3. After(R, Front(stack), c, {pos + 1} \cup c[f.kids[1]])
      BY <3>1, <3>2, AfterParts
    <3> QED  BY <2>7, <3>3
  <2>12. Order(R, stack', c, Limit')
    BY <1>1, <2>2, <2>3, <2>5, <2>6, <2>9, <2>10, <2>11, ReplaceOrder
  <2> QED  BY <1>3, <2>3, <2>12, LoopsOrder
<1>9. CASE EndOperators
  <2>1. f.fn = RHS
    BY <1>9 DEF EndOperators, ParserInv, TopMatchesControl, RHS
  <2>2. /\ f.kids[1] # Nil /\ f.kids[1] \in 1 .. Len(nodes)
        /\ After(R, Front(stack), c, c[f.kids[1]]) /\ Before(c[f.kids[1]], {Limit})
    <3>1. f.kids[1] \in 1 .. Len(nodes) /\ c[f.kids[1]] \subseteq Has(c, f)
      BY <1>6, <2>1
    <3>2. f.kids[1] # Nil  BY <1>3, <3>1 DEF Nil
    <3>3. After(R, Front(stack), c, c[f.kids[1]])  BY <1>2, <3>1, AfterParts
    <3>4. c[f.kids[1]] \subseteq All(c, f)  BY <1>2, <3>1
    <3>5. Before(c[f.kids[1]], {Limit})  BY <1>2, <3>4, BeforeParts
    <3> QED  BY <3>1, <3>2, <3>3, <3>5
  <2>3. 0 \in 0 .. 1  OBVIOUS
  <2> QED  BY <1>1, <1>9, <2>2, <2>3, PassOrder DEF EndOperators
<1>10. CASE ClimbOperators
  <2> DEFINE g == Frame("nested", f.at, f.prec, Append(f.kids, value))
             h == LoopFrame(Precedence(tokens[f.at]) + 1, value)
  <2>1. f.fn = "operand" /\ control = "return" /\ value # Nil
    BY <1>10 DEF ClimbOperators, AtTop
  <2>2. /\ stack' = Append(Replace(g), h) /\ control' = RHS
        /\ pos' = pos /\ nodes' = nodes /\ UNCHANGED tokens
    BY <1>10 DEF ClimbOperators, RHS
  <2>3. Len(f.kids) = 1 /\ value \in Nat  BY <1>4, <1>5, <2>1
  <2>4. /\ Append(f.kids, value) \in Seq(Nat) /\ Append(f.kids, value)[1] = f.kids[1]
        /\ Append(f.kids, value)[2] = value /\ DOMAIN Append(f.kids, value) = {1, 2}
    <3> HIDE DEF f
    <3> QED  BY <1>2, <2>3, SecondKid
  <2>5. g \in FrameType /\ g.fn = "nested" /\ g.at = f.at /\ g.kids = Append(f.kids, value)
    BY <1>2, <2>4 DEF Frame, FrameType, CallSites
  <2>6. h \in FrameType /\ FrameInOrder(c, h) /\ All(c, h) = c[value] /\ Has(c, h) = c[value]
    <3>1. Precedence(tokens[f.at]) \in Nat  BY <1>5, <2>1, Precedences
    <3>2. Precedence(tokens[f.at]) + 1 \in Nat  BY <3>1
    <3> QED  BY <2>3, <3>2, LoopFrameOrder
  <2> HIDE DEF g, h
  <2>7. /\ Own(g) = Own(f) /\ Has(c, g) = Has(c, f) /\ All(c, g) = Has(c, f) \cup c[value]
    <3>1. Own(g) = Own(f)  BY <2>1, <2>5 DEF Own, Claiming
    <3>2. Keeps(g) = {1} /\ Keeps(f) = {1}  BY <1>6, <2>1, <2>5 DEF Keeps
    <3>3. KidsCover(c, g) = c[f.kids[1]] \cup c[value]
      BY <2>4, <2>5 DEF KidsCover
    <3> QED  BY <2>4, <2>5, <3>1, <3>2, <3>3 DEF Has, All
  <2>8. FrameInOrder(c, g)
    <3>1. Before(c[f.kids[1]], Own(f))  BY <1>2, <2>1 DEF FrameInOrder
    <3>2. Before(Own(f), c[value])  BY <1>2, <1>4, <2>1, BeforeParts
    <3> QED  BY <2>4, <2>5, <2>7, <3>1, <3>2 DEF FrameInOrder
  <2>9. Limit <= Limit' /\ Limit' \in Nat
    <3>1. pos' = Reads(0) /\ 0 \in 0 .. 1 /\ 0 \in Nat  BY <1>3, <2>2, NoRead
    <3> QED  BY <1>1, <1>3, <2>2, <3>1, LimitPasses, LimitMoves DEF RHS
  <2>10. Before(All(c, g), {Limit'}) /\ Before(All(c, h), {Limit'})
    <3>1. Has(c, f) \in SUBSET Nat /\ Before(Has(c, f), {Limit})  BY <1>2, BeforeParts
    <3>2. Before(Has(c, f), {Limit'}) /\ Before(c[value], {Limit'})
      BY <1>3, <1>4, <2>1, <2>9, <3>1, BeforeLater
    <3> QED  BY <2>6, <2>7, <3>2, BeforeParts
  <2>11. Order(R, Replace(g), c, Limit')
    BY <1>1, <1>2, <2>5, <2>7, <2>8, <2>9, <2>10, ReplaceOrder
  <2>12. After(R, Replace(g), c, Has(c, h))
    <3>1. /\ Len(Replace(g)) = Len(Front(stack)) + 1
          /\ Replace(g)[Len(Front(stack)) + 1] = g
          /\ \A i \in 1 .. Len(Front(stack)) : Replace(g)[i] = Front(stack)[i]
      BY <1>2, <2>5, Appended DEF Replace
    <3>2. Len(Front(stack)) \in Nat  BY <1>2
    <3>3. \A i \in 1 .. Len(Front(stack)) + 1 : i \in 1 .. Len(Front(stack)) \/ i = Len(Front(stack)) + 1
      BY <3>2
    <3>4. Before(Has(c, g), c[value]) /\ After(R, Front(stack), c, c[value])
      BY <1>4, <2>1, <2>7
    <3> QED  BY <2>6, <3>1, <3>3, <3>4 DEF After
  <2>13. Replace(g) \in Seq(FrameType)
    BY <1>2, <2>5, Appended DEF Replace
  <2>14. Order(R, stack', c, Limit')
    BY <2>2, <2>6, <2>10, <2>11, <2>12, <2>13, PushOrder
  <2> QED  BY <1>3, <2>2, <2>14, LoopsOrder
<1>11. CASE CombineOperand
  <2>1. f.fn = "operand" /\ control = "return" /\ value # Nil /\ Combine(f, value)
    BY <1>11 DEF CombineOperand, AtTop
  <2>2. Before({f.at}, c[value])
    <3>1. Own(f) = {f.at}  BY <2>1 DEF Own, Claiming
    <3> QED  BY <1>2, <1>4, <2>1, <3>1, BeforeParts
  <2> QED  BY <1>4, <2>1, <2>2, CombineOrder
<1>12. CASE CombineNested
  <2> DEFINE rhs == IF value = Nil THEN f.kids[2] ELSE value
  <2>1. f.fn = "nested" /\ control = "return" /\ Combine(f, rhs)
    BY <1>12 DEF CombineNested, AtTop
  <2>2. Own(f) = {f.at}  BY <2>1 DEF Own, Claiming
  <2>3. 2 \in DOMAIN f.kids  BY <1>2, <1>5, <2>1
  <2>4. rhs \in 1 .. Len(nodes) /\ Before({f.at}, c[rhs]) /\ Before(c[rhs], {Limit})
    <3>1. CASE value = Nil
      <4>1. f.kids[2] \in 1 .. Len(nodes)  BY <1>5, <2>3
      <4>2. c[f.kids[2]] \subseteq All(c, f)  BY <2>3 DEF All, KidsCover
      <4>3. Before({f.at}, c[f.kids[2]])  BY <1>2, <2>1, <2>2 DEF FrameInOrder
      <4> QED  BY <1>2, <3>1, <4>1, <4>2, <4>3, BeforeParts
    <3>2. CASE value # Nil
      <4>1. Before({f.at}, c[value])  BY <1>2, <1>4, <2>1, <2>2, <3>2, BeforeParts
      <4> QED  BY <1>4, <2>1, <3>2, <4>1
    <3> QED  BY <3>1, <3>2
  <2> HIDE DEF rhs
  <2> QED  BY <2>1, <2>4, CombineOrder
<1> QED  BY <1>7, <1>8, <1>9, <1>10, <1>11, <1>12 DEF ParseOperators
-----------------------------------------------------------------------------
(* parsePrototype() *)

LEMMA ParameterOrder ==
  ASSUME ParserInv, NEW c, NEW R \in SUBSET Nat, OrderInv(c, R), Covers(c, nodes'),
         AddParameter
  PROVE  OrderInv(c, R)'
<1> DEFINE f == Last(stack)
           n == Len(nodes) + 1
           g == [f EXCEPT !.kids = Append(@, n)]
           node == Node("param", pos + 1, <<>>)
<1>1. control = "parsePrototype"  BY DEF AddParameter
<1>2. /\ TypeOK /\ HeapOK(nodes) /\ Len(nodes) \in Nat /\ pos \in Nat /\ pos + 1 \in Nat /\ n \in Nat
      /\ NodesInOrder(c, nodes)
  BY OrderNow
<1>3. /\ f \in FrameType /\ f.at \in Nat /\ f.kids \in Seq(Nat)
      /\ WellFormed(Front(stack), Len(nodes)) /\ Order(R, Front(stack), c, Limit)
      /\ FrameInOrder(c, f) /\ Before(All(c, f), {Limit})
      /\ After(R, Front(stack), c, Has(c, f)) /\ All(c, f) \in SUBSET Nat
  BY <1>1, TopOrder
<1>4. f.fn \in Keywords
  BY <1>1 DEF ParserInv, TopMatchesControl
<1>5. f.fn \notin {"operand", "nested"} /\ Own(f) = {f.at} /\ Has(c, f) = All(c, f)
  BY <1>4 DEF Own, Claiming, Keywords, Has, All, Keeps, KidsCover
<1>6. Limit = pos + 1  BY <1>1 DEF Limit, CursorUsed
<1>7. /\ nodes' = Append(nodes, node) /\ stack' = Replace(g)
      /\ pos' \in {Reads(1), Reads(2)} /\ control' = "parsePrototype"
  BY <1>1 DEF AddParameter
<1>8. Limit' \in Nat /\ pos + 1 < Limit' /\ Limit <= Limit'
  <2>1. Stalk # NoToken  BY DEF AddParameter, Identifiers, NoToken
  <2>2. pos' \in {pos + 1, pos + 2}  BY <1>2, <1>7, <2>1, Ahead
  <2>3. Limit' = pos' + 1  BY <1>7 DEF Limit, CursorUsed
  <2>4. \A p \in Nat : \A q \in {p + 1, p + 2} : q + 1 \in Nat /\ p + 1 < q + 1 /\ p + 1 <= q + 1
    OBVIOUS
  <2>5. pos \in Nat  BY <1>2
  <2> QED  BY <1>6, <2>2, <2>3, <2>4, <2>5
<1>9. c[n] = {pos + 1} /\ NodesInOrder(c, nodes')
  <2>1. "param" \in NodeKinds \ {"binary"}  BY DEF NodeKinds
  <2>2. /\ node \in NodeType /\ NodeInOrder(c, node) /\ node.at = pos + 1
        /\ \A i \in DOMAIN node.kids : node.kids[i] \in 1 .. Len(nodes)
        /\ UNION {c[node.kids[i]] : i \in DOMAIN node.kids} = {}
    BY <1>2, <2>1, LeafOrder DEF Node
  <2> HIDE DEF node
  <2>3. /\ c[n] = ({node.at} \ {0}) \cup UNION {c[node.kids[i]] : i \in DOMAIN node.kids}
        /\ NodesInOrder(c, nodes')
    BY <1>2, <1>7, <2>2, NodeOrder
  <2>4. pos + 1 # 0  BY <1>2
  <2> QED  BY <2>2, <2>3, <2>4
<1>10. InOrder(c, {f.at}, f.kids)
  BY <1>3, <1>5 DEF FrameInOrder
<1> HIDE DEF f, node
<1>11. /\ InOrder(c, {f.at}, Append(f.kids, n))
       /\ UNION {c[Append(f.kids, n)[i]] : i \in DOMAIN Append(f.kids, n)}
            = KidsCover(c, f) \cup c[n]
  <2> DEFINE kids == f.kids
             more == Append(kids, n)
             X == {f.at}
  <2>1. Before(X, c[n]) /\ \A i \in DOMAIN kids : Before(c[kids[i]], c[n])
    <3>1. Before(All(c, f), c[n])  BY <1>3, <1>6, <1>9
    <3>2. X \subseteq All(c, f) /\ \A i \in DOMAIN kids : c[kids[i]] \subseteq All(c, f)
      BY <1>5 DEF All, KidsCover
    <3> QED  BY <3>1, <3>2, BeforeParts
  <2>2. kids \in Seq(Nat) /\ n \in Nat /\ InOrder(c, X, kids)
    BY <1>2, <1>3, <1>10
  <2>3. KidsCover(c, f) = CoverOf(c, kids)
    BY DEF KidsCover, CoverOf
  <2> HIDE DEF n, kids, X, g
  <2>4. InOrder(c, X, more) /\ CoverOf(c, more) = CoverOf(c, kids) \cup c[n]
    BY <2>1, <2>2, OneMoreInOrder, Zenon
  <2>5. CoverOf(c, more) = UNION {c[more[i]] : i \in DOMAIN more}
    BY DEF CoverOf
  <2> QED  BY <2>3, <2>4, <2>5 DEF kids, X
<1>12. /\ g \in FrameType /\ g.fn = f.fn /\ g.at = f.at /\ g.kids = Append(f.kids, n)
  <2>1. Append(f.kids, n) \in Seq(Nat)  BY <1>2, <1>3
  <2> QED  BY <1>3, <2>1 DEF FrameType
<1> HIDE DEF g
<1>13. /\ FrameInOrder(c, g) /\ All(c, g) = All(c, f) \cup c[n] /\ Has(c, g) = All(c, g)
  <2>1. Own(g) = {f.at} /\ g.fn \notin {"operand", "nested"}
    BY <1>4, <1>12 DEF Own, Claiming, Keywords
  <2>2. KidsCover(c, g) = KidsCover(c, f) \cup c[n]
    BY <1>11, <1>12 DEF KidsCover
  <2>3. All(c, g) = All(c, f) \cup c[n]
    BY <1>5, <2>1, <2>2 DEF All
  <2>4. Has(c, g) = All(c, g)
    BY <2>1 DEF Has, All, Keeps, KidsCover
  <2> QED  BY <1>11, <1>12, <2>1, <2>3, <2>4 DEF FrameInOrder
<1>14. Before(All(c, g), {Limit'})
  <2>1. Before(All(c, f), {Limit'})
    <3>1. Limit \in Nat  BY <1>2, <1>6
    <3> QED  BY <1>3, <1>8, <3>1, BeforeLater
  <2>2. Before(c[n], {Limit'})  BY <1>8, <1>9 DEF Before
  <2> QED  BY <1>13, <2>1, <2>2, BeforeParts
<1>15. After(R, Front(stack), c, Has(c, g))
  <2>1. After(R, Front(stack), c, c[n])
    <3>1. pos + 1 <= pos + 1  BY <1>2
    <3>2. AllPlaces(c, Len(nodes))  BY <1>2 DEF NodesInOrder, AllPlaces
    <3> QED  BY <1>2, <1>3, <1>6, <1>9, <3>1, <3>2, AfterLimit
  <2>2. After(R, Front(stack), c, All(c, f))  BY <1>3, <1>5
  <2>3. After(R, Front(stack), c, All(c, f) \cup c[n])  BY <2>1, <2>2, AfterParts
  <2> QED  BY <1>13, <2>3
<1>16. Order(R, stack', c, Limit')
  BY <1>1, <1>7, <1>8, <1>12, <1>13, <1>14, <1>15, ReplaceOrder
<1> QED  BY <1>7, <1>9, <1>16 DEF OrderInv, CallsInOrder
\* An item is complete, or it is dropped.
Completes(c, R) ==
  /\ NodesInOrder(c, nodes') /\ control' = "parse" /\ stack' = <<>>
  /\ \/ syntaxTree' = syntaxTree
     \/ /\ syntaxTree' = Append(syntaxTree, Len(nodes'))
        /\ Before(R, c[Len(nodes')]) /\ Before(c[Len(nodes')], {Limit})

\* A prototype has what its call has.
LEMMA PrototypeOrder ==
  ASSUME ParserInv, NEW c, NEW R \in SUBSET Nat, OrderInv(c, R), Covers(c, nodes'),
         EndPrototype
  PROVE  /\ Limit = pos + 1 /\ pos' = pos + 2 /\ pos \in Nat /\ Before(R, {Limit})
         /\ NodesInOrder(c, nodes') /\ Len(nodes') \in Nat /\ c[Len(nodes')] \in SUBSET Nat
         /\ Before(R, c[Len(nodes')]) /\ Before(c[Len(nodes')], {Limit})
<1> DEFINE f == Last(stack)
           node == Node("prototype", f.at, f.kids)
<1>1. control = "parsePrototype"  BY DEF EndPrototype
<1>2. /\ TypeOK /\ HeapOK(nodes) /\ Len(nodes) \in Nat /\ pos \in Nat /\ NodesInOrder(c, nodes)
  BY OrderNow
<1>3. /\ f \in FrameType /\ FrameOK(f, Len(nodes)) /\ f.at \in Nat /\ f.kids \in Seq(Nat)
      /\ FrameInOrder(c, f) /\ Before(All(c, f), {Limit})
      /\ After(R, Front(stack), c, Has(c, f)) /\ All(c, f) \in SUBSET Nat
      /\ Order(R, Front(stack), c, Limit)
  BY <1>1, TopOrder
<1>4. f.fn \in Keywords
  BY <1>1 DEF ParserInv, TopMatchesControl
<1>5. f.fn \notin {"operand", "nested"} /\ Own(f) = {f.at} /\ Has(c, f) = All(c, f)
  BY <1>4 DEF Own, Claiming, Keywords, Has, All, Keeps, KidsCover
<1>6. Limit = pos + 1  BY <1>1 DEF Limit, CursorUsed
<1>7. pos' = pos + 2
  <2>1. Stalk # NoToken  BY DEF EndPrototype, NoToken
  <2>2. pos' = Reads(2)  BY DEF EndPrototype
  <2> QED  BY <1>2, <2>1, <2>2, Ahead
<1>8. node \in NodeType /\ node.at = f.at /\ node.kids = f.kids /\ node.kind = "prototype"
  <2>1. "prototype" \in NodeKinds  BY DEF NodeKinds
  <2> QED  BY <1>3, <2>1, NodeIn DEF Node
<1>9. nodes' = Append(nodes, node)  BY DEF EndPrototype
<1> HIDE DEF f, node
<1>10. NodeInOrder(c, node) /\ \A i \in DOMAIN node.kids : node.kids[i] \in 1 .. Len(nodes)
  <2>1. InOrder(c, {f.at}, f.kids)  BY <1>3, <1>5 DEF FrameInOrder
  <2>2. {f.at} \ {0} \subseteq {f.at}  OBVIOUS
  <2>3. InOrder(c, {f.at} \ {0}, f.kids)  BY <2>1, <2>2, LessInOrder
  <2> QED  BY <1>3, <1>8, <2>3 DEF NodeInOrder, FrameOK
<1>11. /\ c[Len(nodes) + 1] = ({f.at} \ {0}) \cup KidsCover(c, f)
       /\ NodesInOrder(c, nodes') /\ c[Len(nodes) + 1] \in SUBSET Nat
  BY <1>2, <1>8, <1>9, <1>10, NodeOrder DEF KidsCover
<1>12. Len(nodes') = Len(nodes) + 1 /\ Len(nodes') \in Nat
  BY <1>2, <1>8, <1>9, <1>10, NewNode
<1>13. c[Len(nodes')] \subseteq All(c, f)
  BY <1>5, <1>11, <1>12 DEF All
<1>14. Before(R, All(c, f)) /\ Before(R, {Limit})
  BY <1>3, <1>5 DEF After, Order
<1>15. Before(R, c[Len(nodes')]) /\ Before(c[Len(nodes')], {Limit})
  BY <1>3, <1>13, <1>14, BeforeParts
<1> QED  BY <1>2, <1>6, <1>7, <1>11, <1>12, <1>14, <1>15

LEMMA EndPrototypeOrder ==
  ASSUME ParserInv, NEW c, NEW R \in SUBSET Nat, OrderInv(c, R), Covers(c, nodes'),
         EndPrototype
  PROVE  Completes(c, R) \/ (OrderInv(c, R)' /\ UNCHANGED syntaxTree)
<1> DEFINE root == Len(nodes) + 1
           d == Frame("parseFunctionDefinition", 0, 0, <<root>>)
           e == Frame("parseExpression", 0, 0, <<>>)
<1>1. /\ Limit = pos + 1 /\ pos' = pos + 2 /\ pos \in Nat /\ Before(R, {Limit})
      /\ NodesInOrder(c, nodes') /\ Len(nodes') \in Nat /\ c[Len(nodes')] \in SUBSET Nat
      /\ Before(R, c[Len(nodes')]) /\ Before(c[Len(nodes')], {Limit})
  BY PrototypeOrder
<1>2. Len(nodes') = root
  <2>1. nodes \in Seq(NodeType) /\ \E x : nodes' = Append(nodes, x)
    BY OrderNow DEF HeapOK, EndPrototype
  <2> QED  BY <2>1
<1>3. \/ syntaxTree' = Append(syntaxTree, root) /\ stack' = <<>> /\ control' = "parse"
      \/ stack' = <<d, e>> /\ control' = "parsePrimary" /\ UNCHANGED syntaxTree
  BY DEF EndPrototype
<1>4. <<d, e>> = Append(<<d>>, e)
  OBVIOUS
<1>5. CASE syntaxTree' = Append(syntaxTree, root) /\ stack' = <<>> /\ control' = "parse"
  BY <1>1, <1>2, <1>5 DEF Completes
<1>6. CASE stack' = <<d, e>> /\ control' = "parsePrimary" /\ UNCHANGED syntaxTree
  <2>1. d \in FrameType /\ d.fn = "parseFunctionDefinition" /\ d.kids = <<root>> /\ root \in Nat
    <3>1. root \in Nat  BY <1>1, <1>2
    <3> QED  BY <3>1 DEF Frame, FrameType, CallSites
  <2>2. Limit' = pos + 2 /\ Limit' \in Nat /\ Limit <= Limit' /\ Limit \in Nat
    BY <1>1, <1>6 DEF Limit, CursorUsed, RHS
  <2> HIDE DEF d
  <2>3. Own(d) = {} /\ FrameInOrder(c, d) /\ All(c, d) = c[root] /\ Has(c, d) = c[root]
    <3>1. Own(d) = {} /\ d.fn \notin {"operand", "nested"}
      BY <2>1 DEF Own, Claiming, Keywords
    <3> DEFINE one == <<root>>
    <3>2. InOrder(c, Own(d), one) /\ UNION {c[one[i]] : i \in DOMAIN one} = c[root]
      <4>1. Before(Own(d), c[root])  BY <3>1, BeforeParts
      <4> QED  BY <2>1, <4>1, NoKidsInOrder
    <3> HIDE DEF one
    <3>3. d.kids = one  BY <2>1 DEF one
    <3> QED  BY <3>1, <3>2, <3>3 DEF FrameInOrder, All, Has, KidsCover, Keeps
  <2>4. Before(R, {Limit'}) /\ Before(c[root], {Limit'})
    BY <1>1, <1>2, <2>2, BeforeLater
  <2>5. Order(R, <<>>, c, Limit') /\ After(R, <<>>, c, Has(c, d))
    BY <1>1, <1>2, <2>3, <2>4 DEF Order, After
  <2>6. <<>> \in Seq(FrameType) /\ Append(<<>>, d) = <<d>> /\ <<d>> \in Seq(FrameType)
    BY <2>1
  <2>7. Order(R, <<d>>, c, Limit')
    BY <2>1, <2>3, <2>4, <2>5, <2>6, PushOrder
  <2>8. Order(R, <<d, e>>, c, Limit')
    BY <1>4, <2>6, <2>7, ExpressionOrder
  <2> QED  BY <1>1, <1>6, <2>8 DEF OrderInv, CallsInOrder
<1> QED  BY <1>3, <1>5, <1>6
-----------------------------------------------------------------------------
(* The loop of parse() *)

LEMMA NodeCover ==
  ASSUME NEW c, NEW h, HeapOK(h), NEW node \in NodeType, Covers(c, Append(h, node))
  PROVE  c[Len(h) + 1] = ({node.at} \ {0}) \cup KidsCover(c, node)
  BY NodeOrder DEF KidsCover

\* A node with the value after the nodes that the call on top has.
LEMMA MoreCover ==
  ASSUME ParserInv, NEW c, NEW R \in SUBSET Nat, OrderInv(c, R),
         control = "return", value # Nil, Last(stack).fn \notin {"operand", "nested"},
         NEW g, g.kids = Append(Last(stack).kids, value)
  PROVE  LET X == All(c, Last(stack)) \cup c[value] IN
         /\ g.kids \in Seq(Nat) /\ \A i \in DOMAIN g.kids : g.kids[i] \in 1 .. Len(nodes)
         /\ InOrder(c, Own(Last(stack)), g.kids) /\ KidsCover(c, g) \subseteq X
         /\ After(R, Front(stack), c, X) /\ Before(X, {Limit})
<1> DEFINE f == Last(stack)
           X == All(c, f) \cup c[value]
<1>1. /\ g.kids \in Seq(Nat) /\ \A i \in DOMAIN g.kids : g.kids[i] \in 1 .. Len(nodes)
      /\ InOrder(c, Own(f), g.kids)
      /\ Own(f) \cup UNION {c[g.kids[i]] : i \in DOMAIN g.kids} \subseteq X
      /\ After(R, Front(stack), c, X) /\ Before(X, {Limit}) /\ X \in SUBSET Nat
  BY TakeOrder
<1>2. KidsCover(c, g) \subseteq X
  BY <1>1 DEF KidsCover
<1> QED  BY <1>1, <1>2

\* The motif the parser makes of an expression has the tokens of the value.
LEMMA EndTopLevelOrder ==
  ASSUME ParserInv, NEW c, NEW R \in SUBSET Nat, OrderInv(c, R), Covers(c, nodes'),
         EndTopLevel
  PROVE  Completes(c, R)
<1>1. control = "return" /\ control' = "parse" /\ stack' = <<>>
  BY DEF EndTopLevel, AtTop
<1>2. HeapOK(nodes) /\ Len(nodes) \in Nat /\ NodesInOrder(c, nodes)
  BY OrderNow
<1>3. CASE value = Nil
  <2>1. nodes' = nodes /\ syntaxTree' = syntaxTree  BY <1>3 DEF EndTopLevel
  <2> QED  BY <1>1, <1>2, <2>1 DEF Completes
<1>4. CASE value # Nil
  <2> DEFINE main == Len(nodes) + 1
             a == Node("prototype", 0, <<>>)
             b == Node("motif", 0, <<main, value>>)
             h == Append(nodes, a)
             g == Append(h, b)
  <2>1. nodes' = nodes \o <<a, b>> /\ syntaxTree' = Append(syntaxTree, main + 1)
    BY <1>4 DEF EndTopLevel
  <2>2. /\ value \in 1 .. Len(nodes) /\ value \in Nat /\ c[value] \in SUBSET Nat
        /\ Before(c[value], {Limit}) /\ Before(R, c[value])
    BY <1>1, <1>4, ValueOrder DEF After
  <2>3. main \in Nat /\ <<main, value>> \in Seq(Nat)  BY <1>2, <2>2
  <2>4. /\ a \in NodeType /\ NodeInOrder(c, a) /\ a.at = 0
        /\ \A i \in DOMAIN a.kids : a.kids[i] \in 1 .. Len(nodes)
        /\ UNION {c[a.kids[i]] : i \in DOMAIN a.kids} = {}
    <3>1. "prototype" \in NodeKinds \ {"binary"} /\ 0 \in Nat  BY DEF NodeKinds
    <3> QED  BY <3>1, LeafOrder DEF Node
  <2>5. b \in NodeType /\ b.kind = "motif" /\ b.at = 0 /\ b.kids = <<main, value>>
    <3>1. "motif" \in NodeKinds  BY DEF NodeKinds
    <3> QED  BY <2>3, <3>1, NodeIn DEF Node
  <2>6. g = nodes \o <<a, b>>
    <3> HIDE DEF a, b
    <3> QED  BY <1>2, <2>4, <2>5 DEF HeapOK
  <2> HIDE DEF a, b
  <2>7. HeapOK(h) /\ Len(h) = main
    BY <1>2, <2>4, NewNode
  <2> HIDE DEF h
  <2>8. /\ Covers(c, h) /\ c[main + 1] = KidsCover(c, b)
        /\ /\ NodesInOrder(c, h) /\ NodeInOrder(c, b)
           /\ \A i \in DOMAIN b.kids : b.kids[i] \in 1 .. Len(h)
           => NodesInOrder(c, g)
    <3>1. Covers(c, g)  BY <2>1, <2>6
    <3>2. Covers(c, h)
      BY <2>5, <2>7, <3>1, NodeOrder
    <3>3. c[Len(h) + 1] = ({b.at} \ {0}) \cup KidsCover(c, b)
      BY <2>5, <2>7, <3>1, NodeCover
    <3>4. /\ NodesInOrder(c, h) /\ NodeInOrder(c, b)
          /\ \A i \in DOMAIN b.kids : b.kids[i] \in 1 .. Len(h)
          => NodesInOrder(c, g)
      BY <2>5, <2>7, <3>1, NodeOrder
    <3> QED  BY <2>5, <2>7, <3>2, <3>3, <3>4
  <2>9. NodesInOrder(c, h) /\ c[main] = {}
    <3>1. Covers(c, Append(nodes, a))  BY <2>8 DEF h
    <3>2. /\ c[Len(nodes) + 1] = ({a.at} \ {0}) \cup UNION {c[a.kids[i]] : i \in DOMAIN a.kids}
          /\ NodesInOrder(c, Append(nodes, a))
      BY <1>2, <2>4, <3>1, NodeOrder
    <3> QED  BY <2>4, <3>2 DEF h
  <2>10. DOMAIN <<main, value>> = {1, 2} /\ <<main, value>>[1] = main /\ <<main, value>>[2] = value
    OBVIOUS
  <2>11. NodeInOrder(c, b) /\ \A i \in DOMAIN b.kids : b.kids[i] \in 1 .. Len(h)
    <3>1. DOMAIN b.kids = {1, 2} /\ b.kids[1] = main /\ b.kids[2] = value
      BY <2>5, <2>10
    <3>2. \A i, j \in {1, 2} : i < j => i = 1 /\ j = 2
      OBVIOUS
    <3>3. {b.at} \ {0} = {} /\ b.kind # "binary"  BY <2>5
    <3>4. main \in 1 .. Len(h) /\ value \in 1 .. Len(h)  BY <1>2, <2>2, <2>7
    <3>5. \A S : Before({}, S) /\ Before(S, {})  BY BeforeParts
    <3>6. c[main] = {}  BY <2>9
    <3>7. InOrder(c, {}, b.kids)
      BY <3>1, <3>2, <3>5, <3>6 DEF InOrder
    <3>8. NodeInOrder(c, b)
      BY <3>3, <3>7 DEF NodeInOrder
    <3> QED  BY <3>1, <3>4, <3>8
  <2>12. c[main + 1] = c[value]
    BY <2>5, <2>8, <2>9, <2>10 DEF KidsCover
  <2>13. NodesInOrder(c, nodes') /\ Len(nodes') = main + 1
    <3>1. NodesInOrder(c, g)  BY <2>8, <2>9, <2>11
    <3>2. Len(g) = main + 1  BY <2>5, <2>7, <2>11, NewNode
    <3> QED  BY <2>1, <2>6, <3>1, <3>2
  <2> QED  BY <1>1, <2>1, <2>2, <2>12, <2>13 DEF Completes
<1> QED  BY <1>3, <1>4

LEMMA EndDefinitionOrder ==
  ASSUME ParserInv, NEW c, NEW R \in SUBSET Nat, OrderInv(c, R), Covers(c, nodes'),
         EndDefinition
  PROVE  Completes(c, R)
<1> DEFINE f == Last(stack)
           kids == f.kids \o (IF value = Nil THEN <<>> ELSE <<value>>)
           node == Node("motif", 0, kids)
           X == All(c, f) \cup (IF value = Nil THEN {} ELSE c[value])
<1>1. /\ control = "return" /\ control' = "parse" /\ stack' = <<>>
      /\ f.fn = "parseFunctionDefinition"
      /\ nodes' = Append(nodes, node) /\ syntaxTree' = Append(syntaxTree, Len(nodes) + 1)
  BY DEF EndDefinition, AtTop
<1>2. HeapOK(nodes) /\ Len(nodes) \in Nat /\ NodesInOrder(c, nodes)
  BY OrderNow
<1>3. /\ f \in FrameType /\ FrameOK(f, Len(nodes)) /\ f.kids \in Seq(Nat)
      /\ FrameInOrder(c, f) /\ Before(All(c, f), {Limit})
      /\ After(R, Front(stack), c, Has(c, f))
  BY <1>1, TopOrder
<1>4. Has(c, f) = All(c, f) /\ Own(f) = {} /\ f.fn \notin {"operand", "nested"}
  BY <1>1 DEF Has, All, Own, Keeps, KidsCover, Claiming, Keywords
<1>5. kids \in Seq(Nat) /\ value \in Nat /\ kids = IF value = Nil THEN f.kids ELSE Append(f.kids, value)
  <2>1. value \in Nat  BY Counters
  <2>2. \A q \in Seq(Nat) : /\ q \o <<>> = q /\ q \o <<>> \in Seq(Nat)
                           /\ \A v \in Nat : q \o <<v>> = Append(q, v) /\ Append(q, v) \in Seq(Nat)
    OBVIOUS
  <2>3. f.kids \in Seq(Nat)  BY <1>3
  <2> HIDE DEF f
  <2>4. CASE value = Nil  BY <2>1, <2>2, <2>3, <2>4
  <2>5. CASE value # Nil  BY <2>1, <2>2, <2>3, <2>5
  <2> QED  BY <2>4, <2>5
<1>6. node \in NodeType /\ node.kind = "motif" /\ node.at = 0 /\ node.kids = kids
  <2>1. "motif" \in NodeKinds  BY DEF NodeKinds
  <2> HIDE DEF kids
  <2> QED  BY <1>5, <2>1, NodeIn DEF Node
<1> HIDE DEF kids, node
<1>7. /\ \A i \in DOMAIN node.kids : node.kids[i] \in 1 .. Len(nodes)
      /\ InOrder(c, Own(f), node.kids) /\ KidsCover(c, node) \subseteq X
      /\ After(R, Front(stack), c, X) /\ Before(X, {Limit})
  <2>1. CASE value = Nil
    <3>1. node.kids = f.kids  BY <1>5, <1>6, <2>1
    <3>2. X = All(c, f)  BY <2>1
    <3>3. InOrder(c, Own(f), f.kids)  BY <1>3, <1>4 DEF FrameInOrder
    <3>4. \A i \in DOMAIN f.kids : f.kids[i] \in 1 .. Len(nodes)  BY <1>3 DEF FrameOK
    <3>5. KidsCover(c, node) \subseteq All(c, f)
      BY <3>1 DEF All, KidsCover
    <3> HIDE DEF X, f
    <3> QED  BY <1>3, <1>4, <3>1, <3>2, <3>3, <3>4, <3>5
  <2>2. CASE value # Nil
    <3> DEFINE Y == All(c, f) \cup c[value]
    <3>1. f.fn \notin {"operand", "nested"}  BY <1>4
    <3>2. node.kids = Append(f.kids, value)  BY <1>5, <1>6, <2>2
    <3>3. /\ node.kids \in Seq(Nat) /\ \A i \in DOMAIN node.kids : node.kids[i] \in 1 .. Len(nodes)
          /\ InOrder(c, Own(f), node.kids) /\ KidsCover(c, node) \subseteq Y
          /\ After(R, Front(stack), c, Y) /\ Before(Y, {Limit})
      BY <1>1, <2>2, <3>1, <3>2, MoreCover
    <3>4. X = Y  BY <2>2
    <3> HIDE DEF X, Y
    <3> QED  BY <3>3, <3>4
  <2> QED  BY <2>1, <2>2
<1>8. /\ c[Len(nodes) + 1] = ({node.at} \ {0}) \cup KidsCover(c, node)
      /\ NodesInOrder(c, nodes')
  <2>1. {node.at} \ {0} = {}  BY <1>6
  <2>2. InOrder(c, {node.at} \ {0}, node.kids)  BY <1>4, <1>7, <2>1
  <2>3. NodeInOrder(c, node)  BY <1>6, <2>2 DEF NodeInOrder
  <2>4. c[Len(nodes) + 1] = ({node.at} \ {0}) \cup KidsCover(c, node)
    BY <1>1, <1>2, <1>6, NodeCover
  <2>5. NodesInOrder(c, nodes')
    BY <1>1, <1>2, <1>6, <1>7, <2>3, NodeOrder
  <2> QED  BY <2>4, <2>5
<1> HIDE DEF f, X
<1>9. Len(nodes') = Len(nodes) + 1
  BY <1>1, <1>2, <1>6, <1>7, NewNode
<1>10. c[Len(nodes')] \subseteq X
  BY <1>6, <1>7, <1>8, <1>9
<1>11. Before(R, c[Len(nodes')]) /\ Before(c[Len(nodes')], {Limit})
  BY <1>7, <1>10, BeforeParts DEF After
<1> QED  BY <1>1, <1>8, <1>9, <1>11 DEF Completes
LEMMA LoopOrder ==
  ASSUME NEW c, NEW R, NodesInOrder(c, nodes'), control' = "parse", stack' = <<>>,
         Before(R, {Limit'})
  PROVE  OrderInv(c, R)'
<1>1. Order(R, stack', c, Limit')  BY DEF Order
<1> QED  BY <1>1 DEF OrderInv, CallsInOrder

\* The first call of an item.
LEMMA BottomOrder ==
  ASSUME NEW c, NEW R \in SUBSET Nat, NEW fn \in Bottoms \ {"parseFunctionDefinition"},
         NEW at \in Nat, NEW p \in Nat, Before(R, {p}),
         fn \in Keywords => at < p /\ Before(R, {at})
  PROVE  Order(R, <<Frame(fn, at, 0, <<>>)>>, c, p)
<1> DEFINE f == Frame(fn, at, 0, <<>>)
<1>1. f \in FrameType /\ f.fn = fn /\ f.at = at /\ f.kids = <<>>
  BY BottomFrame DEF Frame
<1>2. Append(<<>>, f) = <<f>> /\ <<>> \in Seq(FrameType)
  OBVIOUS
<1> HIDE DEF f
<1>3. f.fn \notin {"operand", "nested"} /\ Own(f) = IF fn \in Keywords THEN {at} ELSE {}
  BY <1>1 DEF Own, Claiming, Bottoms, Keywords
<1>4. All(c, f) = Own(f) /\ Has(c, f) = Own(f) /\ FrameInOrder(c, f)
  BY <1>1, <1>3, NoKidsInOrder DEF All, Has, KidsCover, Keeps, FrameInOrder
<1>5. Before(Own(f), {p}) /\ Before(R, Own(f))
  BY <1>3, BeforeParts DEF Before
<1>6. Order(R, <<>>, c, p) /\ After(R, <<>>, c, Has(c, f))
  BY <1>4, <1>5 DEF Order, After
<1>7. Order(R, Append(<<>>, f), c, p)
  BY <1>1, <1>2, <1>4, <1>5, <1>6, PushOrder
<1> QED  BY <1>2, <1>7 DEF f

\* parse() may come back to a token only when none of what it holds is there.
LEMMA ParseOrder ==
  ASSUME ParserInv, NEW c, NEW R \in SUBSET Nat, OrderInv(c, R), Covers(c, nodes'),
         Parse \/ ParsePrototype, BeginTopLevel => Before(R, {pos})
  PROVE  \/ OrderInv(c, R)' /\ UNCHANGED syntaxTree
         \/ (EndPrototype \/ EndTopLevel \/ EndDefinition) /\ Completes(c, R)
<1>1. /\ TypeOK /\ pos \in Nat /\ Limit \in Nat /\ NodesInOrder(c, nodes)
      /\ Running => Before(R, {Limit})
  BY OrderNow DEF Order
<1>2. CASE Finish \/ RejectPrototype \/ ExhaustMemory \/ RejectParameter
  BY <1>2, HaltOrder DEF Finish, RejectPrototype, ExhaustMemory, RejectParameter, Halt, Outcomes
<1>3. CASE SkipSeparator
  <2>1. UNCHANGED vars  BY <1>3 DEF SkipSeparator
  <2>2. control = "parse" /\ stack = <<>>  BY <1>3, InLoopIsEmpty DEF SkipSeparator, InLoop
  <2>3. Limit' = Limit
    BY <2>1 DEF vars, Limit, CursorUsed, OnLiteral, Current, Stalk, TokenAt, RHS
  <2> QED  BY <1>1, <2>1, <2>2, <2>3, LoopOrder DEF vars, Running, Outcomes
<1>4. CASE DropLastBracket
  <2>1. /\ control = "parse" /\ control' = "parse" /\ pos' = Reads(1)
        /\ UNCHANGED <<tokens, stack, nodes, syntaxTree>>
    BY <1>4 DEF DropLastBracket, IsTopLevel, InLoop
  <2>2. stack = <<>>  BY <2>1, InLoopIsEmpty
  <2>3. pos' \in Nat /\ Limit' \in Nat /\ pos' <= Limit' /\ (~CursorUsed => Limit <= pos')
        /\ (OnLiteral => Limit <= pos')
    BY <1>1, <2>1, LimitMoves
  <2>4. CursorUsed => OnLiteral  BY <2>1 DEF CursorUsed, RHS
  <2>5. Limit <= Limit'  BY <1>1, <2>3, <2>4
  <2>6. Before(R, {Limit'})  BY <1>1, <2>1, <2>3, <2>5, BeforeLater DEF Running, Outcomes
  <2> QED  BY <1>1, <2>1, <2>2, <2>6, LoopOrder
<1>5. CASE BeginTopLevel
  <2> DEFINE f == Frame("parseTopLevelExpression", 0, 0, <<>>)
  <2>1. CallExpression(<<f>>, 0)  BY <1>5 DEF BeginTopLevel
  <2>2. "parseTopLevelExpression" \in Bottoms \ {"parseFunctionDefinition"}
        /\ "parseTopLevelExpression" \notin Keywords
    BY DEF Bottoms, Keywords
  <2>3. Order(R, <<f>>, c, pos)  BY <1>1, <1>5, <2>2, BottomOrder
  <2>4. WellFormed(<<f>>, Len(nodes))
    BY <2>2, BottomFrame, Alone
  <2>5. pos <= Reads(0)  BY <1>1, ReadsOn
  <2>6. UNCHANGED syntaxTree  BY <2>1 DEF CallExpression
  <2> QED  BY <1>1, <2>1, <2>3, <2>4, <2>5, <2>6, CallOrder
<1>6. CASE BeginPrototype
  <2> DEFINE f == Frame(Current, pos + 1, 0, <<>>)
  <2>1. /\ control = "parse" /\ control' = "parsePrototype" /\ pos' = Reads(2)
        /\ stack' = <<f>> /\ UNCHANGED <<nodes, syntaxTree>> /\ Stalk # NoToken /\ Current \in Keywords
    BY <1>6 DEF BeginPrototype, InLoop, Identifiers, NoToken
  <2>2. pos' = pos + 2  BY <1>1, <2>1, Ahead
  <2>3. Limit' = pos + 3
    <3>1. Limit' = pos' + 1  BY <2>1 DEF Limit, CursorUsed
    <3> QED  BY <1>1, <2>2, <3>1
  <2>4. Limit = pos
    BY <2>1 DEF Limit, CursorUsed, OnLiteral, Keywords, RHS
  <2>5. pos + 1 \in Nat /\ pos + 3 \in Nat /\ pos <= pos + 1 /\ pos <= pos + 3 /\ pos + 1 < pos + 3
    BY <1>1
  <2>6. Before(R, {pos})  BY <1>1, <2>1, <2>4 DEF Running, Outcomes
  <2>7. Before(R, {pos + 1}) /\ Before(R, {pos + 3})
    BY <1>1, <2>5, <2>6, BeforeLater
  <2>8. Current \in Bottoms \ {"parseFunctionDefinition"}
    BY <2>1 DEF Bottoms, Keywords
  <2>9. Order(R, <<f>>, c, pos + 3)
    BY <2>5, <2>7, <2>8, BottomOrder
  <2> QED  BY <1>1, <2>1, <2>3, <2>9 DEF OrderInv, CallsInOrder
<1>7. CASE EndTopLevel \/ EndDefinition
  BY <1>7, EndTopLevelOrder, EndDefinitionOrder
<1>8. CASE AddParameter
  BY <1>8, ParameterOrder DEF AddParameter
<1>9. CASE EndPrototype
  BY <1>9, EndPrototypeOrder
<1> QED
  BY <1>2, <1>3, <1>4, <1>5, <1>6, <1>7, <1>8, <1>9 DEF Parse, ParsePrototype
-----------------------------------------------------------------------------
(* The tokens of a node, whatever the node *)

Coverable(h) == \E c : Covers(c, h)

\* c is right about the first m nodes of h.
CoversUpTo(c, h, m) ==
  \A n \in 1 .. m : c[n] = ({h[n].at} \ {0}) \cup KidsCover(c, h[n])

LEMMA CoverOneMore ==
  ASSUME NEW h, HeapOK(h), NEW m \in Nat, m + 1 \in DOMAIN h, NEW c, CoversUpTo(c, h, m)
  PROVE  \E d : CoversUpTo(d, h, m + 1)
<1> DEFINE new == ({h[m + 1].at} \ {0}) \cup KidsCover(c, h[m + 1])
           d == [n \in 1 .. m + 1 |-> IF n = m + 1 THEN new ELSE c[n]]
<1>1. PICK l \in Nat : DOMAIN h = 1 .. l
  BY DEF HeapOK
<1>2. /\ \A n \in 1 .. m : n \in 1 .. m + 1 /\ n # m + 1 /\ n \in 1 .. l
      /\ \A n \in 1 .. m + 1 : n \in 1 .. m \/ n = m + 1
      /\ m + 1 \in 1 .. m + 1 /\ m + 1 \in 1 .. l
      /\ \A n \in 1 .. m + 1 : \A k \in 1 .. n - 1 : k \in 1 .. m
  BY <1>1
<1>3. d[m + 1] = new /\ \A n \in 1 .. m : d[n] = c[n]
  BY <1>2
<1> HIDE DEF new, d
<1>4. ASSUME NEW n \in 1 .. m + 1 PROVE KidsCover(d, h[n]) = KidsCover(c, h[n])
  <2>1. \A i \in DOMAIN h[n].kids : h[n].kids[i] \in 1 .. m
    <3>1. n \in DOMAIN h  BY <1>1, <1>2
    <3> QED  BY <1>2, <3>1 DEF HeapOK
  <2>2. \A i \in DOMAIN h[n].kids : d[h[n].kids[i]] = c[h[n].kids[i]]
    BY <1>3, <2>1
  <2> QED  BY <2>2 DEF KidsCover
<1>5. ASSUME NEW n \in 1 .. m + 1
      PROVE  d[n] = ({h[n].at} \ {0}) \cup KidsCover(d, h[n])
  <2>1. KidsCover(d, h[n]) = KidsCover(c, h[n])  BY <1>4
  <2>2. CASE n \in 1 .. m  BY <1>3, <2>1, <2>2 DEF CoversUpTo
  <2>3. CASE n = m + 1  BY <1>3, <2>1, <2>3 DEF new
  <2> QED  BY <1>2, <2>2, <2>3
<1> QED  BY <1>5 DEF CoversUpTo

LEMMA CoversAll ==
  ASSUME NEW c, NEW h
  PROVE  Covers(c, h) <=> CoversUpTo(c, h, Len(h))
  BY DEF Covers, CoversUpTo, KidsCover

\* A step adds at most two nodes.
LEMMA NodesGrow ==
  ASSUME ParserInv, [Next]_vars
  PROVE  /\ Len(nodes) \in Nat /\ Len(nodes') \in {Len(nodes), Len(nodes) + 1, Len(nodes) + 2}
         /\ \A n \in 1 .. Len(nodes) : nodes'[n] = nodes[n]
<1>1. nodes \in Seq(NodeType) /\ Len(nodes) \in Nat
  BY TypeOKParts DEF ParserInv, HeapOK
<1>2. \/ UNCHANGED nodes
      \/ \E x : nodes' = Append(nodes, x)
      \/ \E x, y : nodes' = nodes \o <<x, y>>
  <2>1. CASE Parse \/ ParsePrototype
    BY <2>1 DEF Parse, ParsePrototype, Finish, SkipSeparator, BeginPrototype, RejectPrototype,
       DropLastBracket, BeginTopLevel, ExhaustMemory, EndTopLevel, EndDefinition,
       AddParameter, EndPrototype, RejectParameter, Halt, CallExpression, vars
  <2>2. CASE ParsePrimary
    BY <2>2 DEF ParsePrimary, Overflow, UnknownToken, NoPrimary, Number, Variable,
       CallWithoutArguments, CallCutShort, CallWithArguments, BeginTernary,
       OperatorAsPrimary, BeginParentheses, BeginCurlyBrackets, Halt, CallExpression,
       Return, ReturnNew
  <2>3. CASE ParseOperators
    BY <2>3 DEF ParseOperators, BeginOperators, TakeOperator, EndOperators, ClimbOperators,
       CombineOperand, CombineNested, Combine, Return
  <2>4. CASE Resume
    BY <2>4 DEF Resume, PropagateNil, EndArguments, NextArgument, RejectArguments,
       EndCondition, EndThen, EndElse, EndParentheses, EndCurlyBrackets, Halt,
       CallExpression, Return, ReturnNew
  <2>5. CASE Ended \/ UNCHANGED vars
    BY <2>5 DEF Ended, vars
  <2> QED  BY <2>1, <2>2, <2>3, <2>4, <2>5 DEF Next
<1>3. CASE UNCHANGED nodes  BY <1>1, <1>3
<1>4. ASSUME NEW x, nodes' = Append(nodes, x)
      PROVE  Len(nodes') = Len(nodes) + 1 /\ \A n \in 1 .. Len(nodes) : nodes'[n] = nodes[n]
  BY <1>1, <1>4
<1>5. ASSUME NEW x, NEW y, nodes' = nodes \o <<x, y>>
      PROVE  Len(nodes') = Len(nodes) + 2 /\ \A n \in 1 .. Len(nodes) : nodes'[n] = nodes[n]
  BY <1>1, <1>5
<1> QED  BY <1>1, <1>2, <1>3, <1>4, <1>5

LEMMA StaysCoverable ==
  ASSUME ParserInv, ParserInv', [Next]_vars, Coverable(nodes)
  PROVE  Coverable(nodes')
<1>1. HeapOK(nodes')
  BY DEF ParserInv, TypeOK, HeapOK, NodeType
<1>2. /\ Len(nodes) \in Nat /\ Len(nodes') \in {Len(nodes), Len(nodes) + 1, Len(nodes) + 2}
      /\ \A n \in 1 .. Len(nodes) : nodes'[n] = nodes[n]
  BY NodesGrow
<1>3. PICK k \in Nat : k = Len(nodes)  BY <1>2
<1>4. PICK c : Covers(c, nodes)  BY DEF Coverable
<1>5. CoversUpTo(c, nodes', k)
  BY <1>2, <1>3, <1>4, CoversAll DEF CoversUpTo
<1>6. PICK l \in Nat : l = Len(nodes') /\ DOMAIN nodes' = 1 .. l
  BY <1>1 DEF HeapOK
<1>7. CASE l = k
  BY <1>5, <1>6, <1>7, CoversAll DEF Coverable
<1>8. CASE l = k + 1
  <2>1. k + 1 \in DOMAIN nodes'  BY <1>6, <1>8
  <2>2. \E d : CoversUpTo(d, nodes', k + 1)  BY <1>1, <1>5, <2>1, CoverOneMore
  <2> QED  BY <1>6, <1>8, <2>2, CoversAll DEF Coverable
<1>9. CASE l = k + 2
  <2>1. k + 1 \in DOMAIN nodes' /\ k + 1 \in Nat /\ (k + 1) + 1 = l /\ l \in DOMAIN nodes'
    BY <1>6, <1>9
  <2>2. PICK d : CoversUpTo(d, nodes', k + 1)  BY <1>1, <1>5, <2>1, CoverOneMore
  <2>3. \E e : CoversUpTo(e, nodes', l)
    <3>1. \E e : CoversUpTo(e, nodes', (k + 1) + 1)
      BY <1>1, <2>1, <2>2, CoverOneMore
    <3> QED  BY <2>1, <3>1
  <2> QED  BY <1>6, <2>3, CoversAll DEF Coverable
<1> QED  BY <1>2, <1>3, <1>6, <1>7, <1>8, <1>9

LEMMA CoveredCovers ==
  ASSUME HeapOK(nodes), Coverable(nodes)
  PROVE  Covers(Covered, nodes)
<1> DEFINE Solves(f) ==
             f = [n \in DOMAIN nodes |->
                    ({nodes[n].at} \ {0}) \cup UNION {f[k] : k \in Range(nodes[n].kids)}]
<1>1. PICK c : Covers(c, nodes)  BY DEF Coverable
<1>2. PICK l \in Nat : l = Len(nodes) /\ DOMAIN nodes = 1 .. l
  BY DEF HeapOK
<1>3. \A n \in 1 .. l : \A i \in DOMAIN nodes[n].kids : nodes[n].kids[i] \in 1 .. l
  <2>1. \A n \in 1 .. l : \A k \in 1 .. n - 1 : k \in 1 .. l  OBVIOUS
  <2> QED  BY <1>2, <2>1 DEF HeapOK
<1> DEFINE d == [n \in DOMAIN nodes |-> c[n]]
<1>4. Solves(d)
  <2>1. ASSUME NEW n \in 1 .. l
        PROVE  c[n] = ({nodes[n].at} \ {0}) \cup UNION {d[k] : k \in Range(nodes[n].kids)}
    <3>1. c[n] = ({nodes[n].at} \ {0}) \cup KidsCover(c, nodes[n])
      BY <1>1, <1>2, CoversAll DEF CoversUpTo
    <3>2. \A i \in DOMAIN nodes[n].kids : d[nodes[n].kids[i]] = c[nodes[n].kids[i]]
      BY <1>2, <1>3
    <3> HIDE DEF d
    <3>3. KidsCover(c, nodes[n]) = UNION {d[k] : k \in Range(nodes[n].kids)}
      BY <3>2 DEF KidsCover, Range
    <3> QED  BY <3>1, <3>3
  <2> QED  BY <1>2, <2>1
<1>5. Covered = CHOOSE f : Solves(f)
  BY DEF Covered
<1>6. Solves(Covered)
  <2>1. \E f : Solves(f)  BY <1>4
  <2> HIDE DEF Solves
  <2> QED  BY <1>5, <2>1
<1>7. ASSUME NEW n \in 1 .. l
      PROVE  Covered[n] = ({nodes[n].at} \ {0}) \cup KidsCover(Covered, nodes[n])
  <2>1. Covered[n] = ({nodes[n].at} \ {0}) \cup UNION {Covered[k] : k \in Range(nodes[n].kids)}
    BY <1>2, <1>6
  <2>2. KidsCover(Covered, nodes[n]) = UNION {Covered[k] : k \in Range(nodes[n].kids)}
    BY DEF KidsCover, Range
  <2> QED  BY <2>1, <2>2
<1> QED  BY <1>2, <1>7, CoversAll DEF CoversUpTo
-----------------------------------------------------------------------------
(* Every step *)

LEMMA CoversLess ==
  ASSUME ParserInv, [Next]_vars, NEW c, Covers(c, nodes')
  PROVE  Covers(c, nodes)
<1>1. /\ Len(nodes) \in Nat /\ Len(nodes') \in {Len(nodes), Len(nodes) + 1, Len(nodes) + 2}
      /\ \A n \in 1 .. Len(nodes) : nodes'[n] = nodes[n]
  BY NodesGrow
<1>2. \A n \in 1 .. Len(nodes) : n \in 1 .. Len(nodes')
  BY <1>1
<1>3. CoversUpTo(c, nodes', Len(nodes'))
  BY CoversAll
<1>4. CoversUpTo(c, nodes, Len(nodes))
  BY <1>1, <1>2, <1>3 DEF CoversUpTo
<1> QED  BY <1>4, CoversAll

LEMMA StepOrder ==
  ASSUME ParserInv, NEW c, NEW R \in SUBSET Nat, OrderInv(c, R), Covers(c, nodes'),
         [Next]_vars, BeginTopLevel => Before(R, {pos})
  PROVE  \/ OrderInv(c, R)' /\ UNCHANGED syntaxTree
         \/ (EndPrototype \/ EndTopLevel \/ EndDefinition) /\ Completes(c, R)
<1>1. CASE UNCHANGED vars \/ Ended
  BY <1>1 DEF Ended, vars, OrderInv, CallsInOrder, Running, Limit, CursorUsed, OnLiteral,
     Current, Stalk, TokenAt, RHS
<1>2. CASE Parse \/ ParsePrototype
  BY <1>2, ParseOrder
<1>3. CASE ParsePrimary
  <2>1. UNCHANGED syntaxTree
    BY <1>3 DEF ParsePrimary, Overflow, UnknownToken, NoPrimary, Number, Variable,
       CallWithoutArguments, CallCutShort, CallWithArguments, BeginTernary,
       OperatorAsPrimary, BeginParentheses, BeginCurlyBrackets, Halt, CallExpression,
       Return, ReturnNew
  <2> QED  BY <1>3, <2>1, PrimaryOrder
<1>4. CASE ParseOperators
  <2>1. UNCHANGED syntaxTree
    BY <1>4 DEF ParseOperators, BeginOperators, TakeOperator, EndOperators, ClimbOperators,
       CombineOperand, CombineNested, Combine, Return
  <2> QED  BY <1>4, <2>1, OperatorsOrder
<1>5. CASE Resume
  <2>1. UNCHANGED syntaxTree
    BY <1>5 DEF Resume, PropagateNil, EndArguments, NextArgument, RejectArguments,
       EndCondition, EndThen, EndElse, EndParentheses, EndCurlyBrackets, Halt,
       CallExpression, Return, ReturnNew
  <2> QED  BY <1>5, <2>1, ResumeOrder
<1> QED  BY <1>1, <1>2, <1>3, <1>4, <1>5 DEF Next

-----------------------------------------------------------------------------
(* Within an item nothing is before: parse() may take a token again.       *)
ItemsInOrder ==
  /\ ParserInv /\ Coverable(nodes)
  /\ \A c : Covers(c, nodes) => OrderInv(c, {})

(* The functions of the parser leave the cursor in different places, and a *)
(* call on the way to its node may hold what is at the cursor or not; yet  *)
(* every tree reads like the source, for every input and every limit.      *)
THEOREM TreesReadLikeTheSource == Spec => []SourceOrder
<1>1. Init => ItemsInOrder
  <2> SUFFICES ASSUME Init PROVE ItemsInOrder
    OBVIOUS
  <2>1. ParserInv  BY InitInv
  <2>2. nodes = <<>> /\ stack = <<>> /\ control = "parse"
    BY DEF Init, Fresh
  <2>3. \A c : Covers(c, nodes) /\ OrderInv(c, {})
    BY <2>2, BeforeParts DEF Covers, OrderInv, NodesInOrder, CallsInOrder, Order
  <2> QED  BY <2>1, <2>3 DEF ItemsInOrder, Coverable
<1>2. ItemsInOrder /\ [Next]_vars => ItemsInOrder'
  <2> SUFFICES ASSUME ItemsInOrder, [Next]_vars PROVE ItemsInOrder'
    OBVIOUS
  <2>1. ParserInv /\ ParserInv' /\ Coverable(nodes)  BY NextInv DEF ItemsInOrder
  <2>2. Coverable(nodes')  BY <2>1, StaysCoverable
  <2>3. ASSUME NEW c, Covers(c, nodes') PROVE OrderInv(c, {})'
    <3>1. Covers(c, nodes)  BY <2>1, <2>3, CoversLess
    <3>2. OrderInv(c, {})  BY <3>1 DEF ItemsInOrder
    <3>3. {} \in SUBSET Nat /\ \A X : Before({}, X)  BY BeforeParts
    <3>4. OrderInv(c, {})' \/ Completes(c, {})
      BY <2>1, <2>3, <3>2, <3>3, StepOrder
    <3> QED  BY <3>3, <3>4, LoopOrder DEF Completes
  <2>4. \A c : Covers(c, nodes)' => OrderInv(c, {})'
    BY <2>3 DEF Covers
  <2> QED  BY <2>1, <2>2, <2>4 DEF ItemsInOrder, Coverable
<1>3. ItemsInOrder => SourceOrder
  <2> SUFFICES ASSUME ItemsInOrder, NEW n \in DOMAIN nodes
               PROVE  LET node  == nodes[n]
                          kid   == [i \in DOMAIN node.kids |-> Covered[node.kids[i]]]
                          head  == {node.at} \ {0}
                      IN  /\ \A i, j \in DOMAIN kid : i < j => Before(kid[i], kid[j])
                          /\ IF node.kind = "binary"
                               THEN Before(kid[1], head) /\ Before(head, kid[2])
                               ELSE \A i \in DOMAIN kid : Before(head, kid[i])
    BY DEF SourceOrder
  <2> DEFINE node == nodes[n]
             cover == Covered
             kid == [i \in DOMAIN node.kids |-> cover[node.kids[i]]]
  <2>1. HeapOK(nodes) /\ Coverable(nodes)  BY TypeOKParts DEF ItemsInOrder, ParserInv
  <2>2. Covers(cover, nodes)  BY <2>1, CoveredCovers
  <2>3. NodesInOrder(cover, nodes)  BY <2>2 DEF ItemsInOrder, OrderInv
  <2>4. NodeInOrder(cover, node) /\ node.kids \in Seq(Nat)
    <3>1. n \in 1 .. Len(nodes) /\ node \in NodeType  BY <2>1 DEF HeapOK
    <3> QED  BY <2>3, <3>1 DEF NodesInOrder, NodeType
  <2> HIDE DEF node, cover
  <2>5. DOMAIN kid = DOMAIN node.kids /\ \A i \in DOMAIN node.kids : kid[i] = cover[node.kids[i]]
    OBVIOUS
  <2> HIDE DEF kid
  <2>6. CASE node.kind = "binary"
    <3>1. DOMAIN kid = {1, 2}  BY <2>4, <2>5, <2>6 DEF NodeInOrder
    <3>2. \A i, j \in {1, 2} : i < j => i = 1 /\ j = 2  OBVIOUS
    <3>3. /\ Before(kid[1], {node.at} \ {0}) /\ Before({node.at} \ {0}, kid[2])
          /\ Before(kid[1], kid[2])
      BY <2>4, <2>5, <2>6, <3>1 DEF NodeInOrder
    <3>4. \A i, j \in DOMAIN kid : i < j => Before(kid[i], kid[j])
      BY <3>1, <3>2, <3>3
    <3> QED  BY <2>6, <3>3, <3>4 DEF node, kid, cover
  <2>7. CASE node.kind # "binary"
    <3>1. InOrder(cover, {node.at} \ {0}, node.kids)  BY <2>4, <2>7 DEF NodeInOrder
    <3>2. /\ \A i, j \in DOMAIN kid : i < j => Before(kid[i], kid[j])
          /\ \A i \in DOMAIN kid : Before({node.at} \ {0}, kid[i])
      BY <2>5, <3>1 DEF InOrder
    <3> QED  BY <2>7, <3>2 DEF node, kid, cover
  <2> QED  BY <2>6, <2>7
<1> QED  BY <1>1, <1>2, <1>3, PTL DEF Spec
-----------------------------------------------------------------------------
(* The expression of an item *)

\* The call that an item waits for is one of parseExpression(), or it is in
\* the loop over the operators that began with precedence 0.
Outer(f) == f.fn = "parseExpression" \/ (f.fn \in {RHS, "operand", "nested"} /\ f.prec = 0)
OuterOf(s) == 2 <= Len(s) => Outer(s[2])

\* The value of an item is one that no operator goes on with.
NoOperatorLeft ==
  control = "return" /\ value # Nil /\ Len(stack) = 1 => Stalk \notin Operators

ItemInv == ParserInv /\ OuterOf(stack) /\ NoOperatorLeft

LEMMA OuterFacts ==
  ASSUME NEW s \in Seq(FrameType), OuterOf(s)
  PROVE  /\ s # <<>> => OuterOf(Front(s))
         /\ \A f \in FrameType : 2 <= Len(s) \/ Outer(f) \/ s = <<>> => OuterOf(Append(s, f))
         /\ \A f \in FrameType : s # <<>> /\ (3 <= Len(s) \/ Outer(f)) => OuterOf(Append(Front(s), f))
<1>1. PICK k \in Nat : k = Len(s)  OBVIOUS
<1>2. ASSUME NEW u \in Seq(FrameType), OuterOf(u), NEW f \in FrameType,
             2 <= Len(u) \/ Outer(f) \/ u = <<>>
      PROVE  OuterOf(Append(u, f))
  <2>1. /\ Len(Append(u, f)) = Len(u) + 1 /\ Append(u, f)[Len(u) + 1] = f
        /\ \A i \in 1 .. Len(u) : Append(u, f)[i] = u[i]
    BY Appended
  <2>2. PICK m \in Nat : m = Len(u)  OBVIOUS
  <2>3. CASE 2 <= m
    BY <1>2, <2>1, <2>2, <2>3 DEF OuterOf
  <2>4. CASE m = 1
    <3>1. Append(u, f)[2] = f /\ u # <<>>  BY <2>1, <2>2, <2>4
    <3> QED  BY <1>2, <2>2, <2>4, <3>1 DEF OuterOf
  <2>5. CASE m = 0
    BY <2>1, <2>2, <2>5 DEF OuterOf
  <2>6. m = 0 \/ m = 1 \/ 2 <= m  BY <2>2
  <2> QED  BY <2>3, <2>4, <2>5, <2>6
<1>3. OuterOf(s) /\ s # <<>> => OuterOf(Front(s)) /\ Front(s) \in Seq(FrameType) /\ Len(Front(s)) = k - 1
  <2> SUFFICES ASSUME s # <<>>
               PROVE  OuterOf(Front(s)) /\ Front(s) \in Seq(FrameType) /\ Len(Front(s)) = k - 1
    OBVIOUS
  <2>1. /\ Front(s) \in Seq(FrameType) /\ Len(Front(s)) = k - 1 /\ k # 0
        /\ \A i \in 1 .. k - 1 : Front(s)[i] = s[i]
    BY <1>1, FrontLast
  <2>2. 2 <= k - 1 => 2 \in 1 .. k - 1 /\ 2 <= k  BY <1>1
  <2> QED  BY <1>1, <2>1, <2>2 DEF OuterOf
<1>4. ASSUME NEW f \in FrameType, s # <<>>, 3 <= Len(s) \/ Outer(f)
      PROVE  OuterOf(Append(Front(s), f))
  <2>1. 3 <= k => 2 <= k - 1  BY <1>1
  <2> QED  BY <1>1, <1>2, <1>3, <1>4, <2>1
<1> QED  BY <1>2, <1>3, <1>4
LEMMA CallOuter ==
  ASSUME NEW s \in Seq(FrameType), OuterOf(s), NEW n, CallExpression(s, n)
  PROVE  OuterOf(stack') /\ control' = "parsePrimary"
<1> DEFINE e == Frame("parseExpression", 0, 0, <<>>)
<1>1. e \in FrameType /\ Outer(e)
  BY DEF Frame, FrameType, CallSites, Outer
<1>2. stack' = Append(s, e) /\ control' = "parsePrimary"
  BY DEF CallExpression
<1> HIDE DEF e
<1> QED  BY <1>1, <1>2, OuterFacts

\* A frame over those of an item and its expression.
LEMMA AboveOuter ==
  ASSUME ItemInv, control \in {"parsePrimary", "return", RHS}, stack # <<>>,
         Last(stack).fn \notin Bottoms
  PROVE  /\ stack \in Seq(FrameType) /\ OuterOf(stack) /\ Len(stack) \in Nat /\ 2 <= Len(stack)
         /\ Last(stack) \in FrameType /\ (~Outer(Last(stack)) => 3 <= Len(stack))
         /\ Front(stack) \in Seq(FrameType) /\ Len(Front(stack)) = Len(stack) - 1
         /\ OuterOf(Front(stack))
<1>1. stack \in Seq(FrameType) /\ OuterOf(stack) /\ WellFormed(stack, Len(nodes))
  BY DEF ItemInv, ParserInv, WellFormed
<1>2. Len(stack) \in Nat /\ 2 <= Len(stack) /\ Last(stack) = stack[Len(stack)]
  BY <1>1, FrameFacts, FrontLast
<1>3. ~Outer(Last(stack)) => 3 <= Len(stack)
  BY <1>1, <1>2 DEF OuterOf
<1> QED  BY <1>1, <1>2, <1>3, FrontLast, OuterFacts

LEMMA PrimaryOuter ==
  ASSUME ItemInv, ParsePrimary
  PROVE  OuterOf(stack') /\ (control' = "return" => Len(stack') # 1)
<1>1. control = "parsePrimary"
  BY DEF ParsePrimary, Overflow, UnknownToken, NoPrimary, Number, Variable,
     CallWithoutArguments, CallCutShort, CallWithArguments, BeginTernary,
     OperatorAsPrimary, BeginParentheses, BeginCurlyBrackets, IsCall, AtPrimary
<1>2. /\ stack # <<>> /\ Last(stack).fn \notin Bottoms /\ pos \in Nat
  BY <1>1 DEF ItemInv, ParserInv, TopMatchesControl, Running, Outcomes, Bottoms, Keywords, TypeOK
<1>3. stack \in Seq(FrameType) /\ OuterOf(stack) /\ Len(stack) \in Nat /\ 2 <= Len(stack)
  BY <1>1, <1>2, AboveOuter
<1>4. CASE UNCHANGED stack
  <2>1. stack' = stack  BY <1>4
  <2>2. \A k \in Nat : 2 <= k => k # 1  OBVIOUS
  <2>3. Len(stack) # 1  BY <1>3, <2>2
  <2> QED  BY <1>3, <2>1, <2>3
<1>5. ASSUME NEW fn \in {"argument", "condition", "parentheses", "curlyBrackets"},
             NEW at \in Nat, NEW n, CallExpression(Append(stack, Frame(fn, at, 0, <<>>)), n)
      PROVE  OuterOf(stack') /\ control' # "return"
  <2> DEFINE f == Frame(fn, at, 0, <<>>)
  <2>1. f \in FrameType
    <3>1. fn \in CallSites /\ <<>> \in Seq(Nat) /\ 0 \in Nat  BY DEF CallSites
    <3> QED  BY <3>1 DEF Frame, FrameType
  <2> HIDE DEF f
  <2>2. Append(stack, f) \in Seq(FrameType) /\ OuterOf(Append(stack, f))
    BY <1>3, <2>1, OuterFacts, Appended
  <2>3. CallExpression(Append(stack, f), n)  BY <1>5 DEF f
  <2> QED  BY <2>2, <2>3, CallOuter
<1>6. CASE CallWithArguments \/ BeginTernary \/ BeginCurlyBrackets
  BY <1>2, <1>5, <1>6 DEF CallWithArguments, BeginTernary, BeginCurlyBrackets
<1>7. CASE BeginParentheses
  <2>1. pos + 2 \in Nat  BY <1>2
  <2> QED  BY <1>4, <1>5, <1>7, <2>1 DEF BeginParentheses, Return
<1>8. CASE OperatorAsPrimary
  BY <1>3, <1>8, CallOuter DEF OperatorAsPrimary
<1>9. CASE \/ Overflow \/ UnknownToken \/ NoPrimary \/ Number \/ Variable
           \/ CallWithoutArguments \/ CallCutShort
  BY <1>4, <1>9 DEF Overflow, UnknownToken, NoPrimary, Number, Variable,
     CallWithoutArguments, CallCutShort, Halt, Return, ReturnNew
<1> QED  BY <1>6, <1>7, <1>8, <1>9 DEF ParsePrimary

LEMMA ResumeOuter ==
  ASSUME ItemInv, Resume
  PROVE  OuterOf(stack') /\ (control' = "return" => value' = Nil \/ Len(stack') # 1)
<1> DEFINE f == Last(stack)
<1>1. control = "return"
  BY DEF Resume, PropagateNil, EndArguments, NextArgument, RejectArguments, EndCondition,
     EndThen, EndElse, EndParentheses, EndCurlyBrackets, AtTop, AtArgument
<1>2. stack # <<>> /\ f.fn \notin Bottoms
  <2>1. stack # <<>>  BY <1>1 DEF ItemInv, ParserInv, TopMatchesControl, Running, Outcomes
  <2> QED  BY <2>1 DEF Resume, PropagateNil, EndArguments, NextArgument, RejectArguments,
     EndCondition, EndThen, EndElse, EndParentheses, EndCurlyBrackets, AtTop, AtArgument,
     Bottoms, Keywords
<1>3. /\ stack \in Seq(FrameType) /\ OuterOf(stack) /\ Len(stack) \in Nat /\ 2 <= Len(stack)
      /\ f \in FrameType /\ (~Outer(f) => 3 <= Len(stack))
      /\ Front(stack) \in Seq(FrameType) /\ Len(Front(stack)) = Len(stack) - 1
      /\ OuterOf(Front(stack))
  BY <1>1, <1>2, AboveOuter
<1>4. CASE PropagateNil
  BY <1>3, <1>4 DEF PropagateNil, Return
<1>5. CASE ~PropagateNil
  <2>1. f.fn \in {"argument", "condition", "then", "else", "parentheses", "curlyBrackets"}
    BY <1>5 DEF Resume, EndArguments, NextArgument, RejectArguments, EndCondition, EndThen,
       EndElse, EndParentheses, EndCurlyBrackets, AtTop, AtArgument
  <2>2. ~Outer(f)  BY <2>1 DEF Outer, RHS
  <2>3. 3 <= Len(stack) /\ Len(Front(stack)) # 1  BY <1>3, <2>2
  <2>4. CASE control' \in Outcomes /\ UNCHANGED stack
    BY <1>3, <2>4 DEF Outcomes
  <2>5. CASE stack' = Front(stack)
    BY <1>3, <2>3, <2>5
  <2>6. ASSUME NEW g \in FrameType, NEW n, CallExpression(Replace(g), n)
        PROVE  OuterOf(stack') /\ control' # "return"
    <3>1. Replace(g) \in Seq(FrameType) /\ OuterOf(Replace(g))
      BY <1>2, <1>3, <2>3, OuterFacts, Appended DEF Replace
    <3> QED  BY <2>6, <3>1, CallOuter
  <2>7. CASE NextArgument
    <3> DEFINE g == [f EXCEPT !.kids = Append(@, value)]
    <3>1. g \in FrameType
      <4>1. value \in Nat  BY Counters DEF ItemInv
      <4>2. f.kids \in Seq(Nat)  BY <1>3 DEF FrameType
      <4>3. Append(f.kids, value) \in Seq(Nat)  BY <4>1, <4>2
      <4> QED  BY <1>3, <4>3 DEF FrameType
    <3>2. CallExpression(Replace(g), 1)  BY <2>7 DEF NextArgument
    <3> HIDE DEF g
    <3> QED  BY <2>6, <3>1, <3>2
  <2>8. value \in Nat /\ f.at \in Nat /\ f.kids \in Seq(Nat)
    BY <1>3, Counters DEF ItemInv, FrameType
  <2>9. CASE EndCondition
    <3>1. Frame("then", f.at, 0, <<value>>) \in FrameType
      BY <2>8 DEF Frame, FrameType, CallSites
    <3> QED  BY <2>4, <2>6, <2>9, <3>1 DEF EndCondition, Halt, Outcomes
  <2>10. CASE EndThen
    <3>1. Frame("else", f.at, 0, Append(f.kids, value)) \in FrameType
      <4>1. Append(f.kids, value) \in Seq(Nat)  BY <2>8
      <4> QED  BY <2>8, <4>1 DEF Frame, FrameType, CallSites
    <3> QED  BY <2>4, <2>6, <2>10, <3>1 DEF EndThen, Halt, Outcomes
  <2>11. CASE RejectArguments \/ EndArguments \/ EndElse \/ EndParentheses \/ EndCurlyBrackets
    BY <2>4, <2>5, <2>11 DEF RejectArguments, EndArguments, EndElse, EndParentheses,
       EndCurlyBrackets, Halt, Return, ReturnNew, Outcomes
  <2> QED  BY <1>5, <2>7, <2>9, <2>10, <2>11 DEF Resume
<1> QED  BY <1>4, <1>5
LEMMA OperatorsOuter ==
  ASSUME ItemInv, ParseOperators
  PROVE  OuterOf(stack') /\ (control' = "return" /\ Len(stack') = 1 => Stalk' \notin Operators)
<1> DEFINE f == Last(stack)
<1>1. control \in {"return", RHS}
  BY DEF ParseOperators, BeginOperators, TakeOperator, EndOperators, ClimbOperators,
     CombineOperand, CombineNested, AtTop, RHS
<1>2. f.fn \in {"parseExpression", RHS, "operand", "nested"} /\ stack # <<>>
  <2>1. stack # <<>>
    BY <1>1 DEF ItemInv, ParserInv, TopMatchesControl, Running, Outcomes, RHS
  <2> QED  BY <2>1 DEF ParseOperators, BeginOperators, TakeOperator, EndOperators,
     ClimbOperators, CombineOperand, CombineNested, AtTop, ItemInv, ParserInv,
     TopMatchesControl, RHS
<1>3. f.fn \notin Bottoms  BY <1>2 DEF Bottoms, Keywords, RHS
<1>4. /\ stack \in Seq(FrameType) /\ OuterOf(stack) /\ Len(stack) \in Nat /\ 2 <= Len(stack)
      /\ f \in FrameType /\ (~Outer(f) => 3 <= Len(stack))
      /\ Front(stack) \in Seq(FrameType) /\ Len(Front(stack)) = Len(stack) - 1
      /\ OuterOf(Front(stack))
  BY <1>1, <1>2, <1>3, AboveOuter
<1>5. value \in Nat /\ Len(nodes) + 1 \in Nat /\ f.at \in Nat /\ f.prec \in Nat
      /\ f.kids \in Seq(Nat) /\ pos + 1 \in Nat /\ TypeOK /\ FrameOK(f, Len(nodes))
  <2>1. ParserInv /\ WellFormed(stack, Len(nodes))  BY DEF ItemInv, ParserInv
  <2>2. FrameOK(f, Len(nodes))  BY <1>2, <2>1, FrameFacts
  <2>3. TypeOK  BY <2>1 DEF ParserInv
  <2>4. value \in Nat /\ Len(nodes) + 1 \in Nat /\ pos + 1 \in Nat  BY <2>1, Counters
  <2> QED  BY <1>4, <2>2, <2>3, <2>4 DEF FrameType
<1>6. ASSUME NEW g \in FrameType, g.fn \in {RHS, "operand", "nested"},
             g.prec = IF f.fn = "parseExpression" THEN 0 ELSE f.prec
      PROVE  /\ OuterOf(Replace(g)) /\ Replace(g) \in Seq(FrameType)
             /\ Len(Replace(g)) = Len(stack)
  <2>1. Outer(f) => Outer(g)  BY <1>2, <1>6 DEF Outer, RHS
  <2>2. OuterOf(Append(Front(stack), g))  BY <1>2, <1>4, <2>1, OuterFacts
  <2> QED  BY <1>4, <2>2, Appended DEF Replace
<1>7. CASE BeginOperators
  <2> DEFINE g == LoopFrame(0, value)
  <2>1. g \in FrameType /\ g.fn = RHS /\ g.prec = 0
    <3>1. 0 \in Nat  OBVIOUS
    <3> QED  BY <1>5, <3>1, LoopFrameIn DEF LoopFrame, Frame, RHS
  <2>2. stack' = Replace(g) /\ control' = RHS /\ f.fn = "parseExpression"
    BY <1>7 DEF BeginOperators, AtTop, RHS
  <2> HIDE DEF g
  <2> QED  BY <1>6, <2>1, <2>2 DEF RHS
<1>8. CASE TakeOperator
  <2> DEFINE g == Frame("operand", pos + 1, f.prec, f.kids)
  <2>1. g \in FrameType /\ g.fn = "operand" /\ g.prec = f.prec
    BY <1>5 DEF Frame, FrameType, CallSites
  <2>2. stack' = Replace(g) /\ control' = "parsePrimary"
    BY <1>8 DEF TakeOperator
  <2>3. f.fn # "parseExpression"
    BY <1>8 DEF TakeOperator, ItemInv, ParserInv, TopMatchesControl, RHS
  <2> HIDE DEF g
  <2> QED  BY <1>6, <2>1, <2>2, <2>3
<1>9. CASE EndOperators
  <2>1. stack' = Front(stack) /\ control = RHS /\ ~Climbs(f.prec) /\ pos' = Reads(0)
        /\ UNCHANGED tokens
    BY <1>9 DEF EndOperators, Return, RHS
  <2>2. ASSUME Len(stack') = 1 PROVE Stalk' \notin Operators
    <3>1. ~(3 <= Len(stack))
      <4>1. Len(Front(stack)) = 1  BY <2>1, <2>2
      <4>2. \A k \in Nat : k - 1 = 1 => ~(3 <= k)  OBVIOUS
      <4> QED  BY <1>4, <4>1, <4>2
    <3>2. Outer(f)  BY <1>4, <3>1
    <3>3. f.fn = RHS  BY <2>1 DEF ItemInv, ParserInv, TopMatchesControl
    <3>4. f.prec = 0  BY <3>2, <3>3 DEF Outer, RHS
    <3>5. \A o \in Operators : Precedence(o) > 0
      <4>1. \A o \in Operators : Precedence(o) = 10 \/ Precedence(o) = 20 \/ Precedence(o) = 40
        BY Zenon DEF Precedence, Operators
      <4> QED  BY <4>1
    <3>6. Stalk \notin Operators  BY <2>1, <3>4, <3>5 DEF Climbs
    <3>7. pos' = pos  BY <1>5, <2>1, NoRead
    <3> QED  BY <2>1, <3>6, <3>7 DEF Stalk, TokenAt
  <2> QED  BY <1>4, <2>1, <2>2
<1>10. CASE ClimbOperators
  <2> DEFINE g == Frame("nested", f.at, f.prec, Append(f.kids, value))
             h == LoopFrame(Precedence(tokens[f.at]) + 1, value)
  <2>1. f.fn = "operand"  BY <1>10 DEF ClimbOperators, AtTop
  <2>2. g \in FrameType /\ g.fn = "nested" /\ g.prec = f.prec
    <3>1. Append(f.kids, value) \in Seq(Nat)  BY <1>5
    <3> QED  BY <1>5, <3>1 DEF Frame, FrameType, CallSites
  <2>3. h \in FrameType
    <3>1. tokens[f.at] \in Operators  BY <1>5, <2>1 DEF FrameOK
    <3>2. Precedence(tokens[f.at]) \in Nat  BY <3>1, Precedences
    <3>3. Precedence(tokens[f.at]) + 1 \in Nat  BY <3>2
    <3> QED  BY <1>5, <3>3, LoopFrameIn
  <2>4. stack' = Append(Replace(g), h) /\ control' = RHS
    BY <1>10 DEF ClimbOperators, RHS
  <2> HIDE DEF g, h
  <2>5. OuterOf(Replace(g)) /\ Replace(g) \in Seq(FrameType) /\ 2 <= Len(Replace(g))
    BY <1>4, <1>6, <2>1, <2>2
  <2>6. OuterOf(Append(Replace(g), h))  BY <2>3, <2>5, OuterFacts
  <2> QED  BY <2>4, <2>6 DEF RHS
<1>11. ASSUME NEW rhs, Combine(f, rhs), f.fn # "parseExpression"
       PROVE  OuterOf(stack') /\ control' # "return"
  <2> DEFINE g == LoopFrame(f.prec, Len(nodes) + 1)
  <2>1. g \in FrameType /\ g.fn = RHS /\ g.prec = f.prec
    BY <1>5, LoopFrameIn DEF LoopFrame, Frame, RHS
  <2>2. stack' = Replace(g) /\ control' = RHS
    BY <1>11 DEF Combine, RHS
  <2> HIDE DEF g
  <2> QED  BY <1>6, <1>11, <2>1, <2>2 DEF RHS
<1>12. CASE CombineOperand \/ CombineNested
  BY <1>11, <1>12 DEF CombineOperand, CombineNested, AtTop
<1> QED  BY <1>7, <1>8, <1>9, <1>10, <1>12 DEF ParseOperators

LEMMA ParseOuter ==
  ASSUME ItemInv, Parse \/ ParsePrototype
  PROVE  OuterOf(stack') /\ control' # "return"
<1>1. stack \in Seq(FrameType) /\ OuterOf(stack) /\ WellFormed(stack, Len(nodes))
      /\ Len(nodes) + 1 \in Nat
  BY Counters DEF ItemInv, ParserInv, WellFormed
<1>2. /\ OuterOf(<<>>)
      /\ \A f : OuterOf(<<f>>)
      /\ \A d, e : Outer(e) => OuterOf(<<d, e>>)
  BY DEF OuterOf
<1>3. CASE Finish \/ SkipSeparator \/ RejectPrototype \/ DropLastBracket \/ ExhaustMemory \/ RejectParameter
  <2>1. stack' = stack /\ control' # "return"
    BY <1>3 DEF Finish, SkipSeparator, RejectPrototype, DropLastBracket, IsTopLevel, InLoop,
       ExhaustMemory, RejectParameter, Halt, vars
  <2> QED  BY <1>1, <2>1
<1>4. CASE BeginPrototype \/ EndTopLevel \/ EndDefinition
  BY <1>2, <1>4 DEF BeginPrototype, EndTopLevel, EndDefinition
<1>5. CASE BeginTopLevel
  <2> DEFINE f == Frame("parseTopLevelExpression", 0, 0, <<>>)
  <2>1. f \in FrameType  BY BottomFrame DEF Bottoms
  <2>2. CallExpression(<<f>>, 0)  BY <1>5 DEF BeginTopLevel
  <2> HIDE DEF f
  <2>3. <<f>> \in Seq(FrameType)  BY <2>1
  <2> QED  BY <1>2, <2>2, <2>3, CallOuter
<1>6. CASE AddParameter
  <2> DEFINE f == Last(stack)
             g == [f EXCEPT !.kids = Append(@, Len(nodes) + 1)]
  <2>1. control = "parsePrototype" /\ control' = "parsePrototype" /\ stack' = Append(Front(stack), g)
    BY <1>6 DEF AddParameter, Replace
  <2>2. stack # <<>> /\ f.fn \in Bottoms
    BY <2>1 DEF ItemInv, ParserInv, TopMatchesControl, Running, Outcomes, Bottoms
  <2>3. Len(stack) = 1 /\ f \in FrameType  BY <1>1, <2>2, FrameFacts
  <2>4. Front(stack) \in Seq(FrameType) /\ Len(Front(stack)) = 0
    BY <1>1, <2>2, <2>3, FrontLast
  <2>5. g \in FrameType
    <3>1. f.kids \in Seq(Nat)  BY <2>3 DEF FrameType
    <3>2. Append(f.kids, Len(nodes) + 1) \in Seq(Nat)  BY <1>1, <3>1
    <3> QED  BY <2>3, <3>2 DEF FrameType
  <2> HIDE DEF g
  <2>6. Len(Append(Front(stack), g)) = 1  BY <2>4, <2>5
  <2> QED  BY <2>1, <2>6 DEF OuterOf
<1>7. CASE EndPrototype
  <2>1. Outer(Frame("parseExpression", 0, 0, <<>>))  BY DEF Outer, Frame
  <2> QED  BY <1>2, <1>7, <2>1 DEF EndPrototype
<1> QED  BY <1>3, <1>4, <1>5, <1>6, <1>7 DEF Parse, ParsePrototype

LEMMA ItemStays ==
  ASSUME ItemInv, [Next]_vars
  PROVE  ItemInv'
<1>1. ParserInv'  BY NextInv DEF ItemInv
<1>2. CASE UNCHANGED vars \/ Ended
  BY <1>1, <1>2 DEF Ended, vars, ItemInv, NoOperatorLeft, Stalk, TokenAt, OuterOf, Outer
<1>3. CASE Parse \/ ParsePrototype
  BY <1>1, <1>3, ParseOuter DEF ItemInv, NoOperatorLeft, OuterOf, Outer
<1>4. CASE ParsePrimary
  BY <1>1, <1>4, PrimaryOuter DEF ItemInv, NoOperatorLeft, OuterOf, Outer
<1>5. CASE ParseOperators
  BY <1>1, <1>5, OperatorsOuter DEF ItemInv, NoOperatorLeft, OuterOf, Outer
<1>6. CASE Resume
  BY <1>1, <1>6, ResumeOuter DEF ItemInv, NoOperatorLeft, OuterOf, Outer
<1> QED  BY <1>2, <1>3, <1>4, <1>5, <1>6 DEF Next
-----------------------------------------------------------------------------
(* A token taken for two trees *)

TopCall        == Frame("parseTopLevelExpression", 0, 0, <<>>)
ExpressionCall == Frame("parseExpression", 0, 0, <<>>)

\* parse() takes a literal that is in a tree already.  Nothing is read, so it
\* goes round until a limit is met and returns no result.
Stuck ==
  /\ pos < Len(tokens) /\ ~LastBracket /\ OnLiteral /\ Stalk \notin Operators
  /\ \/ control \in {"parse"} \cup (Outcomes \ {"returned"})
     \/ control = "parsePrimary" /\ stack = <<TopCall, ExpressionCall>>
     \/ control = "return" /\ value # Nil /\ stack \in {<<TopCall, ExpressionCall>>, <<TopCall>>}
     \/ control = RHS /\ \E v \in Nat \ {Nil} : stack = <<TopCall, LoopFrame(0, v)>>

LEMMA ShortStacks ==
  /\ \A a : Last(<<a>>) = a /\ Append(<<>>, a) = <<a>>
  /\ \A a, b : Front(<<a, b>>) = <<a>> /\ Last(<<a, b>>) = b /\ Append(<<a>>, b) = <<a, b>>
<1>1. \A a : Last(<<a>>) = a /\ Append(<<>>, a) = <<a>>
  BY DEF Last
<1>2. ASSUME NEW a, NEW b
      PROVE  Front(<<a, b>>) = <<a>> /\ Last(<<a, b>>) = b /\ Append(<<a>>, b) = <<a, b>>
  <2> DEFINE s == <<a, b>>
  <2>1. s \in Seq({a, b}) /\ s # <<>> /\ Len(s) = 2 /\ s[1] = a /\ s[2] = b
    OBVIOUS
  <2>2. s = Append(<<a>>, b)
    OBVIOUS
  <2> HIDE DEF s
  <2>3. /\ Front(s) \in Seq({a, b}) /\ Len(Front(s)) = 1 /\ Last(s) = b
        /\ Front(s)[1] = a
    <3>1. 2 - 1 = 1 /\ 1 \in 1 .. 2 - 1  OBVIOUS
    <3> QED  BY <2>1, <3>1, FrontLast
  <2>4. Front(s) = <<a>>
    BY <2>3
  <2> QED  BY <2>2, <2>3, <2>4 DEF s
<1> QED  BY <1>1, <1>2

\* The loop goes round.
LEMMA StuckParse ==
  ASSUME ParserInv, Stuck, control = "parse", Next
  PROVE  /\ UNCHANGED <<tokens, pos>>
         /\ \/ control' \in {"parse", "exhausted"}
            \/ control' = "parsePrimary" /\ stack' = <<TopCall, ExpressionCall>>
<1>1. Current \notin Keywords /\ pos < Len(tokens) /\ ~LastBracket
  BY DEF Stuck, OnLiteral, Keywords
<1>2. Finish \/ SkipSeparator \/ BeginPrototype \/ RejectPrototype \/ DropLastBracket
      \/ BeginTopLevel \/ ExhaustMemory
  BY WhoRuns
<1>3. CASE BeginTopLevel
  <2>1. CallExpression(<<TopCall>>, 0)  BY <1>3 DEF BeginTopLevel, TopCall
  <2>2. stack' = Append(<<TopCall>>, ExpressionCall) /\ control' = "parsePrimary"
        /\ pos' = Reads(0) /\ tokens' = tokens
    BY <2>1 DEF CallExpression, ExpressionCall
  <2>3. pos' = pos  BY <2>2, NoRead DEF ParserInv
  <2> QED  BY <2>2, <2>3, ShortStacks
<1>4. ~Finish
  <2>1. pos \in Nat /\ Len(tokens) \in Nat  BY DEF ParserInv, TypeOK
  <2> QED  BY <1>1, <2>1 DEF Finish
<1> QED
  BY <1>1, <1>2, <1>3, <1>4 DEF SkipSeparator, BeginPrototype, RejectPrototype, DropLastBracket,
     ExhaustMemory, Halt, vars

\* The literal becomes a node once more.
LEMMA StuckPrimary ==
  ASSUME ParserInv, Stuck, control = "parsePrimary", Next
  PROVE  /\ UNCHANGED <<tokens, pos>>
         /\ \/ control' = "overflowed"
            \/ control' = "return" /\ value' # Nil /\ stack' = <<TopCall, ExpressionCall>>
<1>1. /\ Current \in {"number", "identifier"} /\ (Current = "identifier" => Stalk # "(")
      /\ pos < Len(tokens) /\ TypeOK /\ stack = <<TopCall, ExpressionCall>>
  BY DEF Stuck, OnLiteral, ParserInv, Outcomes, RHS
<1>2. Stalk # NoToken
  <2>1. Stalk = tokens[pos + 1] /\ pos + 1 \in 1 .. Len(tokens)
    BY <1>1 DEF Stalk, TokenAt, TypeOK
  <2>2. NoToken \notin Token
    BY DEF NoToken, Token, Keywords, Identifiers, Operators, Unknown
  <2> QED  BY <1>1, <2>1, <2>2 DEF TypeOK
<1>3. ParsePrimary
  BY WhoRuns
<1>4. Overflow \/ Number \/ Variable
  BY <1>1, <1>2, <1>3 DEF ParsePrimary, NoPrimary, CallWithoutArguments, CallCutShort,
     CallWithArguments, IsCall, BeginTernary, OperatorAsPrimary, BeginParentheses,
     BeginCurlyBrackets, UnknownToken, Keywords, NoToken, Identifiers, Operators
<1>5. CASE Overflow
  BY <1>5 DEF Overflow, Halt
<1>6. ASSUME NEW node, ReturnNew(node, stack, 0)
      PROVE  UNCHANGED <<tokens, pos>> /\ control' = "return" /\ value' # Nil /\ stack' = stack
  <2>1. Len(nodes) + 1 # Nil
    <3>1. Len(nodes) \in Nat  BY <1>1 DEF TypeOK
    <3> QED  BY <3>1 DEF Nil
  <2> QED  BY <1>1, <1>6, <2>1, NoRead DEF ReturnNew
<1>7. CASE Number \/ Variable
  BY <1>1, <1>6, <1>7 DEF Number, Variable
<1> QED  BY <1>4, <1>5, <1>7

\* The node travels up; the operators that could take it are not there.
LEMMA StuckReturn ==
  ASSUME ParserInv, Stuck, control \in {"return", RHS}, Next
  PROVE  /\ UNCHANGED <<tokens, pos>>
         /\ \/ control' = "parse"
            \/ control' = "return" /\ value' # Nil /\ stack' = <<TopCall>>
            \/ control' = RHS /\ \E v \in Nat \ {Nil} : stack' = <<TopCall, LoopFrame(0, v)>>
<1>1. TypeOK /\ Stalk \notin Operators /\ value \in Nat
  BY Counters DEF Stuck, ParserInv
<1>2. /\ TopCall.fn = "parseTopLevelExpression" /\ ExpressionCall.fn = "parseExpression"
      /\ \A v : LoopFrame(0, v).fn = RHS /\ LoopFrame(0, v).kids = <<v>>
  BY DEF TopCall, ExpressionCall, LoopFrame, Frame, RHS
<1>3. CASE control = "return" /\ stack = <<TopCall, ExpressionCall>>
  <2>1. value # Nil /\ Last(stack).fn = "parseExpression" /\ Front(stack) = <<TopCall>>
    BY <1>2, <1>3, ShortStacks DEF Stuck, Outcomes, RHS
  <2>2. BeginOperators
    BY <1>3, <2>1, WhoRuns DEF PropagateNil
  <2>3. stack' = <<TopCall, LoopFrame(0, value)>> /\ control' = RHS /\ UNCHANGED <<tokens, pos>>
    BY <2>1, <2>2, ShortStacks DEF BeginOperators, Replace, RHS
  <2>4. value \in Nat \ {Nil}  BY <1>1, <2>1
  <2> QED  BY <2>3, <2>4
<1>4. CASE control = RHS
  <2>1. PICK v \in Nat \ {Nil} : stack = <<TopCall, LoopFrame(0, v)>>
    BY <1>4 DEF Stuck, Outcomes, RHS
  <2>2. Last(stack) = LoopFrame(0, v) /\ Front(stack) = <<TopCall>>
    BY <2>1, ShortStacks
  <2>3. TakeOperator \/ EndOperators
    BY <1>4, WhoRuns
  <2>4. EndOperators
    BY <1>1, <2>3 DEF TakeOperator, Climbs
  <2>5. Return(v, <<TopCall>>, 0)
    <3>1. LoopFrame(0, v).kids[1] = v  BY <1>2
    <3> QED  BY <2>2, <2>4, <3>1 DEF EndOperators
  <2> QED  BY <1>1, <2>1, <2>5, NoRead DEF Return
<1>5. CASE control = "return" /\ stack = <<TopCall>>
  <2>1. Last(stack).fn = "parseTopLevelExpression"
    BY <1>2, <1>5, ShortStacks
  <2>2. EndTopLevel
    BY <1>5, <2>1, WhoRuns
  <2> QED  BY <2>2 DEF EndTopLevel
<1> QED  BY <1>3, <1>4, <1>5 DEF Stuck, Outcomes, RHS

LEMMA StuckStays ==
  ASSUME ParserInv, Stuck, [Next]_vars
  PROVE  Stuck'
<1>1. CASE UNCHANGED vars
  BY <1>1 DEF vars, Stuck, LastBracket, OnLiteral, Stalk, Current, TokenAt
<1>2. ASSUME UNCHANGED <<tokens, pos>>
      PROVE  (pos < Len(tokens) /\ ~LastBracket /\ OnLiteral /\ Stalk \notin Operators)'
  BY <1>2 DEF Stuck, LastBracket, OnLiteral, Stalk, Current, TokenAt
<1>3. CASE Next /\ control = "parse"
  <2>1. /\ UNCHANGED <<tokens, pos>>
        /\ \/ control' \in {"parse", "exhausted"}
           \/ control' = "parsePrimary" /\ stack' = <<TopCall, ExpressionCall>>
    BY <1>3, StuckParse
  <2> QED  BY <1>2, <2>1 DEF Stuck, Outcomes, TopCall, ExpressionCall, Frame, LoopFrame
<1>4. CASE Next /\ control = "parsePrimary"
  BY <1>2, <1>4, StuckPrimary DEF Stuck, Outcomes, TopCall, ExpressionCall, Frame, LoopFrame
<1>5. CASE Next /\ control \in {"return", RHS}
  BY <1>2, <1>5, StuckReturn DEF Stuck, Outcomes, TopCall, ExpressionCall, Frame, LoopFrame
<1>6. CASE Next /\ control \in Outcomes
  <2>1. UNCHANGED vars
    BY <1>6, WhoRuns
  <2> QED  BY <1>1, <2>1
<1> QED  BY <1>1, <1>3, <1>4, <1>5, <1>6 DEF Stuck, RHS

-----------------------------------------------------------------------------
(* The trees of a result *)

RootsOf(c) == UNION {c[syntaxTree[i]] : i \in 1 .. Len(syntaxTree)}

RootsApart(c) ==
  \A i, j \in 1 .. Len(syntaxTree) : i < j => Before(c[syntaxTree[i]], c[syntaxTree[j]])

ResultInv(c) == Stuck \/ (OrderInv(c, RootsOf(c)) /\ RootsApart(c))

LEMMA RootsNow ==
  ASSUME ParserInv, NEW c, NodesInOrder(c, nodes)
  PROVE  /\ syntaxTree \in Seq(Nat) /\ RootsOf(c) \in SUBSET Nat
         /\ \A i \in 1 .. Len(syntaxTree) :
              c[syntaxTree[i]] \in SUBSET Nat /\ c[syntaxTree[i]] \subseteq RootsOf(c)
<1>1. syntaxTree \in Seq(DOMAIN nodes) /\ DOMAIN nodes = 1 .. Len(nodes) /\ Len(nodes) \in Nat
  BY DEF ParserInv, TypeOK
<1>2. \A i \in 1 .. Len(syntaxTree) : syntaxTree[i] \in 1 .. Len(nodes)
  BY <1>1
<1>3. syntaxTree \in Seq(Nat)
  <2>1. 1 .. Len(nodes) \subseteq Nat  BY <1>1
  <2> QED  BY <1>1, <2>1
<1>4. \A i \in 1 .. Len(syntaxTree) : c[syntaxTree[i]] \in SUBSET Nat
  BY <1>2 DEF NodesInOrder
<1> QED  BY <1>3, <1>4 DEF RootsOf

\* The trees with one more.
LEMMA OneMoreTree ==
  ASSUME ParserInv, NEW c, NodesInOrder(c, nodes), RootsApart(c), NEW root \in Nat,
         syntaxTree' = Append(syntaxTree, root), Before(RootsOf(c), c[root])
  PROVE  RootsApart(c)' /\ RootsOf(c)' = RootsOf(c) \cup c[root]
<1>1. /\ syntaxTree \in Seq(Nat)
      /\ \A i \in 1 .. Len(syntaxTree) : c[syntaxTree[i]] \subseteq RootsOf(c)
  BY RootsNow
<1>2. PICK k \in Nat : k = Len(syntaxTree)  BY <1>1
<1>3. /\ Len(syntaxTree') = k + 1 /\ syntaxTree'[k + 1] = root
      /\ \A i \in 1 .. k : syntaxTree'[i] = syntaxTree[i]
  BY <1>1, <1>2, Appended
<1>4. /\ \A i \in 1 .. k + 1 : i \in 1 .. k \/ i = k + 1
      /\ k + 1 \in 1 .. k + 1 /\ \A i \in 1 .. k : i \in 1 .. k + 1
  BY <1>2
<1>5. RootsOf(c)' = RootsOf(c) \cup c[root]
  BY <1>2, <1>3, <1>4 DEF RootsOf
<1>6. ASSUME NEW i \in 1 .. k + 1, NEW j \in 1 .. k + 1, i < j
      PROVE  Before(c[syntaxTree'[i]], c[syntaxTree'[j]])
  <2>1. i \in 1 .. k  BY <1>2, <1>6
  <2>2. CASE j \in 1 .. k
    BY <1>2, <1>3, <1>6, <2>1, <2>2 DEF RootsApart
  <2>3. CASE j = k + 1
    BY <1>1, <1>2, <1>3, <2>1, <2>3, BeforeParts
  <2> QED  BY <1>4, <2>2, <2>3
<1> QED  BY <1>3, <1>5, <1>6 DEF RootsApart

\* What is complete is behind the cursor of parse().
LEMMA LimitOfParse ==
  ASSUME ItemInv, EndPrototype \/ EndTopLevel \/ EndDefinition, control' = "parse"
  PROVE  Limit \in Nat /\ Limit' \in Nat /\ Limit <= Limit'
<1>1. TypeOK /\ ParserInv /\ UNCHANGED tokens
  BY DEF ItemInv, ParserInv, EndPrototype, EndTopLevel, EndDefinition
<1>2. CASE EndTopLevel \/ EndDefinition
  <2>1. /\ control = "return" /\ Last(stack).fn \in Bottoms /\ pos' = pos
    BY <1>2 DEF EndTopLevel, EndDefinition, AtTop, Bottoms
  <2>2. Len(stack) = 1
    <3>1. WellFormed(stack, Len(nodes)) /\ stack # <<>>
      BY <1>1, <2>1 DEF ParserInv, TopMatchesControl, Running, Outcomes
    <3> QED  BY <2>1, <3>1, FrameFacts
  <2>3. Current' = Current /\ Stalk' = Stalk
    BY <1>1, <2>1 DEF Current, Stalk, TokenAt
  <2>4. CursorUsed => CursorUsed'
    BY <2>1, <2>2, <2>3 DEF CursorUsed, OnLiteral, ItemInv, NoOperatorLeft, RHS
  <2>5. pos' = Reads(0) /\ 0 \in Nat  BY <1>1, <2>1, NoRead
  <2> QED  BY <1>1, <2>4, <2>5, LimitMoves, LimitNow
<1>3. CASE EndPrototype
  <2>1. Stalk # NoToken /\ pos' = Reads(2) /\ control = "parsePrototype"
    BY <1>3 DEF EndPrototype, NoToken
  <2>2. pos' = pos + 2 /\ pos \in Nat /\ Limit \in Nat /\ Limit <= pos + 1
    BY <1>1, <2>1, Ahead, LimitNow
  <2>3. pos' \in Nat /\ Limit' \in Nat /\ pos' <= Limit'
    BY <1>1, <2>1, LimitMoves
  <2> QED  BY <2>2, <2>3
<1> QED  BY <1>2, <1>3

\* parse() begins an expression at a literal that is in a tree only when no
\* operator follows, and that is the end of it.
LEMMA BeginsOrSticks ==
  ASSUME ParserInv, NEW c, NEW R \in SUBSET Nat, OrderInv(c, R), BeginTopLevel
  PROVE  Stuck' \/ Before(R, {pos})
<1>1. /\ control = "parse" /\ pos < Len(tokens) /\ ~LastBracket /\ CallExpression(<<TopCall>>, 0)
  BY DEF BeginTopLevel, IsTopLevel, InLoop, TopCall
<1>2. stack' = Append(<<TopCall>>, ExpressionCall) /\ control' = "parsePrimary" /\ UNCHANGED <<tokens, pos>>
  BY <1>1, NoRead DEF CallExpression, ExpressionCall, ParserInv
<1>3. CASE CursorUsed
  <2>1. OnLiteral /\ Stalk \notin Operators
    BY <1>1, <1>3 DEF CursorUsed, RHS
  <2>2. stack' = <<TopCall, ExpressionCall>>'
    BY <1>2, ShortStacks DEF TopCall, ExpressionCall, Frame
  <2> QED  BY <1>1, <1>2, <2>1, <2>2 DEF Stuck, LastBracket, OnLiteral, Current, Stalk, TokenAt
<1>4. CASE ~CursorUsed
  BY <1>1, <1>4 DEF OrderInv, CallsInOrder, Order, Running, Outcomes, Limit
<1> QED  BY <1>3, <1>4

LEMMA ResultStays ==
  ASSUME ItemInv, NEW c, ResultInv(c), Covers(c, nodes'), [Next]_vars
  PROVE  ResultInv(c)'
<1>1. ParserInv  BY DEF ItemInv
<1>2. CASE Stuck
  BY <1>1, <1>2, StuckStays DEF ResultInv
<1>3. CASE OrderInv(c, RootsOf(c)) /\ RootsApart(c) /\ ~Stuck'
  <2>1. NodesInOrder(c, nodes)  BY <1>3 DEF OrderInv
  <2>2. RootsOf(c) \in SUBSET Nat  BY <1>1, <2>1, RootsNow
  <2>3. PICK R \in SUBSET Nat : R = RootsOf(c)  BY <2>2
  <2>4. OrderInv(c, R)  BY <1>3, <2>3
  <2>5. BeginTopLevel => Before(R, {pos})
    BY <1>1, <1>3, <2>4, BeginsOrSticks
  <2>6. \/ OrderInv(c, R)' /\ UNCHANGED syntaxTree
        \/ (EndPrototype \/ EndTopLevel \/ EndDefinition) /\ Completes(c, R)
    BY <1>1, <2>4, <2>5, StepOrder
  <2>7. ASSUME UNCHANGED syntaxTree
        PROVE  RootsOf(c)' = R /\ RootsApart(c)'
    BY <1>3, <2>3, <2>7 DEF RootsOf, RootsApart
  <2>8. CASE OrderInv(c, R)' /\ UNCHANGED syntaxTree
    BY <2>7, <2>8 DEF ResultInv
  <2>9. CASE (EndPrototype \/ EndTopLevel \/ EndDefinition) /\ Completes(c, R)
    <3>1. /\ NodesInOrder(c, nodes') /\ control' = "parse" /\ stack' = <<>>
          /\ \/ syntaxTree' = syntaxTree
             \/ /\ syntaxTree' = Append(syntaxTree, Len(nodes'))
                /\ Before(R, c[Len(nodes')]) /\ Before(c[Len(nodes')], {Limit})
      BY <2>9 DEF Completes
    <3>2. Limit \in Nat /\ Limit' \in Nat /\ Limit <= Limit'
      BY <2>9, <3>1, LimitOfParse
    <3>3. Running
      BY <2>9 DEF EndPrototype, EndTopLevel, EndDefinition, AtTop, Running, Outcomes
    <3>4. Before(R, {Limit'})
      <4>1. Before(R, {Limit})  BY <2>4, <3>3 DEF OrderInv, CallsInOrder, Order
      <4> QED  BY <3>2, <4>1, BeforeLater
    <3>5. CASE syntaxTree' = syntaxTree
      BY <2>7, <3>1, <3>4, <3>5, LoopOrder DEF ResultInv
    <3>6. CASE /\ syntaxTree' = Append(syntaxTree, Len(nodes'))
               /\ Before(R, c[Len(nodes')]) /\ Before(c[Len(nodes')], {Limit})
      <4>1. PICK root \in Nat : root = Len(nodes') /\ c[root] \in SUBSET Nat
        <5>1. ParserInv'  BY <1>1, NextInv
        <5>2. Len(nodes') \in Nat  BY <5>1 DEF ParserInv, TypeOK
        <5>3. syntaxTree' \in Seq(DOMAIN nodes') /\ DOMAIN nodes' = 1 .. Len(nodes')
          BY <5>1 DEF ParserInv, TypeOK
        <5>4. PICK k \in Nat : k = Len(syntaxTree)  BY <1>1, <2>1, RootsNow
        <5>5. Len(syntaxTree') = k + 1 /\ syntaxTree'[k + 1] = Len(nodes')
          <6>1. syntaxTree \in Seq(Nat)  BY <1>1, <2>1, RootsNow
          <6> QED  BY <3>6, <5>2, <5>4, <6>1, Appended
        <5>6. Len(nodes') \in 1 .. Len(nodes')
          <6>1. k + 1 \in 1 .. k + 1  BY <5>4
          <6> QED  BY <5>3, <5>5, <6>1
        <5> QED  BY <3>1, <5>2, <5>6 DEF NodesInOrder
      <4>2. RootsApart(c)' /\ RootsOf(c)' = R \cup c[root]
        BY <1>1, <1>3, <2>1, <2>3, <3>6, <4>1, OneMoreTree
      <4>3. Before(c[root], {Limit'})
        BY <3>2, <3>6, <4>1, BeforeLater
      <4>4. Before(R \cup c[root], {Limit'})
        BY <3>4, <4>3, BeforeParts
      <4>5. OrderInv(c, R \cup c[root])'
        BY <3>1, <4>4, LoopOrder
      <4> QED  BY <4>2, <4>5 DEF ResultInv
    <3> QED  BY <3>1, <3>5, <3>6
  <2> QED  BY <2>6, <2>8, <2>9
<1> QED  BY <1>2, <1>3 DEF ResultInv

ResultsInOrder ==
  /\ ItemInv /\ Coverable(nodes)
  /\ \A c : Covers(c, nodes) => ResultInv(c)

(* parse() may build a tree over and over, and only the limits stop it     *)
(* then: the trees of a result come from different parts of the source, in *)
(* the order of the source, for every input and every limit.               *)
THEOREM ResultsUseTokensOnce == Spec => []ResultUsesTokensOnce
<1>1. Init => ResultsInOrder
  <2> SUFFICES ASSUME Init PROVE ResultsInOrder
    OBVIOUS
  <2>1. nodes = <<>> /\ stack = <<>> /\ control = "parse" /\ syntaxTree = <<>>
    BY DEF Init, Fresh
  <2>2. ItemInv
    BY <2>1, InitInv DEF ItemInv, OuterOf, NoOperatorLeft
  <2>3. \A c : Covers(c, nodes) /\ RootsOf(c) = {} /\ RootsApart(c)
    BY <2>1 DEF Covers, RootsOf, RootsApart
  <2>4. \A c : OrderInv(c, {})
    BY <2>1, BeforeParts DEF OrderInv, NodesInOrder, CallsInOrder, Order
  <2> QED  BY <2>2, <2>3, <2>4 DEF ResultsInOrder, ResultInv, Coverable
<1>2. ResultsInOrder /\ [Next]_vars => ResultsInOrder'
  <2> SUFFICES ASSUME ResultsInOrder, [Next]_vars PROVE ResultsInOrder'
    OBVIOUS
  <2>1. ItemInv /\ ParserInv /\ Coverable(nodes)  BY DEF ResultsInOrder, ItemInv
  <2>2. ItemInv' /\ ParserInv'  BY <2>1, ItemStays, NextInv
  <2>3. Coverable(nodes')  BY <2>1, <2>2, StaysCoverable
  <2>4. ASSUME NEW c, Covers(c, nodes') PROVE ResultInv(c)'
    <3>1. Covers(c, nodes)  BY <2>1, <2>4, CoversLess
    <3>2. ResultInv(c)  BY <3>1 DEF ResultsInOrder
    <3> QED  BY <2>1, <2>4, <3>2, ResultStays
  <2>5. \A c : Covers(c, nodes)' => ResultInv(c)'
    BY <2>4 DEF Covers
  <2> QED  BY <2>2, <2>3, <2>5 DEF ResultsInOrder, Coverable
<1>3. ResultsInOrder => ResultUsesTokensOnce
  <2> SUFFICES ASSUME ResultsInOrder, control = "returned",
                      NEW i \in DOMAIN syntaxTree, NEW j \in DOMAIN syntaxTree, i < j
               PROVE  Covered[syntaxTree[i]] \cap Covered[syntaxTree[j]] = {}
    BY DEF ResultUsesTokensOnce
  <2> DEFINE cover == Covered
  <2>1. ParserInv /\ HeapOK(nodes) /\ Coverable(nodes)
    BY TypeOKParts DEF ResultsInOrder, ItemInv, ParserInv
  <2>2. Covers(cover, nodes)  BY <2>1, CoveredCovers
  <2> HIDE DEF cover
  <2>3. ~Stuck  BY DEF Stuck, Outcomes, RHS
  <2>4. OrderInv(cover, RootsOf(cover)) /\ RootsApart(cover)
    BY <2>2, <2>3 DEF ResultsInOrder, ResultInv
  <2>5. /\ syntaxTree \in Seq(Nat)
        /\ \A k \in 1 .. Len(syntaxTree) : cover[syntaxTree[k]] \in SUBSET Nat
    BY <2>1, <2>4, RootsNow DEF OrderInv
  <2>6. i \in 1 .. Len(syntaxTree) /\ j \in 1 .. Len(syntaxTree)
    BY <2>5
  <2>7. Before(cover[syntaxTree[i]], cover[syntaxTree[j]])
    BY <2>4, <2>6 DEF RootsApart
  <2>8. \A S, T \in SUBSET Nat : Before(S, T) => S \cap T = {}
    BY DEF Before
  <2>9. cover[syntaxTree[i]] \cap cover[syntaxTree[j]] = {}
    BY <2>5, <2>6, <2>7, <2>8
  <2> QED  BY <2>9 DEF cover
<1> QED  BY <1>1, <1>2, <1>3, PTL DEF Spec

=============================================================================
