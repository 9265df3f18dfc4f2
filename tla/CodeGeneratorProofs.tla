------------------------- MODULE CodeGeneratorProofs -------------------------
(***************************************************************************)
(* Type correctness of the code generator, for every program the parser    *)
(* may hand over.                                                          *)
(*                                                                         *)
(* Shape adds to TypeOK what the recursion of getValue and its fields have *)
(* to do with each other: a prototype or a motif is at the bottom of the   *)
(* stack and expressions are above it; while a motif is entered, the       *)
(* builder, currentFunction and currentBB are in its function; while none  *)
(* is, the fields are as they were at the start.                           *)
(***************************************************************************)
EXTENDS CodeGenerator, SequenceTheorems, WellFoundedInduction, TLAPS

(* The types of the module, with the n values there are *)

\* The provers do not know that a literal is a STRING.
Text == STRING \cup {"printf", "print", Renamed}

FunctionType(n) ==
  [name : Text, result : Types, params : Seq(Types), vararg : BOOLEAN,
   blocks : Seq(Seq(1 .. n))]

Older(vs) == \A v \in DOMAIN vs : \A i \in DOMAIN vs[v].args : vs[v].args[i] \in 1 .. v - 1

ValuesOK(vs) == vs \in Seq(Value_) /\ Older(vs)

IsBlock(fs, at) ==
  /\ at \in Seq(Nat)
  /\ at[1] \in 1 .. Len(fs)
  /\ at[2] \in 1 .. Len(fs[at[1]].blocks)

\* Functions are added and get blocks, and nothing else of them changes.
Grown(fs, gs) ==
  /\ Len(fs) <= Len(gs)
  /\ \A f \in 1 .. Len(fs) :
       /\ gs[f].params = fs[f].params /\ gs[f].vararg = fs[f].vararg
       /\ gs[f].name = fs[f].name /\ gs[f].result = fs[f].result
       /\ Len(fs[f].blocks) <= Len(gs[f].blocks)

(* The stack, over the heap h of the program *)

FrameType(h, n) == [node : DOMAIN h, got : Seq(1 .. n), of : Seq(Nat)]

Roots == {"prototype", "motif"}

FrameOK(h, f, fs) ==
  /\ h[f.node].kind = "prototype" => f.of = <<>>
  /\ h[f.node].kind = "motif" /\ f.of # <<>> => IsBlock(fs, f.of)
  /\ h[f.node].kind = "call" /\ f.of # <<>> =>
       /\ f.of[1] \in 1 .. Len(fs)
       /\ Len(fs[f.of[1]].params) = Len(h[f.node].kids)

\* A motif has been entered.
Entered(s) == s # <<>> /\ s[1].of # <<>>

StackOK(h, s, fs, n) ==
  /\ s \in Seq(FrameType(h, n))
  /\ \A i \in 1 .. Len(s) :
       /\ FrameOK(h, s[i], fs)
       /\ h[s[i].node].kind \in (IF i = 1 THEN Roots ELSE ExpressionKinds)
  /\ Len(s) >= 2 => Entered(s)

FieldsOK(s, cf, cb, ret, at) ==
  IF Entered(s)
    THEN cf = s[1].of[1] /\ cb = s[1].of /\ at[1] = cf
    ELSE cf = NoFunction /\ cb = <<>> /\ ret

NamesOK(names, n) == \A x \in DOMAIN names : names[x] \in 1 .. n

Shape ==
  /\ Generatable(program)
  /\ next \in 1 .. Len(program.trees) + 1
  /\ control \in Outcomes \cup {"generating"}
  /\ ValuesOK(values)
  /\ functions \in Seq(FunctionType(Len(values)))
  /\ StackOK(nodes, stack, functions, Len(values))
  /\ IsBlock(functions, insertion)
  /\ FieldsOK(stack, currentFunction, currentBB, shouldReturn, insertion)
  /\ NamesOK(namedValues, Len(values))
  /\ shouldReturn \in BOOLEAN

-----------------------------------------------------------------------------
(* Values *)

LEMMA LastOfSeq ==
  ASSUME NEW S, NEW s \in Seq(S), s # <<>>
  PROVE  /\ Len(s) \in Nat \ {0} /\ Last(s) = s[Len(s)] /\ Last(s) \in S
         /\ Front(s) \in Seq(S) /\ Len(Front(s)) = Len(s) - 1
         /\ \A i \in 1 .. Len(s) - 1 : Front(s)[i] = s[i]
<1>1. PICK k \in Nat \ {0} : k = Len(s)
  BY EmptySeq
<1>2. 1 \in Int /\ k - 1 \in Int /\ \A i \in 1 .. k - 1 : s[i] \in S
  BY <1>1
<1>3. /\ Front(s) \in Seq(S) /\ Len(Front(s)) = IF 1 <= k - 1 THEN k - 1 - 1 + 1 ELSE 0
      /\ \A i \in 1 .. k - 1 - 1 + 1 : Front(s)[i] = s[1 + i - 1]
  BY <1>1, <1>2, SubSeqProperties DEF Front
<1>4. Last(s) = s[Len(s)] /\ s[Len(s)] \in S
  BY <1>1 DEF Last
<1> QED  BY <1>1, <1>3, <1>4

LEMMA NewValue ==
  ASSUME NEW vs, ValuesOK(vs), NEW v \in Value_,
         \A i \in DOMAIN v.args : v.args[i] \in 1 .. Len(vs)
  PROVE  /\ ValuesOK(Append(vs, v))
         /\ Len(vs) \in Nat /\ Len(Append(vs, v)) = Len(vs) + 1
         /\ \A i \in 1 .. Len(vs) : Append(vs, v)[i] = vs[i]
         /\ Append(vs, v)[Len(vs) + 1] = v
<1> DEFINE ws == Append(vs, v)
<1>1. vs \in Seq(Value_)  BY DEF ValuesOK
<1>2. /\ ws \in Seq(Value_) /\ Len(ws) = Len(vs) + 1 /\ ws[Len(vs) + 1] = v
      /\ \A i \in 1 .. Len(vs) : ws[i] = vs[i]
  <2> HIDE DEF Value_
  <2> QED  BY <1>1, AppendProperties
<1>3. PICK k \in Nat : k = Len(vs) /\ DOMAIN vs = 1 .. k
  BY <1>1
<1>4. DOMAIN ws = 1 .. k + 1
  BY <1>2, <1>3
<1>5. \A j \in 1 .. k + 1 : \A i \in DOMAIN ws[j].args : ws[j].args[i] \in 1 .. j - 1
  <2> SUFFICES ASSUME NEW j \in 1 .. k + 1
               PROVE  \A i \in DOMAIN ws[j].args : ws[j].args[i] \in 1 .. j - 1
    OBVIOUS
  <2>1. CASE j \in 1 .. k
    <3>1. ws[j] = vs[j]  BY <1>2, <1>3, <2>1
    <3>2. \A i \in DOMAIN vs[j].args : vs[j].args[i] \in 1 .. j - 1
      BY <1>3, <2>1 DEF ValuesOK, Older
    <3> HIDE DEF ws
    <3> QED  BY <3>1, <3>2, Zenon
  <2>2. CASE j = k + 1
    <3>1. ws[j] = v /\ \A i \in DOMAIN v.args : v.args[i] \in 1 .. j - 1
      BY <1>2, <1>3, <2>2
    <3> HIDE DEF ws
    <3> QED  BY <3>1, Zenon
  <2>3. j \in 1 .. k \/ j = k + 1
    OBVIOUS
  <2> HIDE DEF ws
  <2> QED  BY <2>1, <2>2, <2>3, Zenon
<1> QED  BY <1>2, <1>3, <1>4, <1>5 DEF ValuesOK, Older

-----------------------------------------------------------------------------
(* Functions *)

LEMMA MoreValues ==
  ASSUME NEW n \in Nat, NEW m \in Nat, n <= m,
         NEW fs \in Seq(FunctionType(n))
  PROVE  fs \in Seq(FunctionType(m))
<1>1. 1 .. n \subseteq 1 .. m
  OBVIOUS
<1>2. Seq(1 .. n) \subseteq Seq(1 .. m)
  BY <1>1, SeqMonotonic
<1>3. Seq(Seq(1 .. n)) \subseteq Seq(Seq(1 .. m))
  BY <1>2, SeqMonotonic
<1>4. FunctionType(n) \subseteq FunctionType(m)
  BY <1>3 DEF FunctionType
<1> QED  BY <1>4, SeqMonotonic

LEMMA GrownIsReflexive == ASSUME NEW n, NEW fs \in Seq(FunctionType(n)) PROVE Grown(fs, fs)
<1>1. Len(fs) \in Nat /\ \A f \in 1 .. Len(fs) : fs[f] \in FunctionType(n)
  OBVIOUS
<1>2. \A f \in 1 .. Len(fs) : Len(fs[f].blocks) \in Nat
  BY <1>1 DEF FunctionType
<1> QED  BY <1>1, <1>2 DEF Grown

LEMMA FunctionFacts ==
  ASSUME NEW n, NEW fs \in Seq(FunctionType(n)), NEW f \in 1 .. Len(fs)
  PROVE  /\ fs[f] \in FunctionType(n)
         /\ fs[f].blocks \in Seq(Seq(1 .. n)) /\ Len(fs[f].blocks) \in Nat
         /\ fs[f].result \in Types /\ fs[f].params \in Seq(Types) /\ fs[f].name \in Text
<1>1. fs[f] \in FunctionType(n)
  BY ElementOfSeq
<1>2. fs[f].blocks \in Seq(Seq(1 .. n))
  BY <1>1 DEF FunctionType
<1> QED  BY <1>1, <1>2 DEF FunctionType

\* One function of a module is given other blocks.
Reblock(fs, f, bs) == [fs EXCEPT ![f].blocks = bs]

LEMMA Reblocked ==
  ASSUME NEW n, NEW fs \in Seq(FunctionType(n)), NEW f \in 1 .. Len(fs),
         NEW bs \in Seq(Seq(1 .. n)), Len(fs[f].blocks) <= Len(bs)
  PROVE  LET gs == Reblock(fs, f, bs) IN
         /\ gs \in Seq(FunctionType(n)) /\ Len(gs) = Len(fs) /\ Grown(fs, gs)
         /\ gs[f].blocks = bs
         /\ \A g \in 1 .. Len(fs) : g # f => gs[g] = fs[g]
<1> DEFINE e  == [fs[f] EXCEPT !.blocks = bs]
           gs == [fs EXCEPT ![f] = e]
<1>1. e \in FunctionType(n)
  BY FunctionFacts DEF FunctionType
<1>2. /\ gs \in Seq(FunctionType(n)) /\ Len(gs) = Len(fs)
      /\ \A g \in 1 .. Len(fs) : gs[g] = IF g = f THEN e ELSE fs[g]
  <2> HIDE DEF e
  <2> QED  BY <1>1, ExceptSeq
<1>3. /\ e.blocks = bs /\ e.params = fs[f].params /\ e.vararg = fs[f].vararg
      /\ e.name = fs[f].name /\ e.result = fs[f].result
  BY FunctionFacts DEF FunctionType
<1>4. \A g \in 1 .. Len(fs) : Len(fs[g].blocks) \in Nat
  BY FunctionFacts
<1>5. Grown(fs, gs)
  <2> HIDE DEF e, gs
  <2>1. Len(fs) \in Nat  OBVIOUS
  <2> QED  BY <1>2, <1>3, <1>4, <2>1 DEF Grown
<1>6. gs = Reblock(fs, f, bs)
  BY DEF Reblock
<1> HIDE DEF e, gs
<1> QED  BY <1>2, <1>3, <1>5, <1>6

LEMMA Inserted ==
  ASSUME NEW n, NEW fs \in Seq(FunctionType(n)), NEW at, IsBlock(fs, at), NEW v \in 1 .. n
  PROVE  LET gs == InsertInto(fs, at, v) IN
         /\ gs \in Seq(FunctionType(n)) /\ Len(gs) = Len(fs) /\ Grown(fs, gs)
         /\ \A g \in 1 .. Len(fs) : Len(gs[g].blocks) = Len(fs[g].blocks)
         /\ \A g \in 1 .. Len(fs) : g # at[1] => gs[g] = fs[g]
         /\ \A b \in 1 .. Len(fs[at[1]].blocks) :
              gs[at[1]].blocks[b] = IF b = at[2] THEN Append(fs[at[1]].blocks[b], v)
                                                 ELSE fs[at[1]].blocks[b]
<1> DEFINE f  == at[1]
           bs == [fs[f].blocks EXCEPT ![at[2]] = Append(@, v)]
           gs == Reblock(fs, f, bs)
<1>1. f \in 1 .. Len(fs) /\ at[2] \in 1 .. Len(fs[f].blocks)
  BY DEF IsBlock
<1>2. fs[f].blocks \in Seq(Seq(1 .. n)) /\ fs[f].blocks[at[2]] \in Seq(1 .. n)
  <2> HIDE DEF f, bs, gs
  <2>1. fs[f].blocks \in Seq(Seq(1 .. n))
    BY <1>1, FunctionFacts, Zenon
  <2> QED  BY <1>1, <2>1, ElementOfSeq, Zenon
<1>3. Append(fs[f].blocks[at[2]], v) \in Seq(1 .. n)
  BY <1>2, AppendProperties
<1>4. /\ bs \in Seq(Seq(1 .. n)) /\ Len(bs) = Len(fs[f].blocks)
      /\ \A b \in 1 .. Len(fs[f].blocks) :
           bs[b] = IF b = at[2] THEN Append(fs[f].blocks[b], v) ELSE fs[f].blocks[b]
  BY <1>1, <1>2, <1>3, ExceptSeq
<1>5. Len(bs) \in Nat /\ Len(fs[f].blocks) <= Len(bs)
  BY <1>2, <1>4
<1>6. /\ gs \in Seq(FunctionType(n)) /\ Len(gs) = Len(fs) /\ Grown(fs, gs)
      /\ gs[f].blocks = bs
      /\ \A g \in 1 .. Len(fs) : g # f => gs[g] = fs[g]
  <2> HIDE DEF bs, f
  <2> QED  BY <1>1, <1>4, <1>5, Reblocked
<1>7. gs = InsertInto(fs, at, v)
  BY DEF InsertInto, Reblock
<1> HIDE DEF gs, bs
<1> QED  BY <1>4, <1>6, <1>7

LEMMA Blocked ==
  ASSUME NEW n \in Nat, NEW fs \in Seq(FunctionType(n)), NEW f \in 1 .. Len(fs)
  PROVE  LET gs == AppendBlock(fs, f) IN
         /\ gs \in Seq(FunctionType(n)) /\ Len(gs) = Len(fs) /\ Grown(fs, gs)
         /\ Len(gs[f].blocks) = Len(fs[f].blocks) + 1
         /\ LastBlock(gs, f) = <<f, Len(fs[f].blocks) + 1>> /\ IsBlock(gs, LastBlock(gs, f))
         /\ gs[f].blocks[Len(fs[f].blocks) + 1] = <<>>
         /\ \A b \in 1 .. Len(fs[f].blocks) : gs[f].blocks[b] = fs[f].blocks[b]
         /\ \A g \in 1 .. Len(fs) : g # f => gs[g] = fs[g]
<1> DEFINE bs == Append(fs[f].blocks, <<>>)
           gs == Reblock(fs, f, bs)
<1>1. fs[f].blocks \in Seq(Seq(1 .. n)) /\ <<>> \in Seq(1 .. n)
  <2>1. fs[f].blocks \in Seq(Seq(1 .. n))
    BY FunctionFacts, Zenon
  <2> QED  BY <2>1
<1>2. /\ bs \in Seq(Seq(1 .. n)) /\ Len(bs) = Len(fs[f].blocks) + 1
      /\ bs[Len(fs[f].blocks) + 1] = <<>>
      /\ \A b \in 1 .. Len(fs[f].blocks) : bs[b] = fs[f].blocks[b]
  BY <1>1, AppendProperties
<1>3. Len(fs[f].blocks) \in Nat /\ Len(fs[f].blocks) <= Len(bs)
  BY <1>1, <1>2
<1>4. /\ gs \in Seq(FunctionType(n)) /\ Len(gs) = Len(fs) /\ Grown(fs, gs)
      /\ gs[f].blocks = bs
      /\ \A g \in 1 .. Len(fs) : g # f => gs[g] = fs[g]
  <2> HIDE DEF bs
  <2>1. bs \in Seq(Seq(1 .. n)) /\ Len(fs[f].blocks) <= Len(bs)
    BY <1>2, <1>3
  <2> QED  BY <2>1, Reblocked
<1>5. gs = AppendBlock(fs, f)
  BY DEF AppendBlock, Reblock
<1> HIDE DEF gs, bs
<1>6. Len(fs) \in Nat /\ f \in Nat /\ f \in 1 .. Len(gs)
  BY <1>4
<1>7. LastBlock(gs, f) = <<f, Len(fs[f].blocks) + 1>>
  BY <1>2, <1>4 DEF LastBlock
<1>8. IsBlock(gs, LastBlock(gs, f))
  BY <1>2, <1>3, <1>4, <1>6, <1>7 DEF IsBlock
<1> QED  BY <1>2, <1>3, <1>4, <1>5, <1>7, <1>8

LEMMA BlockStays ==
  ASSUME NEW n, NEW fs \in Seq(FunctionType(n)), NEW gs \in Seq(FunctionType(n)), Grown(fs, gs),
         NEW at, IsBlock(fs, at)
  PROVE  IsBlock(gs, at)
<1>1. at[1] \in 1 .. Len(fs) /\ at[1] \in 1 .. Len(gs) /\ Len(fs) \in Nat /\ Len(gs) \in Nat
  BY DEF IsBlock, Grown
<1>2. Len(fs[at[1]].blocks) \in Nat /\ Len(gs[at[1]].blocks) \in Nat
  BY <1>1, FunctionFacts
<1> QED  BY <1>1, <1>2, SMTT(30) DEF IsBlock, Grown

LEMMA BlocksStay ==
  ASSUME NEW n, NEW fs \in Seq(FunctionType(n)), NEW gs, Grown(fs, gs),
         NEW f \in 1 .. Len(fs)
  PROVE  f \in 1 .. Len(gs) /\ gs[f].params = fs[f].params
<1> Len(fs) \in Nat /\ Len(gs) \in Nat
  BY LenProperties
<1> QED  BY DEF Grown

-----------------------------------------------------------------------------
(* The stack *)

LEMMA NodeFacts ==
  ASSUME Generatable(program), NEW n \in DOMAIN nodes
  PROVE  /\ nodes[n].name \in STRING /\ nodes[n].kids \in Seq(Nat)
         /\ nodes[n].kind \in ExpressionKinds \cup {"param", "prototype", "motif"}
         /\ Len(nodes[n].kids) \in Nat
         /\ DOMAIN nodes[n].kids = 1 .. Len(nodes[n].kids)
         /\ \A i \in 1 .. Len(nodes[n].kids) :
              /\ nodes[n].kids[i] \in DOMAIN nodes
              /\ nodes[n].kind \in ExpressionKinds =>
                   nodes[nodes[n].kids[i]].kind \in ExpressionKinds
              /\ nodes[n].kind = "motif" =>
                   nodes[nodes[n].kids[i]].kind \in
                     (IF i = 1 THEN {"prototype"} ELSE ExpressionKinds)
         /\ nodes[n].kind = "binary" => Len(nodes[n].kids) = 2
         /\ nodes[n].kind = "cond"   => Len(nodes[n].kids) = 3
         /\ nodes[n].kind = "motif"  => Len(nodes[n].kids) \in {1, 2}
<1> DEFINE NodeType == [kind : ExpressionKinds \cup {"param", "prototype", "motif"},
                        name : STRING \ {Renamed}, kids : Seq(Nat)]
           node == nodes[n]
<1>1. nodes \in Seq(NodeType)
  BY DEF Generatable, nodes
<1>2. PICK k \in Nat : k = Len(nodes) /\ DOMAIN nodes = 1 .. k
  BY <1>1, LenProperties
<1>3. node \in NodeType
  <2> HIDE DEF NodeType
  <2> QED  BY <1>1, <1>2, ElementOfSeq
<1>4. /\ node.name \in STRING /\ node.kids \in Seq(Nat)
      /\ node.kind \in ExpressionKinds \cup {"param", "prototype", "motif"}
  BY <1>3
<1>5. Len(node.kids) \in Nat /\ DOMAIN node.kids = 1 .. Len(node.kids)
  BY <1>4, LenProperties
<1>6. \A i \in DOMAIN node.kids :
        /\ node.kids[i] \in 1 .. n - 1
        /\ IF node.kind = "motif" /\ i = 1
             THEN nodes[node.kids[i]].kind = "prototype"
             ELSE nodes[node.kids[i]].kind \in KidsOf(node.kind)
  <2>1. IsComplete(nodes, node)
    BY DEF Generatable, CompleteTrees, nodes
  <2>2. \A i \in DOMAIN node.kids : node.kids[i] \in 1 .. n - 1
    BY DEF Generatable, nodes
  <2> QED  BY <2>1, <2>2 DEF IsComplete
<1>7. /\ node.kind = "binary" => Len(node.kids) = 2
      /\ node.kind = "cond"   => Len(node.kids) = 3
      /\ node.kind = "motif"  => Len(node.kids) \in {1, 2}
  BY DEF Generatable, CompleteTrees, IsComplete, nodes
<1>8. node.kind \in ExpressionKinds \cup {"motif"} => KidsOf(node.kind) \subseteq ExpressionKinds
  BY DEF ExpressionKinds, KidsOf
<1>9. \A i \in 1 .. Len(node.kids) :
        /\ node.kids[i] \in DOMAIN nodes
        /\ node.kind \in ExpressionKinds => nodes[node.kids[i]].kind \in ExpressionKinds
        /\ node.kind = "motif" =>
             nodes[node.kids[i]].kind \in (IF i = 1 THEN {"prototype"} ELSE ExpressionKinds)
  <2> SUFFICES ASSUME NEW i \in 1 .. Len(node.kids)
               PROVE  /\ node.kids[i] \in DOMAIN nodes
                      /\ node.kind \in ExpressionKinds =>
                           nodes[node.kids[i]].kind \in ExpressionKinds
                      /\ node.kind = "motif" =>
                           nodes[node.kids[i]].kind \in (IF i = 1 THEN {"prototype"}
                                                                  ELSE ExpressionKinds)
    OBVIOUS
  <2>1. node.kids[i] \in 1 .. n - 1
    BY <1>5, <1>6
  <2>2. node.kids[i] \in DOMAIN nodes
    BY <1>2, <2>1
  <2>3. IF node.kind = "motif" /\ i = 1
          THEN nodes[node.kids[i]].kind = "prototype"
          ELSE nodes[node.kids[i]].kind \in KidsOf(node.kind)
    BY <1>5, <1>6
  <2>4. "motif" \notin ExpressionKinds
    BY DEF ExpressionKinds
  <2> HIDE DEF node
  <2> QED  BY <1>8, <2>2, <2>3, <2>4, Zenon
<1> QED  BY <1>4, <1>5, <1>7, <1>9

\* The innermost call of a stack has another frame.
Replace(s, f) == Append(Front(s), f)

LEMMA Replaced ==
  ASSUME NEW S, NEW s \in Seq(S), s # <<>>, NEW f \in S
  PROVE  /\ Replace(s, f) \in Seq(S) /\ Len(Replace(s, f)) = Len(s)
         /\ Len(s) \in Nat \ {0}
         /\ Replace(s, f)[Len(s)] = f
         /\ \A i \in 1 .. Len(s) - 1 : Replace(s, f)[i] = s[i]
<1>1. PICK k \in Nat \ {0} : k = Len(s)
  BY EmptySeq
<1>2. Front(s) \in Seq(S) /\ Len(Front(s)) = k - 1 /\ \A i \in 1 .. k - 1 : Front(s)[i] = s[i]
  BY <1>1, LastOfSeq
<1> DEFINE r == Front(s)
<1> HIDE DEF r
<1>3. /\ Append(r, f) \in Seq(S) /\ Len(Append(r, f)) = k - 1 + 1
      /\ Append(r, f)[k - 1 + 1] = f /\ \A i \in 1 .. k - 1 : Append(r, f)[i] = r[i]
  BY <1>2, AppendProperties DEF r
<1>4. k - 1 + 1 = k
  OBVIOUS
<1> QED  BY <1>1, <1>2, <1>3, <1>4 DEF Replace, r

LEMMA FrameStays ==
  ASSUME NEW h, NEW n, NEW fs \in Seq(FunctionType(n)), NEW gs \in Seq(FunctionType(n)),
         Grown(fs, gs), NEW f, FrameOK(h, f, fs)
  PROVE  FrameOK(h, f, gs)
<1>1. h[f.node].kind = "prototype" => f.of = <<>>
  BY DEF FrameOK
<1>2. ASSUME h[f.node].kind = "motif", f.of # <<>> PROVE IsBlock(gs, f.of)
  BY <1>2, BlockStays DEF FrameOK
<1>3. ASSUME h[f.node].kind = "call", f.of # <<>>
      PROVE  f.of[1] \in 1 .. Len(gs) /\ Len(gs[f.of[1]].params) = Len(h[f.node].kids)
  <2>1. f.of[1] \in 1 .. Len(fs) /\ Len(fs[f.of[1]].params) = Len(h[f.node].kids)
    BY <1>3 DEF FrameOK
  <2>2. f.of[1] \in 1 .. Len(gs) /\ gs[f.of[1]].params = fs[f.of[1]].params
    BY <2>1, BlocksStay
  <2> QED  BY <2>1, <2>2
<1> QED  BY <1>1, <1>2, <1>3 DEF FrameOK

LEMMA StackStays ==
  ASSUME NEW h, NEW n \in Nat, NEW m \in Nat, n <= m,
         NEW fs \in Seq(FunctionType(n)), NEW gs \in Seq(FunctionType(m)), Grown(fs, gs),
         NEW s, StackOK(h, s, fs, n)
  PROVE  StackOK(h, s, gs, m)
<1>1. fs \in Seq(FunctionType(m))
  BY MoreValues
<1>2. 1 .. n \subseteq 1 .. m
  OBVIOUS
<1>3. Seq(1 .. n) \subseteq Seq(1 .. m)
  BY <1>2, SeqMonotonic
<1>4. FrameType(h, n) \subseteq FrameType(h, m)
  BY <1>3 DEF FrameType
<1>5. s \in Seq(FrameType(h, m))
  BY <1>4, SeqMonotonic DEF StackOK
<1>6. \A i \in 1 .. Len(s) : FrameOK(h, s[i], gs)
  BY <1>1, FrameStays DEF StackOK
<1> QED  BY <1>5, <1>6 DEF StackOK

LEMMA Visited ==
  ASSUME NEW h, NEW n, NEW fs, NEW s, StackOK(h, s, fs, n), Entered(s),
         NEW kid \in DOMAIN h, h[kid].kind \in ExpressionKinds
  PROVE  /\ StackOK(h, Append(s, Frame(kid)), fs, n)
         /\ Append(s, Frame(kid)) # <<>> /\ Append(s, Frame(kid))[1] = s[1]
<1> DEFINE f == Frame(kid)
           t == Append(s, f)
<1>1. s \in Seq(FrameType(h, n)) /\ s # <<>>
  BY DEF StackOK, Entered
<1>2. f \in FrameType(h, n) /\ f.node = kid /\ f.of = <<>>
  BY DEF Frame, FrameType
<1>3. PICK k \in Nat \ {0} : k = Len(s)
  BY <1>1, EmptySeq
<1>4. /\ t \in Seq(FrameType(h, n)) /\ t # <<>> /\ Len(t) = k + 1
      /\ t[k + 1] = f /\ \A i \in 1 .. k : t[i] = s[i]
  <2> HIDE DEF f
  <2> QED  BY <1>1, <1>2, <1>3, AppendProperties
<1>5. FrameOK(h, f, fs)
  BY <1>2 DEF FrameOK
<1>6. \A i \in 1 .. k + 1 :
        /\ FrameOK(h, t[i], fs)
        /\ h[t[i].node].kind \in (IF i = 1 THEN Roots ELSE ExpressionKinds)
  <2> HIDE DEF t, f
  <2> SUFFICES ASSUME NEW i \in 1 .. k + 1
               PROVE  /\ FrameOK(h, t[i], fs)
                      /\ h[t[i].node].kind \in (IF i = 1 THEN Roots ELSE ExpressionKinds)
    OBVIOUS
  <2>1. CASE i \in 1 .. k
    BY <1>3, <1>4, <2>1 DEF StackOK
  <2>2. CASE i = k + 1
    BY <1>2, <1>4, <1>5, <2>2
  <2> QED  BY <2>1, <2>2
<1>7. t[1] = s[1]
  BY <1>4
<1> HIDE DEF t
<1>8. Entered(t)
  BY <1>4, <1>7 DEF Entered
<1> QED  BY <1>4, <1>6, <1>7, <1>8 DEF StackOK, t

\* The innermost frame changes; what was entered stays so.
LEMMA FrameReplaced ==
  ASSUME NEW h, NEW n, NEW fs, NEW s, StackOK(h, s, fs, n), s # <<>>,
         NEW f \in FrameType(h, n), f.node = Last(s).node, FrameOK(h, f, fs)
  PROVE  /\ StackOK(h, Replace(s, f), fs, n) /\ Replace(s, f) # <<>>
         /\ Len(Replace(s, f)) = Len(s)
         /\ Len(s) = 1 => Replace(s, f)[1] = f
         /\ Len(s) # 1 => Replace(s, f)[1] = s[1]
<1> DEFINE t == Replace(s, f)
<1>1. s \in Seq(FrameType(h, n))
  BY DEF StackOK
<1>2. PICK k \in Nat \ {0} : k = Len(s)
  BY <1>1, EmptySeq
<1>3. /\ t \in Seq(FrameType(h, n)) /\ Len(t) = k /\ t[k] = f
      /\ \A i \in 1 .. k - 1 : t[i] = s[i]
  <2> DEFINE F == FrameType(h, n)
  <2>1. s \in Seq(F) /\ f \in F
    BY <1>1
  <2> HIDE DEF t, F
  <2>2. /\ t \in Seq(F) /\ Len(t) = Len(s) /\ t[Len(s)] = f
        /\ \A i \in 1 .. Len(s) - 1 : t[i] = s[i]
    BY <2>1, Replaced DEF t
  <2> QED  BY <1>2, <2>2 DEF F
<1>4. Last(s) = s[k]
  BY <1>1, <1>2, LastOfSeq
<1>5. t # <<>>
  BY <1>2, <1>3
<1> HIDE DEF t
<1>6. \A i \in 1 .. k :
        /\ FrameOK(h, t[i], fs)
        /\ h[t[i].node].kind \in (IF i = 1 THEN Roots ELSE ExpressionKinds)
  <2> SUFFICES ASSUME NEW i \in 1 .. k
               PROVE  /\ FrameOK(h, t[i], fs)
                      /\ h[t[i].node].kind \in (IF i = 1 THEN Roots ELSE ExpressionKinds)
    OBVIOUS
  <2>1. CASE i \in 1 .. k - 1
    BY <1>2, <1>3, <2>1 DEF StackOK
  <2>2. CASE i = k
    BY <1>2, <1>3, <1>4, <2>2 DEF StackOK
  <2> QED  BY <2>1, <2>2
<1>7. k # 1 => t[1] = s[1]
  BY <1>3
<1>8. k >= 2 => Entered(t)
  BY <1>2, <1>5, <1>7 DEF Entered, StackOK
<1> QED  BY <1>2, <1>3, <1>5, <1>6, <1>7, <1>8 DEF StackOK, t

LEMMA ValueGot ==
  ASSUME NEW h, NEW n, NEW fs, NEW s, StackOK(h, s, fs, n), Len(s) >= 2, NEW v \in 1 .. n
  PROVE  LET rest == Front(s)
             f    == [Last(rest) EXCEPT !.got = Append(@, v)]
         IN /\ rest # <<>> /\ StackOK(h, Replace(rest, f), fs, n)
            /\ Replace(rest, f) # <<>> /\ Replace(rest, f)[1].of = s[1].of
<1> DEFINE r == Front(s)
           f == [Last(r) EXCEPT !.got = Append(@, v)]
<1>1. s \in Seq(FrameType(h, n)) /\ s # <<>>
  BY DEF StackOK
<1>2. PICK k \in Nat : k = Len(s) /\ k >= 2
  BY <1>1, LenProperties
<1>3. r \in Seq(FrameType(h, n)) /\ Len(r) = k - 1 /\ \A i \in 1 .. k - 1 : r[i] = s[i]
  BY <1>1, <1>2, LastOfSeq
<1>4. r # <<>>
  BY <1>2, <1>3
<1> HIDE DEF r
<1>5. r[1] = s[1] /\ Entered(s)
  BY <1>2, <1>3 DEF StackOK
<1>6. StackOK(h, r, fs, n)
  <2>1. \A i \in 1 .. k - 1 : /\ FrameOK(h, r[i], fs)
                              /\ h[r[i].node].kind \in (IF i = 1 THEN Roots ELSE ExpressionKinds)
    BY <1>2, <1>3 DEF StackOK
  <2>2. Entered(r)
    BY <1>4, <1>5 DEF Entered
  <2> QED  BY <1>3, <2>1, <2>2 DEF StackOK
<1>7. Last(r) = r[k - 1] /\ Last(r) \in FrameType(h, n) /\ FrameOK(h, Last(r), fs)
  <2>1. Last(r) = r[k - 1] /\ Last(r) \in FrameType(h, n)
    BY <1>3, <1>4, LastOfSeq
  <2>2. k - 1 \in 1 .. k - 1
    BY <1>2
  <2> QED  BY <1>3, <1>6, <2>1, <2>2 DEF StackOK
<1>8. f \in FrameType(h, n) /\ f.node = Last(r).node /\ f.of = Last(r).of
  <2> DEFINE e == Last(r)
  <2>1. e \in FrameType(h, n)
    BY <1>7
  <2> HIDE DEF e
  <2>2. e.got \in Seq(1 .. n)
    BY <2>1 DEF FrameType
  <2>3. Append(e.got, v) \in Seq(1 .. n)
    BY <2>2, AppendProperties
  <2> QED  BY <2>1, <2>3 DEF FrameType, e
<1> HIDE DEF f
<1>9. FrameOK(h, f, fs)
  BY <1>7, <1>8 DEF FrameOK
<1>10. /\ StackOK(h, Replace(r, f), fs, n) /\ Replace(r, f) # <<>>
       /\ Len(r) = 1 => Replace(r, f)[1] = f
       /\ Len(r) # 1 => Replace(r, f)[1] = r[1]
  BY <1>4, <1>6, <1>8, <1>9, FrameReplaced
<1>11. Len(r) = 1 => Last(r) = r[1]
  BY <1>3, <1>7
<1>12. Replace(r, f)[1].of = s[1].of
  BY <1>5, <1>8, <1>10, <1>11
<1> QED  BY <1>4, <1>10, <1>12 DEF r, f

LEMMA FieldsStay ==
  ASSUME NEW s, NEW cf, NEW cb, NEW ret, NEW at, FieldsOK(s, cf, cb, ret, at), Entered(s),
         NEW t, t # <<>>, t[1].of = s[1].of
  PROVE  /\ Entered(t) /\ \A r : FieldsOK(t, cf, cb, r, at)
         /\ \A r, b : b[1] = cf => FieldsOK(t, cf, cb, r, b)
BY DEF Entered, FieldsOK

-----------------------------------------------------------------------------
(* Steps of expressions *)

LEMMA TopFacts ==
  ASSUME Shape, stack # <<>>
  PROVE  /\ Top \in FrameType(nodes, Len(values)) /\ Top.node \in DOMAIN nodes
         /\ Top.got \in Seq(1 .. Len(values)) /\ Len(Top.got) \in Nat
         /\ DOMAIN Top.got = 1 .. Len(Top.got) /\ Top.of \in Seq(Nat)
         /\ Top = stack[Len(stack)] /\ FrameOK(nodes, Top, functions)
         /\ TopNode.kind \in ExpressionKinds => Len(stack) >= 2 /\ Entered(stack)
         /\ TopNode.kind \notin ExpressionKinds => Len(stack) = 1 /\ Top = stack[1]
<1>1. stack \in Seq(FrameType(nodes, Len(values)))
  BY DEF Shape, StackOK
<1>2. PICK k \in Nat \ {0} : k = Len(stack)
  BY <1>1, EmptySeq
<1>3. Top = stack[k] /\ Top \in FrameType(nodes, Len(values))
  BY <1>1, <1>2, LastOfSeq DEF Top
<1>4. Top.node \in DOMAIN nodes /\ Top.got \in Seq(1 .. Len(values)) /\ Top.of \in Seq(Nat)
  BY <1>3 DEF FrameType
<1>5. Len(Top.got) \in Nat /\ DOMAIN Top.got = 1 .. Len(Top.got)
  BY <1>4, LenProperties
<1>6. /\ FrameOK(nodes, Top, functions)
      /\ TopNode.kind \in (IF k = 1 THEN Roots ELSE ExpressionKinds)
  BY <1>2, <1>3 DEF Shape, StackOK, TopNode
<1>7. Roots \cap ExpressionKinds = {}
  BY DEF Roots, ExpressionKinds
<1>8. k >= 2 => Entered(stack)
  BY <1>2 DEF Shape, StackOK
<1>9. /\ TopNode.kind \in ExpressionKinds => k >= 2
      /\ TopNode.kind \notin ExpressionKinds => k = 1
  BY <1>2, <1>6, <1>7
<1> QED  BY <1>2, <1>3, <1>4, <1>5, <1>6, <1>8, <1>9

LEMMA Halts == ASSUME Shape, NEW o \in Outcomes, Halt(o) PROVE Shape'
<1>1. /\ control' \in Outcomes /\ program' = program /\ nodes' = nodes /\ next' = next
      /\ stack' = stack /\ values' = values /\ functions' = functions
      /\ insertion' = insertion /\ namedValues' = namedValues
      /\ currentFunction' = currentFunction /\ currentBB' = currentBB
      /\ shouldReturn' = shouldReturn
  BY DEF Halt, module, fields, nodes
<1> QED  BY <1>1 DEF Shape

\* What a step of an expression has to show for Shape.
LEMMA ExpressionStep ==
  ASSUME Shape, Entered(stack),
         program' = program, next' = next, control' = control, namedValues' = namedValues,
         currentFunction' = currentFunction, currentBB' = currentBB,
         shouldReturn' \in BOOLEAN,
         ValuesOK(values'), Len(values) \in Nat, Len(values') \in Nat, Len(values) <= Len(values'),
         functions' \in Seq(FunctionType(Len(values'))),
         IsBlock(functions', insertion'), insertion'[1] = currentFunction,
         StackOK(nodes, stack', functions', Len(values')), stack' # <<>>,
         stack'[1].of = stack[1].of
  PROVE  Shape'
<1>1. nodes' = nodes
  BY DEF nodes
<1>2. FieldsOK(stack', currentFunction', currentBB', shouldReturn', insertion')
  BY FieldsStay DEF Shape
<1>3. NamesOK(namedValues', Len(values'))
  BY DEF Shape, NamesOK
<1> QED  BY <1>1, <1>2, <1>3 DEF Shape

LEMMA StackReturned ==
  ASSUME NEW fs, NEW n, StackOK(nodes, stack, fs, n), Len(stack) >= 2, NEW v \in 1 .. n
  PROVE  /\ StackOK(nodes, Returned(v), fs, n) /\ Returned(v) # <<>>
         /\ Returned(v)[1].of = stack[1].of
<1> DEFINE rest == Front(stack)
           f    == [Last(rest) EXCEPT !.got = Append(@, v)]
<1>1. /\ rest # <<>> /\ StackOK(nodes, Replace(rest, f), fs, n)
      /\ Replace(rest, f) # <<>> /\ Replace(rest, f)[1].of = stack[1].of
  BY ValueGot
<1>2. Returned(v) = Replace(rest, f)
  BY <1>1, Zenon DEF Returned, Replace
<1> QED  BY <1>1, <1>2, Zenon

LEMMA EnteredFacts ==
  ASSUME Shape, Entered(stack)
  PROVE  /\ currentFunction = stack[1].of[1] /\ currentBB = stack[1].of
         /\ insertion[1] = currentFunction
         /\ IsBlock(functions, currentBB) /\ IsBlock(functions, insertion)
         /\ currentFunction \in 1 .. Len(functions)
<1>1. /\ currentFunction = stack[1].of[1] /\ currentBB = stack[1].of
      /\ insertion[1] = currentFunction /\ IsBlock(functions, insertion)
  BY DEF Shape, FieldsOK
<1>2. stack \in Seq(FrameType(nodes, Len(values))) /\ stack # <<>> /\ stack[1].of # <<>>
  BY DEF Shape, StackOK, Entered
<1>3. Len(stack) \in Nat \ {0}
  BY <1>2, EmptySeq
<1>4. FrameOK(nodes, stack[1], functions) /\ nodes[stack[1].node].kind \in Roots
  BY <1>3 DEF Shape, StackOK
<1>5. IsBlock(functions, stack[1].of)
  BY <1>2, <1>4 DEF FrameOK, Roots
<1> QED  BY <1>1, <1>5 DEF IsBlock

LEMMA ValueStep ==
  ASSUME Shape, stack # <<>>, TopNode.kind \in ExpressionKinds,
         NEW v \in Value_, \A i \in DOMAIN v.args : v.args[i] \in 1 .. Len(values),
         values' = Append(values, v), stack' = Returned(Len(values) + 1),
         functions' \in {functions, InsertInto(functions, insertion, Len(values) + 1)},
         program' = program, next' = next, control' = control, insertion' = insertion,
         namedValues' = namedValues, currentFunction' = currentFunction,
         currentBB' = currentBB, shouldReturn' = shouldReturn
  PROVE  Shape'
<1> DEFINE n == Len(values)
<1>1. /\ ValuesOK(values') /\ n \in Nat /\ Len(values') = n + 1
  BY NewValue DEF Shape
<1>2. Len(stack) >= 2 /\ Entered(stack)
  BY TopFacts
<1>3. insertion[1] = currentFunction /\ IsBlock(functions, insertion)
  BY <1>2, EnteredFacts
<1>4. functions \in Seq(FunctionType(n + 1)) /\ n + 1 \in 1 .. n + 1
  <2>1. functions \in Seq(FunctionType(n)) /\ n <= n + 1 /\ n + 1 \in Nat
    BY <1>1 DEF Shape
  <2> QED  BY <1>1, <2>1, MoreValues
<1>5. functions' \in Seq(FunctionType(n + 1)) /\ Grown(functions, functions')
  <2>1. CASE functions' = functions
    BY <1>4, <2>1, GrownIsReflexive
  <2>2. CASE functions' = InsertInto(functions, insertion, n + 1)
    BY <1>3, <1>4, <2>2, Inserted
  <2> QED  BY <2>1, <2>2
<1>6. StackOK(nodes, stack, functions', n + 1)
  <2>1. functions \in Seq(FunctionType(n)) /\ StackOK(nodes, stack, functions, n)
        /\ n <= n + 1 /\ n + 1 \in Nat
    BY <1>1 DEF Shape
  <2> QED  BY <1>1, <1>5, <2>1, StackStays
<1>7. StackOK(nodes, stack', functions', n + 1) /\ stack' # <<>> /\ stack'[1].of = stack[1].of
  BY <1>2, <1>4, <1>6, StackReturned
<1>8. IsBlock(functions', insertion')
  BY <1>3, <1>4, <1>5, BlockStays
<1>9. n <= n + 1 /\ n + 1 \in Nat /\ shouldReturn \in BOOLEAN
  BY <1>1 DEF Shape
<1> QED  BY <1>1, <1>2, <1>3, <1>5, <1>7, <1>8, <1>9, ExpressionStep

LEMMA CheckedStep ==
  ASSUME Shape, stack # <<>>, TopNode.kind \in ExpressionKinds,
         NEW v \in Value_, \A i \in DOMAIN v.args : v.args[i] \in 1 .. Len(values),
         EmitChecked(v)
  PROVE  Shape'
<1>1. CASE Halt("aborted")
  BY <1>1, Halts DEF Outcomes
<1>2. CASE Yield(v) \/ Emit(v)
  BY <1>2, ValueStep DEF Yield, Emit, fields
<1> QED  BY <1>1, <1>2 DEF EmitChecked

\* A child is generated: the module, the values and the fields stay.
LEMMA VisitStep ==
  ASSUME Shape, stack # <<>>, TopNode.kind \in ExpressionKinds,
         NEW k \in 1 .. Len(TopNode.kids), stack' = Visit(stack, k),
         program' = program, next' = next, control' = control, module' = module,
         fields' = fields
  PROVE  Shape'
<1>1. Len(stack) >= 2 /\ Entered(stack) /\ Top.node \in DOMAIN nodes
  BY TopFacts
<1>2. TopNode.kids[k] \in DOMAIN nodes /\ nodes[TopNode.kids[k]].kind \in ExpressionKinds
  BY <1>1, NodeFacts DEF Shape, TopNode
<1>3. StackOK(nodes, stack, functions, Len(values))
  BY DEF Shape
<1>4. /\ StackOK(nodes, stack', functions, Len(values)) /\ stack' # <<>>
      /\ stack'[1] = stack[1]
  BY <1>1, <1>2, <1>3, Visited DEF Visit
<1>5. /\ values' = values /\ functions' = functions /\ insertion' = insertion
      /\ namedValues' = namedValues /\ currentFunction' = currentFunction
      /\ currentBB' = currentBB /\ shouldReturn' = shouldReturn
  BY DEF module, fields
<1>6. ValuesOK(values) /\ Len(values) \in Nat
  BY LenProperties DEF Shape, ValuesOK
<1>7. insertion[1] = currentFunction
  BY <1>1, EnteredFacts
<1> QED  BY <1>1, <1>4, <1>5, <1>6, <1>7, ExpressionStep DEF Shape

-----------------------------------------------------------------------------
(* The expressions *)

LEMMA ValueFacts ==
  ASSUME NEW op \in Opcodes, NEW type \in Types, NEW args \in Seq(Nat), NEW of \in Seq(Nat),
         NEW c \in BOOLEAN
  PROVE  Value(op, type, args, of, c) \in Value_
BY DEF Value, Value_

LEMMA OperandFacts ==
  ASSUME NEW n \in Nat, NEW args \in Seq(1 .. n)
  PROVE  args \in Seq(Nat) /\ \A i \in DOMAIN args : args[i] \in 1 .. n
<1>1. 1 .. n \subseteq Nat
  OBVIOUS
<1>2. args \in Seq(Nat)
  BY <1>1, SeqMonotonic
<1>3. \A i \in DOMAIN args : args[i] \in 1 .. n
  BY LenProperties, ElementOfSeq
<1> QED  BY <1>2, <1>3

LEMMA ValuesAreCounted == ASSUME Shape PROVE Len(values) \in Nat /\ DOMAIN values = 1 .. Len(values)
BY LenProperties DEF Shape, ValuesOK

LEMMA NumberStep == ASSUME Shape, Number PROVE Shape'
<1> USE DEF Number
<1> DEFINE v == Constant("number", "double", <<Top.node>>)
<1>1. stack # <<>> /\ TopNode.kind \in ExpressionKinds /\ Yield(v)
  BY DEF At, ExpressionKinds
<1>2. Top.node \in Nat
  <2>1. Top.node \in DOMAIN nodes
    BY <1>1, TopFacts
  <2>2. DOMAIN nodes = 1 .. Len(nodes)
    BY LenProperties DEF Shape, Generatable, nodes
  <2> QED  BY <2>1, <2>2
<1>3. <<Top.node>> \in Seq(Nat)
  BY <1>2
<1>4. "number" \in Opcodes /\ "double" \in Types /\ <<>> \in Seq(Nat)
  BY DEF Types, Opcodes
<1>5. v \in Value_ /\ v.args = <<>>
  <2>1. v \in Value_
    BY <1>3, <1>4, ValueFacts, Zenon DEF Constant
  <2>2. v.args = <<>>
    BY DEF Constant, Value
  <2> QED  BY <2>1, <2>2
<1> HIDE DEF v
<1>6. \A i \in DOMAIN v.args : v.args[i] \in 1 .. Len(values)
  BY <1>5
<1> QED  BY <1>1, <1>5, <1>6, ValueStep DEF Yield, fields

LEMMA VariableStep == ASSUME Shape, Variable PROVE Shape'
<1>1. stack # <<>> /\ TopNode.kind \in ExpressionKinds
  BY DEF Variable, At, ExpressionKinds
<1>2. Len(stack) >= 2 /\ Entered(stack)
  BY <1>1, TopFacts
<1>3. namedValues[TopNode.name] \in 1 .. Len(values)
  BY DEF Variable, Shape, NamesOK
<1>4. StackOK(nodes, stack, functions, Len(values))
  BY DEF Shape
<1>5. /\ StackOK(nodes, stack', functions, Len(values)) /\ stack' # <<>>
      /\ stack'[1].of = stack[1].of
  BY <1>2, <1>3, <1>4, StackReturned DEF Variable
<1>6. /\ program' = program /\ next' = next /\ control' = control
      /\ values' = values /\ functions' = functions /\ insertion' = insertion
      /\ namedValues' = namedValues /\ currentFunction' = currentFunction
      /\ currentBB' = currentBB /\ shouldReturn' = shouldReturn
  BY DEF Variable, module, fields
<1>7. insertion[1] = currentFunction
  BY <1>2, EnteredFacts
<1>8. ValuesOK(values) /\ Len(values) \in Nat
  BY ValuesAreCounted DEF Shape
<1> QED  BY <1>2, <1>5, <1>6, <1>7, <1>8, ExpressionStep DEF Shape

LEMMA OperandStep == ASSUME Shape, Operand PROVE Shape'
<1>1. stack # <<>> /\ TopNode.kind = "binary"
  BY DEF Operand, At
<1>2. TopNode.kind \in ExpressionKinds
  BY <1>1 DEF ExpressionKinds
<1>3. Len(TopNode.kids) = 2
  BY <1>1, TopFacts, NodeFacts DEF Shape, TopNode
<1>4. PICK k \in 1 .. 2 : stack' = Visit(stack, k)
  BY DEF Operand
<1>5. program' = program /\ next' = next /\ control' = control /\ module' = module
      /\ fields' = fields
  BY DEF Operand
<1> QED  BY <1>1, <1>2, <1>3, <1>4, <1>5, VisitStep

LEMMA BinaryOperationStep == ASSUME Shape, BinaryOperation PROVE Shape'
<1> DEFINE n  == Len(values)
           v  == Operation(values, TopNode.name, Got(1), Got(2))
           c  == values[Got(1)].constant /\ values[Got(2)].constant
           ty == IF TopNode.name = "<" THEN "i1" ELSE values[Got(1)].type
<1>1. /\ stack # <<>> /\ TopNode.kind \in ExpressionKinds /\ Len(Top.got) = 2
      /\ TopNode.name \in Arithmetic \cup {"<"}
      /\ EmitChecked(v)
  BY DEF BinaryOperation, At, ExpressionKinds
<1>2. n \in Nat /\ DOMAIN values = 1 .. n
  BY ValuesAreCounted
<1>3. Got(1) \in 1 .. n /\ Got(2) \in 1 .. n
  <2>1. Top.got \in Seq(1 .. n)
    BY <1>1, TopFacts
  <2> QED  BY <1>1, <2>1, ElementOfSeq DEF Got
<1>4. values[Got(1)] \in Value_ /\ values[Got(2)] \in Value_
  <2>1. values \in Seq(Value_)
    BY DEF Shape, ValuesOK
  <2> HIDE DEF Value_
  <2> QED  BY <1>3, <2>1, ElementOfSeq
<1>5. ty \in Types
  BY <1>4 DEF Value_, Types
<1>6. values[Got(1)].constant \in BOOLEAN /\ values[Got(2)].constant \in BOOLEAN
  BY <1>4 DEF Value_
<1>7. c \in BOOLEAN
  BY <1>6, Zenon
<1>8. TopNode.name \in Opcodes
  BY <1>1 DEF Opcodes
<1>9. v = Value(TopNode.name, ty, <<Got(1), Got(2)>>, <<>>, c)
  BY DEF Operation
<1>10. <<>> \in Seq(Nat) /\ <<Got(1), Got(2)>> \in Seq(1 .. n)
  BY <1>3
<1> HIDE DEF c, ty, v, n
<1>11. <<Got(1), Got(2)>> \in Seq(Nat)
       /\ \A i \in DOMAIN <<Got(1), Got(2)>> : <<Got(1), Got(2)>>[i] \in 1 .. n
  BY <1>2, <1>10, OperandFacts
<1>12. v \in Value_ /\ v.args = <<Got(1), Got(2)>>
  <2>1. v \in Value_
    BY <1>5, <1>7, <1>8, <1>9, <1>10, <1>11, ValueFacts, Zenon
  <2>2. v.args = <<Got(1), Got(2)>>
    BY <1>9 DEF Value
  <2> QED  BY <2>1, <2>2
<1>13. \A i \in DOMAIN v.args : v.args[i] \in 1 .. n
  BY <1>11, <1>12, Zenon
<1> QED  BY <1>1, <1>12, <1>13, CheckedStep DEF n

LEMMA NamedFacts ==
  ASSUME NEW n, NEW fs \in Seq(FunctionType(n)), NEW name
  PROVE  /\ Named(fs, name) # NoFunction =>
              Named(fs, name) \in 1 .. Len(fs) /\ fs[Named(fs, name)].name = name
         /\ Named(fs, name) = NoFunction => \A f \in 1 .. Len(fs) : fs[f].name # name
         /\ Named(fs, name) \in Nat
<1>1. Len(fs) \in Nat /\ DOMAIN fs = 1 .. Len(fs)
  BY LenProperties
<1>2. CASE \E f \in DOMAIN fs : fs[f].name = name
  <2>1. Named(fs, name) \in DOMAIN fs /\ fs[Named(fs, name)].name = name
    BY <1>2 DEF Named
  <2> QED  BY <1>1, <2>1 DEF NoFunction
<1>3. CASE ~ \E f \in DOMAIN fs : fs[f].name = name
  BY <1>1, <1>3 DEF Named, NoFunction
<1> QED  BY <1>2, <1>3

\* The innermost frame remembers a callee, or a block more.
LEMMA Remembered ==
  ASSUME Shape, stack # <<>>, NEW of \in Seq(Nat),
         NEW n, NEW fs, StackOK(nodes, stack, fs, n),
         FrameOK(nodes, [Top EXCEPT !.of = of], fs)
  PROVE  /\ StackOK(nodes, With(of), fs, n) /\ With(of) # <<>>
         /\ Len(stack) # 1 => With(of)[1] = stack[1]
         /\ Len(stack) = 1 => With(of)[1].of = of
<1> DEFINE f == [Top EXCEPT !.of = of]
<1>1. Top \in FrameType(nodes, n)
  <2>1. stack \in Seq(FrameType(nodes, n))
    BY DEF StackOK
  <2> QED  BY <2>1, LastOfSeq DEF Top
<1>2. f \in FrameType(nodes, n) /\ f.node = Top.node /\ f.of = of
  <2> DEFINE e == Top
  <2> HIDE DEF e
  <2> QED  BY <1>1 DEF FrameType, e
<1>3. FrameOK(nodes, f, fs)
  OBVIOUS
<1>4. f.node = Last(stack).node
  BY <1>2 DEF Top
<1> HIDE DEF f
<1>5. /\ StackOK(nodes, Replace(stack, f), fs, n) /\ Replace(stack, f) # <<>>
      /\ Len(stack) = 1 => Replace(stack, f)[1] = f
      /\ Len(stack) # 1 => Replace(stack, f)[1] = stack[1]
  BY <1>2, <1>3, <1>4, FrameReplaced
<1>6. With(of) = Replace(stack, f)
  BY DEF With, Replace, f
<1> QED  BY <1>2, <1>5, <1>6

LEMMA BeginCallStep == ASSUME Shape, BeginCall PROVE Shape'
<1> DEFINE f == Named(functions, TopNode.name)
<1>1. stack # <<>> /\ TopNode.kind = "call" /\ TopNode.kind \in ExpressionKinds
  BY DEF BeginCall, At, ExpressionKinds
<1>2. CASE Halt("threw")
  BY <1>2, Halts DEF Outcomes
<1>3. CASE /\ f # NoFunction /\ Len(functions[f].params) = Len(TopNode.kids)
           /\ stack' = With(<<f>>)
           /\ UNCHANGED <<program, next, control, module, fields>>
  <2>1. Len(stack) >= 2 /\ Entered(stack) /\ Len(stack) # 1
    BY <1>1, TopFacts
  <2>2. functions \in Seq(FunctionType(Len(values))) /\ StackOK(nodes, stack, functions, Len(values))
    BY DEF Shape
  <2>3. f \in 1 .. Len(functions) /\ f \in Nat
    BY <1>3, <2>2, NamedFacts
  <2>4. <<f>> \in Seq(Nat)
    BY <2>3
  <2>5. FrameOK(nodes, [Top EXCEPT !.of = <<f>>], functions)
    <3> DEFINE e == [Top EXCEPT !.of = <<f>>]
    <3>1. e.node = Top.node /\ e.of = <<f>>
      BY <1>1, TopFacts DEF FrameType
    <3> HIDE DEF e
    <3> QED  BY <1>1, <1>3, <2>3, <3>1 DEF FrameOK, TopNode, e
  <2>6. /\ StackOK(nodes, stack', functions, Len(values)) /\ stack' # <<>>
        /\ stack'[1] = stack[1]
    BY <1>1, <1>3, <2>1, <2>2, <2>4, <2>5, Remembered
  <2>7. /\ values' = values /\ functions' = functions /\ insertion' = insertion
        /\ program' = program /\ next' = next /\ control' = control
        /\ namedValues' = namedValues /\ currentFunction' = currentFunction
        /\ currentBB' = currentBB /\ shouldReturn' = shouldReturn
    BY <1>3 DEF module, fields
  <2>8. ValuesOK(values) /\ Len(values) \in Nat /\ insertion[1] = currentFunction
    BY <2>1, ValuesAreCounted, EnteredFacts DEF Shape
  <2> QED  BY <2>1, <2>6, <2>7, <2>8, ExpressionStep DEF Shape
<1> QED  BY <1>2, <1>3 DEF BeginCall

LEMMA ArgumentStep == ASSUME Shape, Argument PROVE Shape'
<1>1. /\ stack # <<>> /\ TopNode.kind \in ExpressionKinds
      /\ Len(Top.got) < Len(TopNode.kids) /\ stack' = Visit(stack, Len(Top.got) + 1)
      /\ program' = program /\ next' = next /\ control' = control /\ module' = module
      /\ fields' = fields
  BY DEF Argument, InCall, At, ExpressionKinds
<1>2. Len(Top.got) \in Nat /\ Len(TopNode.kids) \in Nat
  BY <1>1, TopFacts, NodeFacts DEF Shape, TopNode
<1>3. Len(Top.got) + 1 \in 1 .. Len(TopNode.kids)
  BY <1>1, <1>2
<1> QED  BY <1>1, <1>3, VisitStep

LEMMA BuildCallStep == ASSUME Shape, BuildCall PROVE Shape'
<1> DEFINE v == CallOf(functions, Top.of[1], Top.got)
           n == Len(values)
<1>1. /\ stack # <<>> /\ TopNode.kind = "call" /\ TopNode.kind \in ExpressionKinds
      /\ Top.of # <<>> /\ EmitChecked(v)
  BY DEF BuildCall, InCall, At, ExpressionKinds
<1>2. Top.of[1] \in 1 .. Len(functions)
  BY <1>1, TopFacts DEF FrameOK, TopNode
<1>3. functions[Top.of[1]].result \in Types
  BY <1>2, FunctionFacts DEF Shape
<1>4. <<Top.of[1]>> \in Seq(Nat)
  <2>1. Top.of[1] \in Nat
    BY <1>2
  <2> QED  BY <2>1
<1>5. Top.got \in Seq(Nat) /\ \A i \in DOMAIN Top.got : Top.got[i] \in 1 .. n
  BY <1>1, ValuesAreCounted, TopFacts, OperandFacts
<1>6. "call" \in Opcodes
  BY DEF Opcodes
<1>7. v \in Value_
  BY <1>3, <1>4, <1>5, <1>6, ValueFacts, Zenon DEF CallOf, Instruction
<1>8. v.args = Top.got
  BY DEF CallOf, Instruction, Value
<1> HIDE DEF v
<1>9. \A i \in DOMAIN v.args : v.args[i] \in 1 .. n
  BY <1>5, <1>8, Zenon
<1> QED  BY <1>1, <1>7, <1>9, CheckedStep

LEMMA GrownIsTransitive ==
  ASSUME NEW n, NEW fs \in Seq(FunctionType(n)), NEW gs \in Seq(FunctionType(n)),
         NEW hs \in Seq(FunctionType(n)), Grown(fs, gs), Grown(gs, hs)
  PROVE  Grown(fs, hs)
<1>1. Len(fs) \in Nat /\ Len(gs) \in Nat /\ Len(hs) \in Nat
  BY LenProperties
<1>2. Len(fs) <= Len(hs)
  BY <1>1 DEF Grown
<1>3. \A f \in 1 .. Len(fs) : f \in 1 .. Len(gs) /\ f \in 1 .. Len(hs)
  BY <1>1, <1>2 DEF Grown
<1>4. \A f \in 1 .. Len(fs) :
        /\ Len(fs[f].blocks) \in Nat /\ Len(gs[f].blocks) \in Nat /\ Len(hs[f].blocks) \in Nat
  BY <1>3, FunctionFacts
<1>5. \A f \in 1 .. Len(fs) :
        /\ hs[f].params = fs[f].params /\ hs[f].vararg = fs[f].vararg
        /\ hs[f].name = fs[f].name /\ hs[f].result = fs[f].result
        /\ Len(fs[f].blocks) <= Len(hs[f].blocks)
  BY <1>3, <1>4 DEF Grown
<1> QED  BY <1>2, <1>5 DEF Grown

\* `cond' appends a block to the motif and generates a branch into it.
LEMMA GenerateStep ==
  ASSUME Shape, stack # <<>>, TopNode.kind = "cond", NEW k \in 1 .. 3,
         ValuesOK(values'), Len(values) <= Len(values'), Len(values') \in Nat,
         NEW fs \in Seq(FunctionType(Len(values'))), Grown(functions, fs), GenerateInto(fs, k)
  PROVE  Shape'
<1> DEFINE m     == Len(values')
           cf    == currentFunction
           block == LastBlock(functions', cf)
           of    == Append(Top.of, block[2])
<1>1. Len(stack) >= 2 /\ Len(stack) # 1 /\ Entered(stack) /\ TopNode.kind \in ExpressionKinds
  BY TopFacts DEF ExpressionKinds
<1>2. Len(values) \in Nat /\ functions \in Seq(FunctionType(Len(values)))
  BY ValuesAreCounted DEF Shape
<1>3. functions \in Seq(FunctionType(m))
  BY <1>2, MoreValues
<1>4. cf \in 1 .. Len(functions)
  BY <1>1, EnteredFacts
<1>5. cf \in 1 .. Len(fs)
  BY <1>3, <1>4, BlocksStay
<1>6. /\ functions' = AppendBlock(fs, cf) /\ insertion' = block
      /\ stack' = Append(With(of), Frame(TopNode.kids[k]))
      /\ program' = program /\ next' = next /\ control' = control /\ namedValues' = namedValues
      /\ currentFunction' = cf /\ currentBB' = currentBB /\ shouldReturn' = shouldReturn
  BY DEF GenerateInto, Visit, fields
<1>7. /\ functions' \in Seq(FunctionType(m)) /\ Grown(fs, functions')
      /\ block = <<cf, Len(fs[cf].blocks) + 1>> /\ IsBlock(functions', block)
  BY <1>5, <1>6, Blocked
<1>8. Grown(functions, functions')
  BY <1>3, <1>7, GrownIsTransitive
<1>9. StackOK(nodes, stack, functions', m)
  BY <1>2, <1>7, <1>8, StackStays DEF Shape
<1>10. of \in Seq(Nat)
  <2>1. Top.of \in Seq(Nat) /\ Len(fs[cf].blocks) \in Nat
    BY <1>5, TopFacts, FunctionFacts
  <2>2. block[2] \in Nat
    BY <1>7, <2>1
  <2> HIDE DEF block
  <2> QED  BY <2>1, <2>2, AppendProperties
<1>11. FrameOK(nodes, [Top EXCEPT !.of = of], functions')
  <2> DEFINE e == [Top EXCEPT !.of = of]
  <2>1. e.node = Top.node
    BY TopFacts DEF FrameType
  <2> HIDE DEF e
  <2> QED  BY <2>1 DEF FrameOK, TopNode, e
<1> HIDE DEF of
<1>12. StackOK(nodes, With(of), functions', m) /\ With(of) # <<>> /\ With(of)[1] = stack[1]
  BY <1>1, <1>9, <1>10, <1>11, Remembered
<1>13. Entered(With(of))
  BY <1>1, <1>12 DEF Entered
<1>14. TopNode.kids[k] \in DOMAIN nodes /\ nodes[TopNode.kids[k]].kind \in ExpressionKinds
  BY <1>1, TopFacts, NodeFacts DEF Shape, TopNode
<1>15. /\ StackOK(nodes, stack', functions', m) /\ stack' # <<>>
       /\ stack'[1] = stack[1]
  BY <1>6, <1>12, <1>13, <1>14, Visited
<1>16. insertion'[1] = cf /\ IsBlock(functions', insertion')
  BY <1>6, <1>7
<1> QED  BY <1>1, <1>2, <1>6, <1>7, <1>15, <1>16, ExpressionStep DEF Shape

\* The return at the end of a branch.
LEMMA BranchReturns ==
  ASSUME Shape, stack # <<>>, TopNode.kind = "cond", NEW i \in 1 .. Len(Top.got),
         WithReturn(Got(i))
  PROVE  LET n  == Len(values)
             fs == InsertInto(functions, insertion, n + 1)
         IN /\ ValuesOK(values') /\ n \in Nat /\ Len(values') = n + 1
            /\ fs \in Seq(FunctionType(n + 1)) /\ functions \in Seq(FunctionType(n + 1))
            /\ Grown(functions, fs)
<1> DEFINE n == Len(values)
           v == ReturnOf(<<Got(i)>>)
<1>1. Entered(stack) /\ Top.got \in Seq(1 .. n)
  BY TopFacts DEF ExpressionKinds
<1>2. n \in Nat
  BY ValuesAreCounted
<1>3. Got(i) \in 1 .. n
  BY <1>1, ElementOfSeq DEF Got
<1>4. <<Got(i)>> \in Seq(1 .. n) /\ <<>> \in Seq(Nat)
  BY <1>3
<1>5. <<Got(i)>> \in Seq(Nat) /\ \A q \in DOMAIN <<Got(i)>> : <<Got(i)>>[q] \in 1 .. n
  BY <1>2, <1>4, OperandFacts
<1>6. "ret" \in Opcodes /\ "void" \in Types
  BY DEF Opcodes, Types
<1>7. v \in Value_
  BY <1>4, <1>5, <1>6, ValueFacts, Zenon DEF ReturnOf, Instruction
<1>8. v.args = <<Got(i)>>
  BY DEF ReturnOf, Instruction, Value
<1>9. values' = Append(values, v)
  BY DEF WithReturn
<1> HIDE DEF v
<1>10. \A q \in DOMAIN v.args : v.args[q] \in 1 .. n
  BY <1>5, <1>8, Zenon
<1>11. ValuesOK(values') /\ Len(values') = n + 1
  BY <1>7, <1>9, <1>10, NewValue DEF Shape
<1>12. functions \in Seq(FunctionType(n + 1)) /\ n + 1 \in 1 .. n + 1
  <2>1. functions \in Seq(FunctionType(n)) /\ n <= n + 1 /\ n + 1 \in Nat
    BY <1>2 DEF Shape
  <2> QED  BY <1>2, <2>1, MoreValues
<1>13. IsBlock(functions, insertion)
  BY DEF Shape
<1> QED  BY <1>2, <1>11, <1>12, <1>13, Inserted

LEMMA BeginIfStep == ASSUME Shape, BeginIf PROVE Shape'
<1>1. /\ stack # <<>> /\ TopNode.kind = "cond" /\ GenerateInto(functions, 2)
      /\ values' = values
  BY DEF BeginIf, At
<1>2. /\ ValuesOK(values) /\ Len(values) \in Nat
      /\ functions \in Seq(FunctionType(Len(values))) /\ Grown(functions, functions)
  BY ValuesAreCounted, GrownIsReflexive DEF Shape
<1> QED  BY <1>1, <1>2, GenerateStep

LEMMA BeginElseStep == ASSUME Shape, BeginElse PROVE Shape'
<1> DEFINE n  == Len(values)
           fs == InsertInto(functions, insertion, n + 1)
<1>1. /\ stack # <<>> /\ TopNode.kind = "cond" /\ Len(Top.got) = 1
      /\ WithReturn(Got(1)) /\ GenerateInto(fs, 3)
  BY DEF BeginElse, At
<1>2. /\ ValuesOK(values') /\ n \in Nat /\ Len(values') = n + 1
      /\ fs \in Seq(FunctionType(n + 1)) /\ Grown(functions, fs)
  BY <1>1, BranchReturns
<1> HIDE DEF fs
<1> QED  BY <1>1, <1>2, GenerateStep

LEMMA BeginConditionStep == ASSUME Shape, BeginCondition PROVE Shape'
<1> DEFINE n == Len(values)
<1>1. /\ stack # <<>> /\ TopNode.kind = "cond" /\ Len(Top.got) = 2
      /\ WithReturn(Got(2)) /\ functions' = InsertInto(functions, insertion, n + 1)
      /\ shouldReturn' = FALSE /\ insertion' = currentBB
      /\ stack' = Append(stack, Frame(TopNode.kids[1]))
      /\ program' = program /\ next' = next /\ control' = control
      /\ namedValues' = namedValues /\ currentFunction' = currentFunction
      /\ currentBB' = currentBB
  BY DEF BeginCondition, At, Visit
<1>2. /\ ValuesOK(values') /\ n \in Nat /\ Len(values') = n + 1
      /\ functions' \in Seq(FunctionType(n + 1)) /\ functions \in Seq(FunctionType(n + 1))
      /\ Grown(functions, functions')
  BY <1>1, BranchReturns
<1>3. Entered(stack) /\ Top.node \in DOMAIN nodes /\ TopNode.kind \in ExpressionKinds
  BY <1>1, TopFacts DEF ExpressionKinds
<1>4. TopNode.kids[1] \in DOMAIN nodes /\ nodes[TopNode.kids[1]].kind \in ExpressionKinds
  BY <1>1, <1>3, NodeFacts, SMTT(30) DEF Shape, TopNode
<1>5. StackOK(nodes, stack, functions', n + 1)
  <2>1. functions \in Seq(FunctionType(n)) /\ n <= n + 1 /\ n + 1 \in Nat
    BY <1>2 DEF Shape
  <2> QED  BY <1>2, <2>1, StackStays DEF Shape
<1>6. /\ StackOK(nodes, stack', functions', n + 1) /\ stack' # <<>>
      /\ stack'[1] = stack[1]
  BY <1>1, <1>3, <1>4, <1>5, Visited
<1>7. IsBlock(functions, currentBB) /\ currentBB[1] = currentFunction
  BY <1>3, EnteredFacts
<1>8. IsBlock(functions', insertion') /\ insertion'[1] = currentFunction
  BY <1>1, <1>2, <1>7, BlockStays
<1>9. n <= n + 1 /\ n + 1 \in Nat
  BY <1>2
<1>10. shouldReturn' \in BOOLEAN
  BY <1>1, Zenon
<1> QED  BY <1>1, <1>2, <1>3, <1>6, <1>8, <1>9, <1>10, ExpressionStep

LEMMA BuildBranchStep == ASSUME Shape, BuildBranch PROVE Shape'
<1> DEFINE v == Branch(Got(3), Top.of)
           n == Len(values)
<1>1. /\ stack # <<>> /\ TopNode.kind \in ExpressionKinds /\ Len(Top.got) = 3
      /\ EmitChecked(v)
  BY DEF BuildBranch, At, ExpressionKinds
<1>2. n \in Nat /\ Top.got \in Seq(1 .. n) /\ Top.of \in Seq(Nat)
  BY <1>1, ValuesAreCounted, TopFacts
<1>3. Got(3) \in 1 .. n
  BY <1>1, <1>2, ElementOfSeq DEF Got
<1>4. <<Got(3)>> \in Seq(1 .. n)
  BY <1>3
<1>5. <<Got(3)>> \in Seq(Nat) /\ \A q \in DOMAIN <<Got(3)>> : <<Got(3)>>[q] \in 1 .. n
  BY <1>2, <1>4, OperandFacts
<1>6. "br" \in Opcodes /\ "void" \in Types
  BY DEF Opcodes, Types
<1>7. v \in Value_
  BY <1>2, <1>5, <1>6, ValueFacts, Zenon DEF Branch, Instruction
<1>8. v.args = <<Got(3)>>
  BY DEF Branch, Instruction, Value
<1> HIDE DEF v
<1>9. \A i \in DOMAIN v.args : v.args[i] \in 1 .. n
  BY <1>5, <1>8, Zenon
<1> QED  BY <1>1, <1>7, <1>9, CheckedStep

-----------------------------------------------------------------------------
(* Prototypes *)

LEMMA MaxFacts ==
  ASSUME NEW k \in Nat, NEW S \in SUBSET (1 .. k), S # {}
  PROVE  Max(S) \in S
<1> DEFINE T == { k - i : i \in S }
           R == OpToRel(<, Nat)
<1>1. T \subseteq Nat /\ T # {}
  <2>1. \A i \in S : i \in 1 .. k
    OBVIOUS
  <2>2. \A i \in 1 .. k : k - i \in Nat
    OBVIOUS
  <2> QED  BY <2>1, <2>2
<1>2. PICK x \in T : \A y \in T : ~ (<<y, x>> \in R)
  <2> HIDE DEF T, R
  <2>1. IsWellFoundedOn(R, Nat)
    BY NatLessThanWellFounded DEF R
  <2> QED  BY <1>1, <2>1, WFMin
<1>3. \A y \in T : ~ (y < x)
  BY <1>1, <1>2 DEF OpToRel
<1>4. PICK i \in S : x = k - i
  OBVIOUS
<1>5. \A j \in S : i >= j
  <2> SUFFICES ASSUME NEW j \in S PROVE i >= j
    OBVIOUS
  <2>1. k - j \in T
    OBVIOUS
  <2>2. ~ (k - j < x)
    BY <1>3, <2>1
  <2>3. i \in Nat /\ j \in Nat
    OBVIOUS
  <2> QED  BY <1>4, <2>2, <2>3
<1> QED  BY <1>5 DEF Max

LEMMA ParameterValues ==
  ASSUME NEW vs, ValuesOK(vs), NEW types \in Seq(Types), NEW f \in Nat
  PROVE  LET ws == vs \o ParametersOf(f, types) IN
         /\ ValuesOK(ws) /\ Len(vs) \in Nat /\ Len(types) \in Nat
         /\ Len(ws) = Len(vs) + Len(types)
         /\ \A v \in 1 .. Len(vs) : ws[v] = vs[v]
         /\ \A i \in 1 .. Len(types) :
              ws[Len(vs) + i] = Instruction("param", types[i], <<>>, <<f, i>>)
<1> DEFINE ps == ParametersOf(f, types)
           ws == vs \o ps
<1>1. PICK n \in Nat : n = Len(vs)
  BY LenProperties DEF ValuesOK
<1>2. PICK k \in Nat : k = Len(types) /\ DOMAIN types = 1 .. k
  BY LenProperties
<1>3. \A i \in 1 .. k : Instruction("param", types[i], <<>>, <<f, i>>) \in Value_
  <2> SUFFICES ASSUME NEW i \in 1 .. k
               PROVE  Instruction("param", types[i], <<>>, <<f, i>>) \in Value_
    OBVIOUS
  <2>1. "param" \in Opcodes /\ types[i] \in Types /\ <<>> \in Seq(Nat) /\ <<f, i>> \in Seq(Nat)
    BY <1>2, ElementOfSeq DEF Opcodes
  <2> QED  BY <2>1, ValueFacts, Zenon DEF Instruction
<1>4. /\ ps \in [1 .. k -> Value_]
      /\ \A i \in 1 .. k : ps[i] = Instruction("param", types[i], <<>>, <<f, i>>)
  <2> HIDE DEF Value_
  <2> QED  BY <1>2, <1>3 DEF ParametersOf
<1>5. ps \in Seq(Value_) /\ Len(ps) = k
  <2> HIDE DEF ps, Value_
  <2> QED  BY <1>2, <1>4, LenProperties
<1>6. /\ ws \in Seq(Value_) /\ Len(ws) = n + k
      /\ \A j \in 1 .. n + k : ws[j] = IF j <= n THEN vs[j] ELSE ps[j - n]
  <2> HIDE DEF ps, Value_
  <2> QED  BY <1>1, <1>5, ConcatProperties DEF ValuesOK
<1>7. DOMAIN ws = 1 .. n + k
  <2> HIDE DEF ws, Value_
  <2> QED  BY <1>1, <1>2, <1>6, LenProperties
<1>8. \A v \in 1 .. n : ws[v] = vs[v]
  <2> HIDE DEF ws, ps
  <2> QED  BY <1>1, <1>2, <1>6
<1>9. \A i \in 1 .. k : ws[n + i] = Instruction("param", types[i], <<>>, <<f, i>>)
  <2> SUFFICES ASSUME NEW i \in 1 .. k
               PROVE  ws[n + i] = Instruction("param", types[i], <<>>, <<f, i>>)
    OBVIOUS
  <2>1. n + i \in 1 .. n + k /\ ~ (n + i <= n) /\ (n + i) - n = i
    BY <1>1, <1>2
  <2> HIDE DEF ws, ps
  <2> QED  BY <1>4, <1>6, <2>1
<1>10. Older(ws)
  <2> SUFFICES ASSUME NEW j \in 1 .. n + k
               PROVE  \A i \in DOMAIN ws[j].args : ws[j].args[i] \in 1 .. j - 1
    BY <1>7 DEF Older
  <2>1. CASE j \in 1 .. n
    <3>1. ws[j] = vs[j]  BY <1>8, <2>1
    <3>2. \A i \in DOMAIN vs[j].args : vs[j].args[i] \in 1 .. j - 1
      BY <1>1, <2>1, LenProperties DEF ValuesOK, Older
    <3> HIDE DEF ws
    <3> QED  BY <3>1, <3>2, Zenon
  <2>2. CASE j \notin 1 .. n
    <3>1. PICK i \in 1 .. k : j = n + i
      <4>1. j - n \in 1 .. k /\ j = n + (j - n)
        BY <1>1, <1>2, <2>2
      <4> QED  BY <4>1
    <3>2. ws[j] = Instruction("param", types[i], <<>>, <<f, i>>)
      BY <1>9, <3>1
    <3> HIDE DEF ws
    <3>3. ws[j].args = <<>>
      BY <3>2 DEF Instruction, Value
    <3> QED  BY <3>3
  <2> QED  BY <2>1, <2>2
<1> QED  BY <1>1, <1>2, <1>6, <1>8, <1>9, <1>10 DEF ValuesOK

LEMMA PrototypeTypes ==
  ASSUME Shape, NEW proto \in DOMAIN nodes
  PROVE  /\ TypesOf(proto) \in Seq(Types)
         /\ Len(TypesOf(proto)) = Len(nodes[proto].kids)
         /\ nodes[proto].name \in STRING
<1>1. PICK k \in Nat : k = Len(nodes[proto].kids) /\ DOMAIN nodes[proto].kids = 1 .. k
  BY NodeFacts DEF Shape
<1>2. "double" \in Types
  BY DEF Types
<1>3. TypesOf(proto) = [i \in 1 .. k |-> "double"]
  BY <1>1, Zenon DEF TypesOf
<1>4. TypesOf(proto) \in [1 .. k -> Types]
  BY <1>2, <1>3
<1>5. nodes[proto].name \in STRING
  BY NodeFacts DEF Shape
<1> HIDE DEF TypesOf
<1> QED  BY <1>1, <1>4, <1>5, LenProperties

LEMMA DeclaredFacts ==
  ASSUME Shape, NEW proto \in DOMAIN nodes, NEW m \in Nat, Len(values) <= m
  PROVE  LET gs == Declared(proto) IN
         /\ gs \in Seq(FunctionType(m)) /\ functions \in Seq(FunctionType(m))
         /\ Len(gs) = Len(functions) + 1 /\ Len(functions) \in Nat
         /\ Grown(functions, gs)
         /\ \A f \in 1 .. Len(functions) : gs[f] = functions[f]
         /\ gs[Len(functions) + 1].params = TypesOf(proto)
         /\ gs[Len(functions) + 1].blocks = <<>>
         /\ gs[Len(functions) + 1].name = UniqueName(functions, nodes[proto].name)
<1> DEFINE name   == UniqueName(functions, nodes[proto].name)
           result == IF nodes[proto].name = "main" THEN "i32" ELSE "double"
           f      == Function(name, result, TypesOf(proto), FALSE)
           gs     == Append(functions, f)
<1>1. functions \in Seq(FunctionType(m)) /\ Len(functions) \in Nat
  <2>1. functions \in Seq(FunctionType(Len(values)))
    BY DEF Shape
  <2> QED  BY <2>1, ValuesAreCounted, MoreValues, LenProperties
<1>2. name \in Text /\ result \in Types /\ TypesOf(proto) \in Seq(Types)
  BY PrototypeTypes DEF UniqueName, Text, Types
<1>3. /\ f \in FunctionType(m) /\ f.params = TypesOf(proto) /\ f.blocks = <<>> /\ f.name = name
  <2> HIDE DEF name, result
  <2>1. <<>> \in Seq(Seq(1 .. m))
    OBVIOUS
  <2> QED  BY <1>2, <2>1 DEF Function, FunctionType
<1>4. /\ gs \in Seq(FunctionType(m)) /\ Len(gs) = Len(functions) + 1
      /\ gs[Len(functions) + 1] = f /\ \A g \in 1 .. Len(functions) : gs[g] = functions[g]
  <2> HIDE DEF f
  <2> QED  BY <1>1, <1>3, AppendProperties
<1>5. Grown(functions, gs)
  <2> HIDE DEF gs
  <2>1. Grown(functions, functions)
    BY <1>1, GrownIsReflexive
  <2> QED  BY <1>1, <1>4, <2>1 DEF Grown
<1>6. gs = Declared(proto)
  BY DEF Declared, AddFunction
<1> HIDE DEF gs, f, name
<1> QED  BY <1>1, <1>3, <1>4, <1>5, <1>6 DEF name

LEMMA BoundFacts ==
  ASSUME Shape, NEW proto \in DOMAIN nodes, BindParameters(proto)
  PROVE  /\ ValuesOK(values') /\ Len(values) \in Nat
         /\ Len(values') = Len(values) + Len(nodes[proto].kids)
         /\ Len(nodes[proto].kids) \in Nat
         /\ \A v \in 1 .. Len(values) : values'[v] = values[v]
         /\ \A i \in 1 .. Len(nodes[proto].kids) :
              values'[Len(values) + i] =
                Instruction("param", TypesOf(proto)[i], <<>>, <<Len(functions) + 1, i>>)
         /\ NamesOK(namedValues', Len(values'))
         /\ \A x \in DOMAIN namedValues' : \E i \in 1 .. Len(nodes[proto].kids) :
              namedValues'[x] = Len(values) + i
<1> DEFINE n == Len(values)
           k == Len(nodes[proto].kids)
           names == NamesOf(proto)
<1>1. TypesOf(proto) \in Seq(Types) /\ Len(TypesOf(proto)) = k
  BY PrototypeTypes
<1>2. Len(functions) + 1 \in Nat
  BY LenProperties DEF Shape
<1>3. values' = values \o ParametersOf(Len(functions) + 1, TypesOf(proto))
  BY DEF BindParameters
<1>4. /\ ValuesOK(values') /\ n \in Nat /\ k \in Nat /\ Len(values') = n + k
      /\ \A v \in 1 .. n : values'[v] = values[v]
      /\ \A i \in 1 .. k :
           values'[n + i] = Instruction("param", TypesOf(proto)[i], <<>>, <<Len(functions) + 1, i>>)
  <2> DEFINE f  == Len(functions) + 1
             ts == TypesOf(proto)
             ws == values \o ParametersOf(f, ts)
  <2>1. ValuesOK(values) /\ f \in Nat /\ ts \in Seq(Types) /\ Len(ts) = k /\ values' = ws
    BY <1>1, <1>2, <1>3 DEF Shape
  <2> HIDE DEF f, ts
  <2>2. /\ ValuesOK(ws) /\ n \in Nat /\ Len(ts) \in Nat /\ Len(ws) = n + Len(ts)
        /\ \A v \in 1 .. n : ws[v] = values[v]
        /\ \A i \in 1 .. Len(ts) : ws[n + i] = Instruction("param", ts[i], <<>>, <<f, i>>)
    BY <2>1, ParameterValues, ZenonT(40)
  <2> HIDE DEF ws, n, k
  <2>3. /\ ValuesOK(ws) /\ n \in Nat /\ k \in Nat /\ Len(ws) = n + k
        /\ \A v \in 1 .. n : ws[v] = values[v]
        /\ \A i \in 1 .. k : ws[n + i] = Instruction("param", ts[i], <<>>, <<f, i>>)
    BY <2>1, <2>2, Zenon
  <2> QED  BY <2>1, <2>3, Zenon DEF f, ts
<1>5. DOMAIN names = 1 .. k
  BY NodeFacts DEF NamesOf, Shape
<1>6. namedValues' = [x \in Range(names) |-> n + Max({ i \in DOMAIN names : names[i] = x })]
  BY DEF BindParameters
<1> HIDE DEF names
<1>7. ASSUME NEW x \in DOMAIN namedValues' PROVE \E i \in 1 .. k : namedValues'[x] = n + i
  <2> DEFINE S == { i \in DOMAIN names : names[i] = x }
  <2>1. x \in Range(names)
    BY <1>6
  <2>2. S \in SUBSET (1 .. k) /\ S # {}
    BY <1>5, <2>1 DEF Range
  <2>3. Max(S) \in 1 .. k
    <3> HIDE DEF S
    <3> QED  BY <1>4, <2>2, MaxFacts
  <2>4. namedValues'[x] = n + Max(S)
    BY <1>6, <2>1
  <2> QED  BY <2>3, <2>4
<1>8. NamesOK(namedValues', n + k)
  <2>1. \A i \in 1 .. k : n + i \in 1 .. n + k
    BY <1>4
  <2> QED  BY <1>7, <2>1 DEF NamesOK
<1> QED  BY <1>4, <1>7, <1>8

LEMMA RootReturns ==
  ASSUME Shape, stack # <<>>, TopNode.kind \notin ExpressionKinds, NEW v
  PROVE  Len(stack) = 1 /\ Top = stack[1] /\ Returned(v) = <<>>
<1>1. Len(stack) = 1 /\ Top = stack[1]
  BY TopFacts
<1>2. stack \in Seq(FrameType(nodes, Len(values)))
  BY DEF Shape, StackOK
<1>3. Front(stack) \in Seq(FrameType(nodes, Len(values))) /\ Len(Front(stack)) = 0
  BY <1>1, <1>2, LastOfSeq
<1>4. Front(stack) = <<>>
  BY <1>3, EmptySeq
<1> QED  BY <1>1, <1>4 DEF Returned

\* Nothing is entered: the tree is done or has only begun.
LEMMA RootStep ==
  ASSUME Shape, program' = program, next' \in 1 .. Len(program.trees) + 1, control' = control,
         ValuesOK(values'), NamesOK(namedValues', Len(values')),
         functions' \in Seq(FunctionType(Len(values'))), IsBlock(functions', insertion'),
         StackOK(nodes, stack', functions', Len(values')), ~ Entered(stack'),
         currentFunction' = NoFunction, currentBB' = <<>>, shouldReturn' = TRUE
  PROVE  Shape'
<1>1. nodes' = nodes
  BY DEF nodes
<1>2. FieldsOK(stack', currentFunction', currentBB', shouldReturn', insertion')
  BY DEF FieldsOK
<1>3. shouldReturn' \in BOOLEAN
  OBVIOUS
<1>4. Generatable(program') /\ next' \in 1 .. Len(program'.trees) + 1
      /\ control' \in Outcomes \cup {"generating"}
  BY DEF Shape
<1> QED  BY <1>1, <1>2, <1>3, <1>4 DEF Shape

LEMMA NotEntered ==
  ASSUME Shape, ~ Entered(stack)
  PROVE  currentFunction = NoFunction /\ currentBB = <<>> /\ shouldReturn = TRUE
<1>1. currentFunction = NoFunction /\ currentBB = <<>> /\ shouldReturn
  BY DEF Shape, FieldsOK
<1>2. shouldReturn \in BOOLEAN
  BY DEF Shape
<1> QED  BY <1>1, <1>2

LEMMA EmptyStack == ASSUME NEW h, NEW fs, NEW n PROVE StackOK(h, <<>>, fs, n) /\ ~ Entered(<<>>)
BY DEF StackOK, Entered

LEMMA PrototypeStep == ASSUME Shape, Prototype PROVE Shape'
<1>1. /\ stack # <<>> /\ TopNode.kind = "prototype" /\ TopNode.kind \notin ExpressionKinds
      /\ functions' = Declared(Top.node) /\ BindParameters(Top.node)
      /\ stack' = Returned(Len(functions) + 1)
      /\ program' = program /\ next' = next /\ control' = control /\ insertion' = insertion
      /\ currentFunction' = currentFunction /\ currentBB' = currentBB
      /\ shouldReturn' = shouldReturn
  BY DEF Prototype, At, ExpressionKinds
<1>2. Top.node \in DOMAIN nodes /\ Top = stack[1] /\ Top.of = <<>>
  BY <1>1, TopFacts DEF FrameOK, TopNode
<1>3. /\ ValuesOK(values') /\ NamesOK(namedValues', Len(values'))
      /\ Len(values') \in Nat /\ Len(values) <= Len(values')
  <2>1. /\ ValuesOK(values') /\ NamesOK(namedValues', Len(values'))
        /\ Len(values) \in Nat /\ Len(nodes[Top.node].kids) \in Nat
        /\ Len(values') = Len(values) + Len(nodes[Top.node].kids)
    BY <1>1, <1>2, BoundFacts
  <2> QED  BY <2>1
<1>4. /\ functions' \in Seq(FunctionType(Len(values'))) /\ Grown(functions, functions')
      /\ functions \in Seq(FunctionType(Len(values')))
  BY <1>1, <1>2, <1>3, DeclaredFacts
<1>5. stack' = <<>>
  BY <1>1, RootReturns
<1>6. IsBlock(functions', insertion')
  <2>1. IsBlock(functions, insertion)
    BY DEF Shape
  <2> QED  BY <1>1, <1>4, <2>1, BlockStays
<1>7. ~ Entered(stack)
  BY <1>2 DEF Entered
<1>8. currentFunction = NoFunction /\ currentBB = <<>> /\ shouldReturn = TRUE
  BY <1>7, NotEntered
<1>9. next' \in 1 .. Len(program.trees) + 1
  BY <1>1 DEF Shape
<1> QED  BY <1>1, <1>3, <1>4, <1>5, <1>6, <1>8, <1>9, EmptyStack, RootStep

LEMMA EnterStep ==
  ASSUME Shape, stack # <<>>, TopNode.kind = "motif", Top.of = <<>>,
         ValuesOK(values'), Len(values') \in Nat, Len(values) <= Len(values'),
         NamesOK(namedValues', Len(values')),
         NEW fs \in Seq(FunctionType(Len(values'))), Grown(functions, fs),
         NEW f \in 1 .. Len(fs), EnterMotif(fs, f)
  PROVE  Shape'
<1> DEFINE m     == Len(values')
           block == LastBlock(functions', f)
           call  == With(block)
<1>1. Len(stack) = 1 /\ Top = stack[1] /\ Top.node \in DOMAIN nodes
  BY TopFacts DEF ExpressionKinds
<1>2. Len(values) \in Nat /\ functions \in Seq(FunctionType(Len(values)))
  BY ValuesAreCounted DEF Shape
<1>3. functions \in Seq(FunctionType(m))
  BY <1>2, MoreValues
<1>4. /\ functions' = AppendBlock(fs, f) /\ currentFunction' = f /\ currentBB' = block
      /\ insertion' = block
      /\ stack' = IF Len(TopNode.kids) = 1 THEN call ELSE Append(call, Frame(TopNode.kids[2]))
      /\ program' = program /\ next' = next /\ control' = control
      /\ shouldReturn' = shouldReturn
  BY DEF EnterMotif, Visit
<1>5. /\ functions' \in Seq(FunctionType(m)) /\ Grown(fs, functions')
      /\ block = <<f, Len(fs[f].blocks) + 1>> /\ IsBlock(functions', block)
  BY <1>4, Blocked
<1>6. Grown(functions, functions')
  BY <1>3, <1>5, GrownIsTransitive
<1>7. StackOK(nodes, stack, functions', m)
  BY <1>2, <1>5, <1>6, StackStays DEF Shape
<1>8. block \in Seq(Nat) /\ block # <<>> /\ block[1] = f
  BY <1>5 DEF IsBlock
<1>9. FrameOK(nodes, [Top EXCEPT !.of = block], functions')
  <2> DEFINE e == [Top EXCEPT !.of = block]
  <2>1. e.node = Top.node /\ e.of = block
    BY TopFacts DEF FrameType
  <2> HIDE DEF e, block
  <2> QED  BY <1>5, <2>1 DEF FrameOK, TopNode, e
<1> HIDE DEF block
<1>10. StackOK(nodes, call, functions', m) /\ call # <<>> /\ call[1].of = block
  BY <1>1, <1>7, <1>8, <1>9, Remembered
<1>11. Entered(call)
  BY <1>8, <1>10 DEF Entered
<1> HIDE DEF call
<1>12. StackOK(nodes, stack', functions', m) /\ stack' # <<>> /\ stack'[1].of = block
  <2>1. CASE Len(TopNode.kids) = 1
    BY <1>4, <1>10, <2>1
  <2>2. CASE Len(TopNode.kids) # 1
    <3>1. TopNode.kids[2] \in DOMAIN nodes /\ nodes[TopNode.kids[2]].kind \in ExpressionKinds
      <4>1. Len(TopNode.kids) \in {1, 2}
        BY <1>1, NodeFacts DEF Shape, TopNode
      <4>2. Len(TopNode.kids) = 2
        BY <2>2, <4>1, Zenon
      <4>3. 2 \in 1 .. Len(TopNode.kids)
        BY <4>2
      <4> QED  BY <1>1, <4>3, NodeFacts, SMTT(30) DEF Shape, TopNode
    <3>2. /\ StackOK(nodes, stack', functions', m) /\ stack' # <<>> /\ stack'[1] = call[1]
      BY <1>4, <1>10, <1>11, <2>2, <3>1, Visited
    <3> QED  BY <1>10, <3>2
  <2> QED  BY <2>1, <2>2
<1>13. FieldsOK(stack', currentFunction', currentBB', shouldReturn', insertion')
  BY <1>4, <1>8, <1>12 DEF FieldsOK, Entered
<1>14. nodes' = nodes
  BY <1>4 DEF nodes
<1> QED  BY <1>4, <1>5, <1>12, <1>13, <1>14 DEF Shape

LEMMA BeginMotifStep == ASSUME Shape, BeginMotif PROVE Shape'
<1> DEFINE proto == TopNode.kids[1]
           fs    == Declared(proto)
<1>1. /\ stack # <<>> /\ TopNode.kind = "motif" /\ Top.of = <<>>
      /\ BindParameters(proto) /\ EnterMotif(fs, Len(functions) + 1)
  BY DEF BeginMotif, At
<1>2. proto \in DOMAIN nodes
  <2>1. Top.node \in DOMAIN nodes
    BY <1>1, TopFacts
  <2>2. Len(TopNode.kids) \in {1, 2}
    BY <1>1, <2>1, NodeFacts DEF Shape, TopNode
  <2>3. 1 \in 1 .. Len(TopNode.kids)
    BY <2>2
  <2> QED  BY <2>1, <2>3, NodeFacts DEF Shape, TopNode
<1>3. /\ ValuesOK(values') /\ NamesOK(namedValues', Len(values'))
      /\ Len(values') \in Nat /\ Len(values) <= Len(values')
  <2>1. /\ ValuesOK(values') /\ NamesOK(namedValues', Len(values'))
        /\ Len(values) \in Nat /\ Len(nodes[proto].kids) \in Nat
        /\ Len(values') = Len(values) + Len(nodes[proto].kids)
    BY <1>1, <1>2, BoundFacts
  <2> QED  BY <2>1
<1>4. /\ fs \in Seq(FunctionType(Len(values'))) /\ Grown(functions, fs)
      /\ Len(fs) = Len(functions) + 1 /\ Len(functions) \in Nat
  BY <1>2, <1>3, DeclaredFacts
<1> DEFINE f == Len(functions) + 1
<1>5. f \in 1 .. Len(fs)
  BY <1>4
<1> HIDE DEF fs, f
<1> QED  BY <1>1, <1>3, <1>4, <1>5, EnterStep DEF f

LEMMA BeginKnownMotifStep == ASSUME Shape, BeginKnownMotif PROVE Shape'
<1> DEFINE f == Named(functions, MotifName)
<1>1. /\ stack # <<>> /\ TopNode.kind = "motif" /\ Top.of = <<>>
      /\ f # NoFunction /\ EnterMotif(functions, f)
      /\ values' = values /\ namedValues' = namedValues
  BY DEF BeginKnownMotif, At
<1>2. /\ ValuesOK(values) /\ Len(values) \in Nat /\ NamesOK(namedValues, Len(values))
      /\ functions \in Seq(FunctionType(Len(values))) /\ Grown(functions, functions)
  BY ValuesAreCounted, GrownIsReflexive DEF Shape
<1>3. f \in 1 .. Len(functions)
  BY <1>1, <1>2, NamedFacts
<1> HIDE DEF f
<1> QED  BY <1>1, <1>2, <1>3, EnterStep

\* At the end of a motif at most a return of a value that is there is added.
LEMMA EpilogueValues ==
  ASSUME Shape, stack # <<>>, TopNode.kind = "motif", Len(Top.got) \in {0, 1}
  PROVE  LET vs == values \o Epilogue IN
         /\ ValuesOK(vs) /\ Len(values) \in Nat /\ Len(vs) \in Nat /\ Len(values) <= Len(vs)
         /\ \A v \in 1 .. Len(values) : vs[v] = values[v]
         /\ Epilogue # <<>> => Len(values) < Len(vs)
<1> DEFINE n    == Len(values)
           zero == Constant("zero", "i32", <<>>)
           main == ReturnOf(<<n + 1>>)
           ret  == ReturnOf(Top.got)
<1>1. ValuesOK(values) /\ n \in Nat /\ values \in Seq(Value_)
  BY ValuesAreCounted DEF Shape, ValuesOK
<1>2. /\ "zero" \in Opcodes /\ "ret" \in Opcodes /\ "i32" \in Types /\ "void" \in Types
      /\ <<>> \in Seq(Nat)
  BY DEF Opcodes, Types
<1>3. zero \in Value_ /\ zero.args = <<>>
  <2>1. zero \in Value_
    BY <1>2, ValueFacts, Zenon DEF Constant
  <2>2. zero.args = <<>>
    BY DEF Constant, Value
  <2> QED  BY <2>1, <2>2
<1>4. main \in Value_ /\ main.args = <<n + 1>>
  <2>1. <<n + 1>> \in Seq(Nat)
    BY <1>1
  <2>2. main \in Value_
    BY <1>2, <2>1, ValueFacts, Zenon DEF ReturnOf, Instruction
  <2>3. main.args = <<n + 1>>
    BY DEF ReturnOf, Instruction, Value
  <2> QED  BY <2>2, <2>3
<1>5. ret \in Value_ /\ ret.args = Top.got /\ \A i \in DOMAIN Top.got : Top.got[i] \in 1 .. n
  <2>1. Top.got \in Seq(Nat) /\ \A i \in DOMAIN Top.got : Top.got[i] \in 1 .. n
    BY <1>1, TopFacts, OperandFacts
  <2>2. ret \in Value_
    BY <1>2, <2>1, ValueFacts, Zenon DEF ReturnOf, Instruction
  <2>3. ret.args = Top.got
    BY DEF ReturnOf, Instruction, Value
  <2> QED  BY <2>1, <2>2, <2>3
<1>6. CASE Epilogue = <<zero, main>>
  <2> DEFINE us == Append(values, zero)
             vs == Append(us, main)
  <2> HIDE DEF zero, main
  <2>1. /\ ValuesOK(us) /\ Len(us) = n + 1 /\ \A v \in 1 .. n : us[v] = values[v]
    <3>1. \A i \in DOMAIN zero.args : zero.args[i] \in 1 .. Len(values)
      BY <1>3
    <3> QED  BY <1>1, <1>3, <3>1, NewValue
  <2>2. \A i \in DOMAIN main.args : main.args[i] \in 1 .. n + 1
    BY <1>1, <1>4
  <2>3. us \in Seq(Value_)
    BY <2>1 DEF ValuesOK
  <2>4. values \o Epilogue = vs
    <3> HIDE DEF Value_
    <3> QED  BY <1>1, <1>3, <1>4, <1>6
  <2> HIDE DEF us
  <2>5. /\ ValuesOK(vs) /\ Len(vs) = n + 1 + 1 /\ \A v \in 1 .. n + 1 : vs[v] = us[v]
    BY <1>4, <2>1, <2>2, NewValue
  <2> HIDE DEF vs
  <2>6. \A v \in 1 .. n : vs[v] = values[v]
    BY <1>1, <2>1, <2>5
  <2> QED  BY <1>1, <2>4, <2>5, <2>6
<1>7. CASE Epilogue = <<ret>>
  <2> DEFINE vs == Append(values, ret)
  <2> HIDE DEF ret
  <2>1. \A i \in DOMAIN ret.args : ret.args[i] \in 1 .. Len(values)
    BY <1>5, Zenon
  <2>2. /\ ValuesOK(vs) /\ Len(vs) = n + 1 /\ \A v \in 1 .. n : vs[v] = values[v]
    BY <1>1, <1>5, <2>1, NewValue
  <2>3. values \o Epilogue = vs
    <3> HIDE DEF Value_
    <3> QED  BY <1>1, <1>5, <1>7
  <2> HIDE DEF vs
  <2> QED  BY <1>1, <2>2, <2>3
<1>8. CASE Epilogue = <<>>
  <2>1. values \o Epilogue = values
    <3> HIDE DEF Value_
    <3> QED  BY <1>1, <1>8, ConcatEmptySeq
  <2> QED  BY <1>1, <1>8, <2>1
<1>9. Epilogue \in {<<zero, main>>, <<ret>>, <<>>}
  BY Zenon DEF Epilogue
<1> HIDE DEF zero, main, ret
<1> QED  BY <1>6, <1>7, <1>8, <1>9

LEMMA EndMotifStep == ASSUME Shape, EndMotif PROVE Shape'
<1> DEFINE n  == Len(values)
           vs == values \o Epilogue
           m  == Len(vs)
           fs == IF Epilogue = <<>> THEN functions ELSE InsertInto(functions, Top.of, m)
<1>1. /\ stack # <<>> /\ TopNode.kind = "motif" /\ TopNode.kind \notin ExpressionKinds
      /\ Top.of # <<>> /\ Len(Top.got) \in {0, 1}
  BY DEF EndMotif, At, ExpressionKinds
<1>2. /\ ValuesOK(vs) /\ n \in Nat /\ m \in Nat /\ n <= m
      /\ Epilogue # <<>> => n < m
  BY <1>1, EpilogueValues
<1>3. functions \in Seq(FunctionType(m)) /\ IsBlock(functions, Top.of)
  <2>1. functions \in Seq(FunctionType(n))
    BY DEF Shape
  <2>2. functions \in Seq(FunctionType(m))
    BY <1>2, <2>1, MoreValues
  <2>3. IsBlock(functions, Top.of)
    BY <1>1, TopFacts DEF FrameOK, TopNode
  <2> QED  BY <2>2, <2>3
<1>4. fs \in Seq(FunctionType(m)) /\ IsBlock(fs, Top.of)
  <2>1. CASE Epilogue = <<>>
    BY <1>3, <2>1
  <2>2. CASE Epilogue # <<>>
    <3>1. m \in 1 .. m
      BY <1>2, <2>2
    <3> DEFINE gs == InsertInto(functions, Top.of, m)
    <3>2. gs \in Seq(FunctionType(m)) /\ Grown(functions, gs)
      <4> HIDE DEF m
      <4> QED  BY <1>3, <3>1, Inserted
    <3> HIDE DEF gs
    <3>3. IsBlock(gs, Top.of)
      BY <1>3, <3>2, BlockStays
    <3>4. fs = gs
      BY <2>2 DEF gs
    <3> QED  BY <3>2, <3>3, <3>4
  <2> QED  BY <2>1, <2>2
<1>5. CASE Halt("aborted")
  BY <1>5, Halts DEF Outcomes
<1>6. CASE /\ values' = vs /\ functions' = fs /\ insertion' = Top.of /\ Reset
           /\ stack' = Returned(Top.of[1])
           /\ UNCHANGED <<program, next, control, namedValues>>
  <2>1. stack' = <<>>
    BY <1>1, <1>6, RootReturns
  <2>2. NamesOK(namedValues', m)
    BY <1>2, <1>6 DEF Shape, NamesOK
  <2>3. currentFunction' = NoFunction /\ currentBB' = <<>> /\ shouldReturn' = TRUE
    BY <1>6 DEF Reset
  <2>4. next' \in 1 .. Len(program.trees) + 1
    BY <1>6 DEF Shape
  <2> HIDE DEF fs, vs
  <2> QED  BY <1>2, <1>4, <1>6, <2>1, <2>2, <2>3, <2>4, EmptyStack, RootStep
<1>7. Halt("aborted") \/ (/\ values' = vs /\ functions' = fs /\ insertion' = Top.of /\ Reset
                          /\ stack' = Returned(Top.of[1])
                          /\ UNCHANGED <<program, next, control, namedValues>>)
  BY Zenon DEF EndMotif
<1> QED  BY <1>5, <1>6, <1>7

-----------------------------------------------------------------------------
(* The trees, and the start *)

LEMMA BeginTreeStep == ASSUME Shape, BeginTree PROVE Shape'
<1> DEFINE root == program.trees[next]
           f    == Frame(root)
<1>1. /\ stack = <<>> /\ next <= Len(program.trees) /\ next' = next + 1 /\ stack' = <<f>>
      /\ program' = program /\ control' = control /\ values' = values
      /\ functions' = functions /\ insertion' = insertion /\ namedValues' = namedValues
      /\ currentFunction' = currentFunction /\ currentBB' = currentBB
      /\ shouldReturn' = shouldReturn
  BY DEF BeginTree, Between, module, fields
<1>2. PICK k \in Nat : k = Len(program.trees) /\ DOMAIN program.trees = 1 .. k
  BY LenProperties DEF Shape, Generatable
<1>3. next \in 1 .. k /\ next + 1 \in 1 .. k + 1
  <2>1. next \in 1 .. k + 1
    BY <1>2 DEF Shape
  <2> QED  BY <1>1, <1>2, <2>1
<1>4. root \in DOMAIN nodes /\ nodes[root].kind \in Roots
  <2>1. program.trees \in Seq(DOMAIN nodes)
    BY DEF Shape, Generatable, nodes
  <2>2. nodes[root].kind \in {"prototype", "motif"}
    BY <1>2, <1>3 DEF Shape, Generatable, CompleteTrees, nodes
  <2> QED  BY <1>2, <1>3, <2>1, <2>2, ElementOfSeq DEF Roots
<1>5. f \in FrameType(nodes, Len(values)) /\ f.node = root /\ f.of = <<>>
  BY <1>4 DEF Frame, FrameType
<1> HIDE DEF f
<1>6. <<f>> \in Seq(FrameType(nodes, Len(values))) /\ Len(<<f>>) = 1 /\ <<f>>[1] = f
  <2> DEFINE T == FrameType(nodes, Len(values))
  <2>1. f \in T
    BY <1>5
  <2> HIDE DEF T
  <2> QED  BY <2>1 DEF T
<1>7. FrameOK(nodes, f, functions)
  BY <1>5 DEF FrameOK
<1>8. StackOK(nodes, stack', functions, Len(values)) /\ ~ Entered(stack')
  BY <1>1, <1>4, <1>5, <1>6, <1>7 DEF StackOK, Entered
<1>9. currentFunction = NoFunction /\ currentBB = <<>> /\ shouldReturn = TRUE
  BY <1>1, NotEntered DEF Entered
<1>10. next' \in 1 .. Len(program.trees) + 1
  BY <1>1, <1>2, <1>3
<1>11. /\ ValuesOK(values) /\ NamesOK(namedValues, Len(values))
       /\ functions \in Seq(FunctionType(Len(values))) /\ IsBlock(functions, insertion)
  BY DEF Shape
<1> QED  BY <1>1, <1>8, <1>9, <1>10, <1>11, RootStep

LEMMA StdValuesOK ==
  /\ ValuesOK(StdValues) /\ Len(StdValues) = 5
  /\ StdValues[1] = Instruction("param", "i8*", <<>>, <<1, 1>>)
  /\ StdValues[2] = Instruction("param", "double", <<>>, <<2, 1>>)
  /\ StdValues[3] = Constant("format", "i8*", <<>>)
  /\ StdValues[4] = CallOf(StdFunctions, Printf, <<3, 2>>)
  /\ StdValues[5] = ReturnOf(<<>>)
<1> DEFINE first  == <<>> \o ParametersOf(1, <<"i8*">>)
           second == first \o ParametersOf(2, <<"double">>)
           v3 == Constant("format", "i8*", <<>>)
           v4 == CallOf(StdFunctions, Printf, <<3, 2>>)
           v5 == ReturnOf(<<>>)
           p1 == Instruction("param", "i8*", <<>>, <<1, 1>>)
           p2 == Instruction("param", "double", <<>>, <<2, 1>>)
<1>1. ValuesOK(<<>>) /\ <<>> \in Seq(Value_)
  <2> HIDE DEF Value_
  <2> QED  BY DEF ValuesOK, Older
<1>2. <<"i8*">> \in Seq(Types) /\ <<"double">> \in Seq(Types) /\ "i8*" \in Types
      /\ "i32" \in Types /\ "void" \in Types
  BY DEF Types
<1>3. ValuesOK(first) /\ Len(first) = 1 /\ first[1] = p1
  <2> DEFINE ts == <<"i8*">>
             ws == <<>> \o ParametersOf(1, ts)
  <2>1. ts \in Seq(Types) /\ Len(ts) = 1 /\ ts[1] = "i8*" /\ 1 \in Nat
    BY <1>2
  <2> HIDE DEF ts
  <2>2. /\ ValuesOK(ws) /\ Len(ws) = Len(<<>>) + Len(ts)
        /\ \A i \in 1 .. Len(ts) :
             ws[Len(<<>>) + i] = Instruction("param", ts[i], <<>>, <<1, i>>)
    BY <1>1, <2>1, ParameterValues
  <2>3. Len(<<>>) = 0 /\ 0 + 1 = 1 /\ 1 \in 1 .. 1
    OBVIOUS
  <2> HIDE DEF ws
  <2>4. ws[1] = p1
    BY <2>1, <2>2, <2>3
  <2> QED  BY <2>1, <2>2, <2>3, <2>4 DEF ts, ws
<1>4. ParametersOf(1, <<"i8*">>) \in Seq(Value_) /\ first = ParametersOf(1, <<"i8*">>)
  <2> DEFINE p == ParametersOf(1, <<"i8*">>)
  <2>1. "param" \in Opcodes /\ <<>> \in Seq(Nat) /\ \A i \in 1 .. 1 : <<1, i>> \in Seq(Nat)
    BY DEF Opcodes
  <2>2. DOMAIN <<"i8*">> = 1 .. 1 /\ \A i \in 1 .. 1 : <<"i8*">>[i] \in Types
    BY <1>2
  <2>3. \A i \in 1 .. 1 : Instruction("param", <<"i8*">>[i], <<>>, <<1, i>>) \in Value_
    BY <2>1, <2>2, ValueFacts, Zenon DEF Instruction
  <2>4. p \in [1 .. 1 -> Value_]
    <3> HIDE DEF Value_
    <3> QED  BY <2>2, <2>3 DEF ParametersOf
  <2> HIDE DEF p, Value_
  <2>5. p \in Seq(Value_)
    <3>1. \A k \in Nat : [1 .. k -> Value_] \subseteq Seq(Value_)
      OBVIOUS
    <3> QED  BY <2>4, <3>1
  <2>6. <<>> \o p = p
    BY <2>5, ConcatEmptySeq
  <2> QED  BY <2>5, <2>6 DEF p
<1> HIDE DEF first
<1>5. ValuesOK(second) /\ Len(second) = 2 /\ second[1] = p1 /\ second[2] = p2
  <2> DEFINE ts == <<"double">>
             ws == first \o ParametersOf(2, ts)
  <2>1. ts \in Seq(Types) /\ Len(ts) = 1 /\ ts[1] = "double" /\ 2 \in Nat
    BY <1>2
  <2> HIDE DEF ts
  <2>2. /\ ValuesOK(ws) /\ Len(ws) = Len(first) + Len(ts)
        /\ \A v \in 1 .. Len(first) : ws[v] = first[v]
        /\ \A i \in 1 .. Len(ts) :
             ws[Len(first) + i] = Instruction("param", ts[i], <<>>, <<2, i>>)
    BY <1>3, <2>1, ParameterValues, ZenonT(40)
  <2>3. 1 + 1 = 2 /\ 1 \in 1 .. 1
    OBVIOUS
  <2> HIDE DEF ws
  <2>4. ws[1] = p1 /\ ws[2] = p2
    BY <1>3, <2>1, <2>2, <2>3
  <2> QED  BY <1>3, <2>1, <2>2, <2>3, <2>4 DEF ts, ws
<1> HIDE DEF second
<1>6. "format" \in Opcodes /\ "call" \in Opcodes /\ "ret" \in Opcodes /\ <<>> \in Seq(Nat)
      /\ <<3, 2>> \in Seq(Nat) /\ <<1>> \in Seq(Nat)
  BY DEF Opcodes
<1>7. StdFunctions[Printf].result = "i32"
  BY DEF StdFunctions, PrintfDeclaration, Printf, Function
<1>8. v3 \in Value_ /\ v3.args = <<>>
  <2>1. v3 \in Value_  BY <1>2, <1>6, ValueFacts, Zenon DEF Constant
  <2>2. v3.args = <<>>  BY DEF Constant, Value
  <2> QED  BY <2>1, <2>2
<1>9. v4 \in Value_ /\ v4.args = <<3, 2>>
  <2>1. v4 = Value("call", "i32", <<3, 2>>, <<1>>, FALSE)
    BY <1>7 DEF CallOf, Instruction, Printf
  <2>2. v4 \in Value_
    <3> HIDE DEF v4
    <3> QED  BY <1>2, <1>6, <2>1, ValueFacts, Zenon
  <2>3. v4.args = <<3, 2>>
    <3> HIDE DEF v4
    <3> QED  BY <2>1 DEF Value
  <2> QED  BY <2>2, <2>3
<1>10. v5 \in Value_ /\ v5.args = <<>>
  <2>1. v5 \in Value_  BY <1>2, <1>6, ValueFacts, Zenon DEF ReturnOf, Instruction
  <2>2. v5.args = <<>>  BY DEF ReturnOf, Instruction, Value
  <2> QED  BY <2>1, <2>2
<1> HIDE DEF v3, v4, v5, p1, p2
<1> DEFINE a == Append(second, v3)
           b == Append(a, v4)
           c == Append(b, v5)
<1>11. ValuesOK(a) /\ Len(a) = 3
        /\ a[1] = p1 /\ a[2] = p2 /\ a[3] = v3
  <2>1. \A i \in DOMAIN v3.args : v3.args[i] \in 1 .. Len(second)
    BY <1>8
  <2>2. /\ ValuesOK(a) /\ Len(a) = Len(second) + 1 /\ a[Len(second) + 1] = v3
        /\ \A i \in 1 .. Len(second) : a[i] = second[i]
    BY <1>5, <1>8, <2>1, NewValue, Zenon
  <2> HIDE DEF a
  <2> QED  BY <1>5, <1>8, <2>2
<1> HIDE DEF a
<1>12. ValuesOK(b) /\ Len(b) = 4
        /\ b[1] = p1 /\ b[2] = p2 /\ b[3] = v3 /\ b[4] = v4
  <2>1. \A i \in DOMAIN v4.args : v4.args[i] \in 1 .. Len(a)
    BY <1>9, <1>11
  <2>2. /\ ValuesOK(b) /\ Len(b) = Len(a) + 1 /\ b[Len(a) + 1] = v4
        /\ \A i \in 1 .. Len(a) : b[i] = a[i]
    BY <1>9, <1>11, <2>1, NewValue, Zenon
  <2> HIDE DEF b
  <2> QED  BY <1>9, <1>11, <2>2
<1> HIDE DEF b
<1>13. ValuesOK(c) /\ Len(c) = 5
        /\ c[1] = p1 /\ c[2] = p2 /\ c[3] = v3 /\ c[4] = v4 /\ c[5] = v5
  <2>1. \A i \in DOMAIN v5.args : v5.args[i] \in 1 .. Len(b)
    BY <1>10
  <2>2. /\ ValuesOK(c) /\ Len(c) = Len(b) + 1 /\ c[Len(b) + 1] = v5
        /\ \A i \in 1 .. Len(b) : c[i] = b[i]
    BY <1>10, <1>12, <2>1, NewValue, Zenon
  <2> HIDE DEF c
  <2> QED  BY <1>10, <1>12, <2>2
<1>14. c = second \o <<v3, v4, v5>>
  <2>1. second \in Seq(Value_)
    BY <1>5 DEF ValuesOK
  <2> HIDE DEF Value_
  <2> QED  BY <1>8, <1>9, <1>10, <2>1 DEF a, b
<1>15. StdValues = second \o <<v3, v4, v5>>
  <2>1. PrintfDeclaration.params = <<"i8*">> /\ PrintDefinition.params = <<"double">>
    BY DEF PrintfDeclaration, PrintDefinition, Function
  <2> QED  BY <1>4, <2>1 DEF StdValues, second, first, v3, v4, v5, Printf, PrintFunction
<1> HIDE DEF c
<1> QED  BY <1>13, <1>14, <1>15 DEF p1, p2, v3, v4, v5

LEMMA StdFunctionsOK ==
  /\ StdFunctions \in Seq(FunctionType(5)) /\ Len(StdFunctions) = 2
  /\ StdFunctions[1] = PrintfDeclaration /\ StdFunctions[2] = PrintDefinition
  /\ PrintfDeclaration.blocks = <<>> /\ PrintDefinition.blocks = << <<4, 5>> >>
  /\ IsBlock(StdFunctions, StdInsertion)
<1>1. "printf" \in Text /\ "print" \in Text /\ "i32" \in Types /\ "void" \in Types
      /\ <<"i8*">> \in Seq(Types) /\ <<"double">> \in Seq(Types)
  BY DEF Text, Types
<1>2. <<4, 5>> \in Seq(1 .. 5)
  OBVIOUS
<1>3. << <<4, 5>> >> \in Seq(Seq(1 .. 5)) /\ <<>> \in Seq(Seq(1 .. 5))
  <2> DEFINE b == <<4, 5>>
             B == Seq(1 .. 5)
  <2>1. b \in B
    BY <1>2
  <2> HIDE DEF b, B
  <2>2. <<b>> \in Seq(B) /\ <<>> \in Seq(B)
    BY <2>1
  <2> QED  BY <2>2 DEF b, B
<1>4. PrintfDeclaration = [name |-> "printf", result |-> "i32", params |-> <<"i8*">>,
                           vararg |-> TRUE, blocks |-> <<>>]
  BY DEF PrintfDeclaration, Function
<1>5. PrintDefinition = [name |-> "print", result |-> "void", params |-> <<"double">>,
                         vararg |-> FALSE, blocks |-> << <<4, 5>> >>]
  <2> DEFINE bs == << <<4, 5>> >>
             ps == <<"double">>
             no == FALSE
  <2>1. PrintDefinition = [Function("print", "void", ps, no) EXCEPT !.blocks = bs]
    BY DEF PrintDefinition
  <2> HIDE DEF bs, ps, no
  <2>2. Function("print", "void", ps, no) =
          [name |-> "print", result |-> "void", params |-> ps, vararg |-> no, blocks |-> <<>>]
    BY DEF Function
  <2>3. PrintDefinition = [name |-> "print", result |-> "void", params |-> ps,
                           vararg |-> no, blocks |-> bs]
    BY <2>1, <2>2
  <2> QED  BY <2>3 DEF bs, ps, no
<1>6. PrintfDeclaration \in FunctionType(5) /\ PrintfDeclaration.blocks = <<>>
  BY <1>1, <1>3, <1>4 DEF FunctionType
<1>7. PrintDefinition \in FunctionType(5) /\ PrintDefinition.blocks = << <<4, 5>> >>
  <2> DEFINE bs == << <<4, 5>> >>
             ps == <<"double">>
  <2>1. bs \in Seq(Seq(1 .. 5)) /\ ps \in Seq(Types)
    BY <1>1, <1>3
  <2>2. PrintDefinition = [name |-> "print", result |-> "void", params |-> ps,
                           vararg |-> FALSE, blocks |-> bs]
    BY <1>5
  <2> HIDE DEF bs, ps
  <2>3. PrintDefinition \in FunctionType(5) /\ PrintDefinition.blocks = bs
    BY <1>1, <2>1, <2>2 DEF FunctionType
  <2> QED  BY <2>3 DEF bs
<1>8. /\ StdFunctions \in Seq(FunctionType(5)) /\ Len(StdFunctions) = 2
      /\ StdFunctions[1] = PrintfDeclaration /\ StdFunctions[2] = PrintDefinition
  <2> HIDE DEF FunctionType
  <2> QED  BY <1>6, <1>7 DEF StdFunctions
<1>9. IsBlock(StdFunctions, StdInsertion)
  <2>1. Len(PrintDefinition.blocks) = 1
    BY <1>7
  <2>2. StdInsertion = <<2, 1>> /\ StdInsertion[1] = 2 /\ StdInsertion[2] = 1
        /\ StdInsertion \in Seq(Nat)
    BY DEF StdInsertion, PrintFunction
  <2>3. Len(StdFunctions[StdInsertion[1]].blocks) = 1
    BY <1>8, <2>1, <2>2
  <2>4. 2 \in 1 .. 2 /\ 1 \in 1 .. 1
    OBVIOUS
  <2> QED  BY <1>8, <2>2, <2>3, <2>4, Zenon DEF IsBlock
<1> QED  BY <1>6, <1>7, <1>8, <1>9

LEMMA ShapeInit == ASSUME Init PROVE Shape
<1>1. /\ program \in Programs /\ next = 1 /\ control = "generating" /\ stack = <<>>
      /\ values = StdValues /\ functions = StdFunctions /\ insertion = StdInsertion
      /\ namedValues = <<>> /\ currentFunction = NoFunction /\ currentBB = <<>>
      /\ shouldReturn = TRUE
  BY DEF Init, Fresh
<1>2. Generatable(program)
  BY <1>1, ProgramsAssumption
<1>3. next \in 1 .. Len(program.trees) + 1
  <2>1. Len(program.trees) \in Nat
    BY <1>2, LenProperties DEF Generatable
  <2> QED  BY <1>1, <2>1
<1>4. /\ ValuesOK(values) /\ functions \in Seq(FunctionType(Len(values)))
      /\ IsBlock(functions, insertion)
  BY <1>1, StdValuesOK, StdFunctionsOK
<1>5. StackOK(nodes, stack, functions, Len(values)) /\ ~ Entered(stack)
  BY <1>1, EmptyStack
<1>6. FieldsOK(stack, currentFunction, currentBB, shouldReturn, insertion)
  BY <1>1, <1>5 DEF FieldsOK
<1>7. NamesOK(namedValues, Len(values))
  BY <1>1 DEF NamesOK
<1> QED  BY <1>1, <1>2, <1>3, <1>4, <1>5, <1>6, <1>7 DEF Shape

LEMMA HaltSteps ==
  ASSUME Shape, Write \/ UnknownVariable \/ UnknownOperator
  PROVE  Shape'
<1>1. PICK o \in Outcomes : Halt(o)
  BY DEF Write, UnknownVariable, UnknownOperator, Outcomes
<1> QED  BY <1>1, Halts

LEMMA Stutter == ASSUME Shape, UNCHANGED vars PROVE Shape'
<1>1. /\ control' = control /\ program' = program /\ nodes' = nodes /\ next' = next
      /\ stack' = stack /\ values' = values /\ functions' = functions
      /\ insertion' = insertion /\ namedValues' = namedValues
      /\ currentFunction' = currentFunction /\ currentBB' = currentBB
      /\ shouldReturn' = shouldReturn
  BY DEF vars, module, fields, nodes
<1> QED  BY <1>1 DEF Shape

LEMMA ShapeStays == ASSUME Shape, [Next]_vars PROVE Shape'
<1>1. CASE Generate
  BY <1>1, BeginTreeStep, HaltSteps DEF Generate
<1>2. CASE GetValue
  BY <1>2, NumberStep, VariableStep, OperandStep, BinaryOperationStep, HaltSteps,
     BeginCallStep, ArgumentStep, BuildCallStep, PrototypeStep, BeginMotifStep,
     BeginKnownMotifStep, EndMotifStep, BeginIfStep, BeginElseStep, BeginConditionStep,
     BuildBranchStep DEF GetValue
<1>3. CASE UNCHANGED vars
  BY <1>3, Stutter
<1> QED  BY <1>1, <1>2, <1>3 DEF Next, Ended

(* The inductive invariant of the generator.                               *)
THEOREM GeneratorInvariant == Spec => []Shape
BY ShapeInit, ShapeStays, PTL DEF Spec

LEMMA ShapeTypes == ASSUME Shape PROVE TypeOK
<1> DEFINE n == Len(values)
<1>1. n \in Nat /\ DOMAIN values = 1 .. n
  BY ValuesAreCounted
<1>2. PICK k \in Nat : k = Len(functions) /\ DOMAIN functions = 1 .. k
  BY LenProperties DEF Shape
<1>3. stack \in Seq([node : DOMAIN nodes, got : Seq(Nat), of : Seq(Nat)])
  <2>1. 1 .. n \subseteq Nat
    OBVIOUS
  <2>2. Seq(1 .. n) \subseteq Seq(Nat)
    BY <2>1, SeqMonotonic
  <2>3. FrameType(nodes, n) \subseteq [node : DOMAIN nodes, got : Seq(Nat), of : Seq(Nat)]
    BY <2>2 DEF FrameType
  <2>4. stack \in Seq(FrameType(nodes, n))
    BY DEF Shape, StackOK
  <2> QED  BY <2>3, <2>4, SeqMonotonic
<1>4. \A f \in DOMAIN functions : \A b \in DOMAIN functions[f].blocks :
        functions[f].blocks[b] \in Seq(DOMAIN values)
  <2> SUFFICES ASSUME NEW f \in 1 .. k, NEW b \in DOMAIN functions[f].blocks
               PROVE  functions[f].blocks[b] \in Seq(1 .. n)
    BY <1>1, <1>2
  <2>1. functions[f].blocks \in Seq(Seq(1 .. n))
    BY <1>2, FunctionFacts DEF Shape
  <2>2. b \in 1 .. Len(functions[f].blocks)
    BY <2>1, LenProperties
  <2> QED  BY <2>1, <2>2, ElementOfSeq
<1>5. /\ \A at : IsBlock(functions, at) =>
           at[1] \in DOMAIN functions /\ at[2] \in DOMAIN functions[at[1]].blocks
  <2> SUFFICES ASSUME NEW at, IsBlock(functions, at)
               PROVE  at[1] \in DOMAIN functions /\ at[2] \in DOMAIN functions[at[1]].blocks
    OBVIOUS
  <2>1. at[1] \in 1 .. k /\ at[2] \in 1 .. Len(functions[at[1]].blocks)
    BY <1>2 DEF IsBlock
  <2>2. functions[at[1]].blocks \in Seq(Seq(1 .. n))
    BY <1>2, <2>1, FunctionFacts DEF Shape
  <2>3. DOMAIN functions[at[1]].blocks = 1 .. Len(functions[at[1]].blocks)
    BY <2>2, LenProperties
  <2> QED  BY <1>2, <2>1, <2>3
<1>6. IsBlock(functions, insertion) /\ (currentBB # <<>> => IsBlock(functions, currentBB))
  <2>1. CASE Entered(stack)
    BY <2>1, EnteredFacts
  <2>2. CASE ~ Entered(stack)
    BY <2>2, NotEntered DEF Shape
  <2> QED  BY <2>1, <2>2
<1>7. currentFunction \in {NoFunction} \cup DOMAIN functions
  <2>1. CASE Entered(stack)
    BY <1>2, <2>1, EnteredFacts
  <2>2. CASE ~ Entered(stack)
    BY <2>2, NotEntered
  <2> QED  BY <2>1, <2>2
<1>8. \A x \in DOMAIN namedValues : namedValues[x] \in DOMAIN values
  BY <1>1 DEF Shape, NamesOK
<1>9. /\ values \in Seq(Value_)
      /\ \A v \in DOMAIN values : \A i \in DOMAIN values[v].args : values[v].args[i] \in 1 .. v - 1
  BY DEF Shape, ValuesOK, Older
<1>10. \A at \in {insertion} \cup ({currentBB} \ {<<>>}) :
         at[1] \in DOMAIN functions /\ at[2] \in DOMAIN functions[at[1]].blocks
  BY <1>5, <1>6
<1>11. /\ next \in 1 .. Len(program.trees) + 1 /\ control \in Outcomes \cup {"generating"}
       /\ shouldReturn \in BOOLEAN
  BY DEF Shape
<1> QED  BY <1>3, <1>4, <1>7, <1>8, <1>9, <1>10, <1>11 DEF TypeOK

(* Whatever program the parser hands over, the values the generator creates *)
(* use older ones, the blocks of the module hold values that exist, and the *)
(* builder and the fields stand in blocks and functions that exist.         *)
THEOREM TypeCorrect == Spec => []TypeOK
<1>1. Shape => TypeOK
  BY ShapeTypes
<1> QED  BY <1>1, GeneratorInvariant, PTL

-----------------------------------------------------------------------------
(***************************************************************************)
(* The safety properties of the code generator, for every program.         *)
(*                                                                         *)
(* Effect says what a step may do to the module: the values and functions  *)
(* there are stay, one function c at most gets instructions, those are new *)
(* values, a new call has the arity of its callee, and new instructions    *)
(* use what the innermost call of getValue has got.  Arities, verified     *)
(* functions and whose parameters are used are invariants of such steps,   *)
(* with what each needs to know of the fields.                             *)
(***************************************************************************)

InBlocks(fs, f, v) ==
  \E b \in DOMAIN fs[f].blocks : \E i \in DOMAIN fs[f].blocks[b] : fs[f].blocks[b][i] = v

Extended(vs, ws) == Len(vs) <= Len(ws) /\ \A v \in 1 .. Len(vs) : ws[v] = vs[v]

ArityOK(fs, value) ==
  value.op = "call" =>
    value.of[1] \in 1 .. Len(fs) /\ Len(value.args) = Len(fs[value.of[1]].params)

ModuleGrows(fs, gs, n, c) ==
  /\ Grown(fs, gs)
  /\ \A f \in 1 .. Len(fs) : f # c => gs[f] = fs[f]
  /\ \A f \in 1 .. Len(gs), v \in Nat :
       InBlocks(gs, f, v) =>
         (f \in 1 .. Len(fs) /\ InBlocks(fs, f, v)) \/ (f = c /\ v > n)
  /\ \A f \in 1 .. Len(gs) : f \notin 1 .. Len(fs) /\ f # c => gs[f].blocks = <<>>

NewOK(vs, ws, fs, got) ==
  \A v \in 1 .. Len(ws) : v > Len(vs) =>
    /\ ArityOK(fs, ws[v])
    /\ \A i \in DOMAIN ws[v].args :
         ws[v].args[i] \in Range(got) \/ ws[ws[v].args[i]].op # "param"

Effect(c) ==
  /\ Extended(values, values')
  /\ ModuleGrows(functions, functions', Len(values), c)
  /\ NewOK(values, values', functions, IF stack = <<>> THEN <<>> ELSE Top.got)

-----------------------------------------------------------------------------
(* Blocks *)

LEMMA BlockFacts ==
  ASSUME NEW n, NEW fs \in Seq(FunctionType(n)), NEW f \in 1 .. Len(fs)
  PROVE  /\ DOMAIN fs[f].blocks = 1 .. Len(fs[f].blocks)
         /\ \A b \in DOMAIN fs[f].blocks :
              /\ fs[f].blocks[b] \in Seq(1 .. n)
              /\ DOMAIN fs[f].blocks[b] = 1 .. Len(fs[f].blocks[b])
              /\ Len(fs[f].blocks[b]) \in Nat
<1>1. fs[f].blocks \in Seq(Seq(1 .. n))
  BY FunctionFacts
<1>2. DOMAIN fs[f].blocks = 1 .. Len(fs[f].blocks)
  BY <1>1, LenProperties
<1>3. \A b \in DOMAIN fs[f].blocks : fs[f].blocks[b] \in Seq(1 .. n)
  BY <1>1, <1>2, ElementOfSeq
<1> QED  BY <1>2, <1>3, LenProperties

LEMMA InsertedOnly ==
  ASSUME NEW n \in Nat, NEW fs \in Seq(FunctionType(n)), NEW at, IsBlock(fs, at), NEW v \in 1 .. n,
         NEW k \in Nat, v > k
  PROVE  ModuleGrows(fs, InsertInto(fs, at, v), k, at[1])
<1> DEFINE gs == InsertInto(fs, at, v)
<1>1. /\ gs \in Seq(FunctionType(n)) /\ Len(gs) = Len(fs) /\ Grown(fs, gs)
      /\ \A g \in 1 .. Len(fs) : Len(gs[g].blocks) = Len(fs[g].blocks)
      /\ \A g \in 1 .. Len(fs) : g # at[1] => gs[g] = fs[g]
      /\ \A b \in 1 .. Len(fs[at[1]].blocks) :
           gs[at[1]].blocks[b] = IF b = at[2] THEN Append(fs[at[1]].blocks[b], v)
                                              ELSE fs[at[1]].blocks[b]
  BY Inserted
<1> HIDE DEF gs
<1>2. at[1] \in 1 .. Len(fs)
  BY DEF IsBlock
<1>3. ASSUME NEW f \in 1 .. Len(gs), NEW w \in Nat, InBlocks(gs, f, w)
      PROVE  InBlocks(fs, f, w) \/ (f = at[1] /\ w = v)
  <2>1. CASE f # at[1]
    <3>1. gs[f] = fs[f]
      BY <1>1, <2>1
    <3> QED  BY <1>3, <3>1, Zenon DEF InBlocks
  <2>2. CASE f = at[1]
    <3>1. PICK b \in DOMAIN gs[f].blocks : \E i \in DOMAIN gs[f].blocks[b] : gs[f].blocks[b][i] = w
      BY <1>3, Zenon DEF InBlocks
    <3>2. PICK i \in DOMAIN gs[f].blocks[b] : gs[f].blocks[b][i] = w
      BY <3>1, Zenon
    <3>3. /\ DOMAIN gs[f].blocks = 1 .. Len(gs[f].blocks)
          /\ DOMAIN fs[f].blocks = 1 .. Len(fs[f].blocks)
          /\ Len(gs[f].blocks) = Len(fs[f].blocks)
      BY <1>1, <1>2, <2>2, BlockFacts
    <3>4. b \in 1 .. Len(fs[f].blocks) /\ b \in DOMAIN fs[f].blocks
      BY <3>3
    <3> DEFINE old == fs[f].blocks[b]
    <3>5. old \in Seq(1 .. n) /\ DOMAIN old = 1 .. Len(old) /\ Len(old) \in Nat
      BY <1>2, <2>2, <3>4, BlockFacts
    <3>6. gs[f].blocks[b] = IF b = at[2] THEN Append(old, v) ELSE old
      BY <1>1, <2>2, <3>4
    <3> HIDE DEF old
    <3>7. CASE b # at[2]
      <4>1. gs[f].blocks[b] = old
        BY <3>6, <3>7
      <4>2. \E j \in DOMAIN old : old[j] = w
        BY <3>2, <4>1, Zenon
      <4> QED  BY <3>4, <4>2, Zenon DEF InBlocks, old
    <3>8. CASE b = at[2]
      <4>1. gs[f].blocks[b] = Append(old, v)
        BY <3>6, <3>8
      <4> DEFINE new == Append(old, v)
      <4>2. /\ Len(new) = Len(old) + 1 /\ new[Len(old) + 1] = v /\ new \in Seq(1 .. n)
            /\ \A j \in 1 .. Len(old) : new[j] = old[j]
        BY <3>5, AppendProperties
      <4> HIDE DEF new
      <4>3. i \in DOMAIN new /\ new[i] = w
        BY <3>2, <4>1, Zenon DEF new
      <4>4. DOMAIN new = 1 .. Len(old) + 1
        BY <4>2, LenProperties
      <4>5. i = Len(old) + 1 \/ i \in 1 .. Len(old)
        BY <3>5, <4>3, <4>4
      <4>6. CASE i \in DOMAIN old /\ old[i] = w
        BY <3>4, <4>6, Zenon DEF InBlocks, old
      <4>7. CASE w = v
        BY <2>2, <4>7
      <4> QED  BY <3>5, <4>2, <4>3, <4>5, <4>6, <4>7
    <3> QED  BY <3>7, <3>8
  <2> QED  BY <2>1, <2>2
<1>4. \A f \in 1 .. Len(gs), w \in Nat :
        InBlocks(gs, f, w) =>
          (f \in 1 .. Len(fs) /\ InBlocks(fs, f, w)) \/ (f = at[1] /\ w > k)
  BY <1>1, <1>3
<1>5. \A f \in 1 .. Len(gs) : f \in 1 .. Len(fs)
  BY <1>1
<1> QED  BY <1>1, <1>4, <1>5, Zenon DEF ModuleGrows, gs

LEMMA SameModule ==
  ASSUME NEW n, NEW fs \in Seq(FunctionType(n)), NEW k, NEW c
  PROVE  ModuleGrows(fs, fs, k, c)
<1>1. Grown(fs, fs)
  BY GrownIsReflexive
<1> QED  BY <1>1, Zenon DEF ModuleGrows

LEMMA BlockedOnly ==
  ASSUME NEW n \in Nat, NEW fs \in Seq(FunctionType(n)), NEW c \in 1 .. Len(fs), NEW k
  PROVE  ModuleGrows(fs, AppendBlock(fs, c), k, c)
<1> DEFINE gs == AppendBlock(fs, c)
<1>1. /\ gs \in Seq(FunctionType(n)) /\ Len(gs) = Len(fs) /\ Grown(fs, gs)
      /\ Len(gs[c].blocks) = Len(fs[c].blocks) + 1
      /\ gs[c].blocks[Len(fs[c].blocks) + 1] = <<>>
      /\ \A b \in 1 .. Len(fs[c].blocks) : gs[c].blocks[b] = fs[c].blocks[b]
      /\ \A g \in 1 .. Len(fs) : g # c => gs[g] = fs[g]
  BY Blocked
<1> HIDE DEF gs
<1>2. ASSUME NEW f \in 1 .. Len(gs), NEW w \in Nat, InBlocks(gs, f, w)
      PROVE  InBlocks(fs, f, w)
  <2>1. CASE f # c
    <3>1. gs[f] = fs[f]
      BY <1>1, <2>1
    <3> QED  BY <1>2, <3>1, Zenon DEF InBlocks
  <2>2. CASE f = c
    <3>1. PICK b \in DOMAIN gs[f].blocks : \E i \in DOMAIN gs[f].blocks[b] : gs[f].blocks[b][i] = w
      BY <1>2, Zenon DEF InBlocks
    <3>2. PICK k2 \in Nat : k2 = Len(fs[c].blocks) /\ DOMAIN fs[c].blocks = 1 .. k2
      <4>1. Len(fs[c].blocks) \in Nat
        BY FunctionFacts
      <4>2. DOMAIN fs[c].blocks = 1 .. Len(fs[c].blocks)
        BY BlockFacts
      <4> QED  BY <4>1, <4>2, Zenon
    <3>3. DOMAIN gs[f].blocks = 1 .. k2 + 1
      BY <1>1, <2>2, <3>2, BlockFacts
    <3>4. b = k2 + 1 \/ b \in 1 .. k2
      BY <3>2, <3>3
    <3>5. CASE b = k2 + 1
      <4>1. gs[f].blocks[b] = <<>>
        BY <1>1, <2>2, <3>2, <3>5
      <4>2. DOMAIN <<>> = {}
        OBVIOUS
      <4> QED  BY <3>1, <4>1, <4>2, Zenon
    <3>6. CASE b \in 1 .. k2
      <4>1. gs[f].blocks[b] = fs[f].blocks[b]
        BY <1>1, <2>2, <3>2, <3>6
      <4>2. b \in DOMAIN fs[f].blocks
        BY <2>2, <3>2, <3>6
      <4> QED  BY <3>1, <4>1, <4>2, Zenon DEF InBlocks
    <3> QED  BY <3>4, <3>5, <3>6
  <2> QED  BY <2>1, <2>2
<1>3. \A f \in 1 .. Len(gs) : f \in 1 .. Len(fs)
  BY <1>1
<1> QED  BY <1>1, <1>2, <1>3, Zenon DEF ModuleGrows, gs

LEMMA GrowsTwice ==
  ASSUME NEW n, NEW fs \in Seq(FunctionType(n)), NEW gs \in Seq(FunctionType(n)),
         NEW hs \in Seq(FunctionType(n)), NEW k, NEW c,
         ModuleGrows(fs, gs, k, c), ModuleGrows(gs, hs, k, c)
  PROVE  ModuleGrows(fs, hs, k, c)
<1>1. Grown(fs, hs)
  BY GrownIsTransitive DEF ModuleGrows
<1>2. \A f \in 1 .. Len(fs) : f \in 1 .. Len(gs)
  BY BlocksStay DEF ModuleGrows
<1>3. \A f \in 1 .. Len(fs) : f # c => hs[f] = fs[f]
  BY <1>2, Zenon DEF ModuleGrows
<1>4. \A f \in 1 .. Len(hs), v \in Nat :
        InBlocks(hs, f, v) =>
          (f \in 1 .. Len(fs) /\ InBlocks(fs, f, v)) \/ (f = c /\ v > k)
  BY Zenon DEF ModuleGrows
<1>5. \A f \in 1 .. Len(hs) : f \notin 1 .. Len(fs) /\ f # c => hs[f].blocks = <<>>
  BY Zenon DEF ModuleGrows
<1> QED  BY <1>1, <1>3, <1>4, <1>5, Zenon DEF ModuleGrows

LEMMA DeclaredGrows ==
  ASSUME Shape, NEW proto \in DOMAIN nodes, NEW m \in Nat, Len(values) <= m, NEW k, NEW c
  PROVE  ModuleGrows(functions, Declared(proto), k, c)
<1> DEFINE gs == Declared(proto)
<1>1. /\ gs \in Seq(FunctionType(m)) /\ Len(gs) = Len(functions) + 1 /\ Len(functions) \in Nat
      /\ Grown(functions, gs)
      /\ \A f \in 1 .. Len(functions) : gs[f] = functions[f]
      /\ gs[Len(functions) + 1].blocks = <<>>
  BY DeclaredFacts
<1> HIDE DEF gs
<1>2. \A f \in 1 .. Len(gs) : f \notin 1 .. Len(functions) => f = Len(functions) + 1
  BY <1>1
<1>3. \A f \in 1 .. Len(gs) : f \notin 1 .. Len(functions) => gs[f].blocks = <<>>
  BY <1>1, <1>2
<1>4. DOMAIN <<>> = {}
  OBVIOUS
<1>5. \A f \in 1 .. Len(gs), v \in Nat :
        InBlocks(gs, f, v) => f \in 1 .. Len(functions) /\ InBlocks(functions, f, v)
  <2> SUFFICES ASSUME NEW f \in 1 .. Len(gs), NEW v \in Nat, InBlocks(gs, f, v)
               PROVE  f \in 1 .. Len(functions) /\ InBlocks(functions, f, v)
    OBVIOUS
  <2>1. f \in 1 .. Len(functions)
    BY <1>3, <1>4, Zenon DEF InBlocks
  <2>2. gs[f] = functions[f]
    BY <1>1, <2>1
  <2> QED  BY <2>1, <2>2, Zenon DEF InBlocks
<1> QED  BY <1>1, <1>3, <1>5, Zenon DEF ModuleGrows, gs

-----------------------------------------------------------------------------
(* What the steps do to the module *)

LEMMA SameEffect ==
  ASSUME Shape, values' = values, functions' = functions
  PROVE  \A c : Effect(c)
<1>1. Len(values) \in Nat
  BY ValuesAreCounted
<1>2. Extended(values, values')
  BY <1>1 DEF Extended
<1>3. \A c : ModuleGrows(functions, functions', Len(values), c)
  BY SameModule DEF Shape
<1>4. \A got : NewOK(values, values', functions, got)
  BY <1>1 DEF NewOK
<1> QED  BY <1>2, <1>3, <1>4, Zenon DEF Effect

LEMMA Appended ==
  ASSUME Shape, NEW v
  PROVE  LET ws == Append(values, v) IN
         /\ Len(values) \in Nat /\ Len(ws) = Len(values) + 1 /\ ws[Len(values) + 1] = v
         /\ \A i \in 1 .. Len(values) : ws[i] = values[i]
<1> DEFINE S == Value_ \cup {v}
<1>1. Value_ \subseteq S /\ v \in S
  OBVIOUS
<1> HIDE DEF S
<1>2. values \in Seq(S)
  BY <1>1, SeqMonotonic DEF Shape, ValuesOK
<1>3. Len(values) \in Nat
  BY ValuesAreCounted
<1> QED  BY <1>1, <1>2, <1>3, AppendProperties

LEMMA AppendedEffect ==
  ASSUME Shape, stack # <<>>, NEW v, values' = Append(values, v), ArityOK(functions, v),
         \A i \in DOMAIN v.args : v.args[i] \in Range(Top.got)
  PROVE  Extended(values, values') /\ NewOK(values, values', functions, Top.got)
<1> DEFINE n == Len(values)
<1>1. /\ n \in Nat /\ Len(values') = n + 1 /\ values'[n + 1] = v
      /\ \A i \in 1 .. n : values'[i] = values[i]
  BY Appended
<1>2. Extended(values, values')
  BY <1>1 DEF Extended
<1>3. \A w \in 1 .. Len(values') : w > n => w = n + 1
  BY <1>1
<1>4. \A w \in 1 .. Len(values') : w > n =>
        /\ ArityOK(functions, values'[w])
        /\ \A i \in DOMAIN values'[w].args : values'[w].args[i] \in Range(Top.got)
  BY <1>1, <1>3, Zenon
<1> HIDE DEF n
<1> QED  BY <1>2, <1>4, Zenon DEF NewOK, n

LEMMA ValueEffect ==
  ASSUME Shape, stack # <<>>, TopNode.kind \in ExpressionKinds,
         NEW v, values' = Append(values, v), ArityOK(functions, v),
         \A i \in DOMAIN v.args : v.args[i] \in Range(Top.got),
         functions' \in {functions, InsertInto(functions, insertion, Len(values) + 1)}
  PROVE  Effect(currentFunction)
<1> DEFINE n == Len(values)
<1>1. Extended(values, values') /\ NewOK(values, values', functions, Top.got)
  BY AppendedEffect
<1>2. IsBlock(functions, insertion) /\ insertion[1] = currentFunction
  BY TopFacts, EnteredFacts
<1>3. functions \in Seq(FunctionType(n)) /\ n \in Nat
  BY ValuesAreCounted DEF Shape
<1>4. functions \in Seq(FunctionType(n + 1)) /\ n + 1 \in 1 .. n + 1 /\ n + 1 > n /\ n + 1 \in Nat
  <2>1. n <= n + 1 /\ n + 1 \in Nat
    BY <1>3
  <2> QED  BY <1>3, <2>1, MoreValues
<1>5. ModuleGrows(functions, functions', n, currentFunction)
  <2>1. CASE functions' = functions
    BY <1>3, <2>1, SameModule
  <2>2. CASE functions' = InsertInto(functions, insertion, n + 1)
    BY <1>2, <1>3, <1>4, <2>2, InsertedOnly
  <2> QED  BY <2>1, <2>2
<1> QED  BY <1>1, <1>5 DEF Effect

LEMMA CheckedEffect ==
  ASSUME Shape, stack # <<>>, TopNode.kind \in ExpressionKinds,
         NEW v, EmitChecked(v), ArityOK(functions, v),
         \A i \in DOMAIN v.args : v.args[i] \in Range(Top.got)
  PROVE  Effect(currentFunction)
<1>1. CASE Halt("aborted")
  BY <1>1, SameEffect DEF Halt, module
<1>2. CASE Yield(v) \/ Emit(v)
  BY <1>2, ValueEffect DEF Yield, Emit
<1> QED  BY <1>1, <1>2 DEF EmitChecked

LEMMA GotInRange ==
  ASSUME Shape, stack # <<>>, NEW i \in 1 .. Len(Top.got)
  PROVE  Got(i) \in Range(Top.got)
BY TopFacts DEF Got, Range

LEMMA OperationEffects ==
  ASSUME Shape, Number \/ BinaryOperation \/ BuildCall \/ BuildBranch
  PROVE  Effect(currentFunction)
<1>1. CASE Number
  <2> DEFINE v == Constant("number", "double", <<Top.node>>)
  <2>1. /\ stack # <<>> /\ TopNode.kind \in ExpressionKinds
        /\ values' = Append(values, v) /\ functions' = functions
    BY <1>1 DEF Number, At, ExpressionKinds, Yield
  <2>2. v.op = "number" /\ v.args = <<>>
    BY DEF Constant, Value
  <2> HIDE DEF v
  <2>3. ArityOK(functions, v) /\ \A i \in DOMAIN v.args : v.args[i] \in Range(Top.got)
    BY <2>2 DEF ArityOK
  <2> QED  BY <2>1, <2>3, ValueEffect
<1>2. CASE BinaryOperation
  <2> DEFINE v == Operation(values, TopNode.name, Got(1), Got(2))
  <2>1. /\ stack # <<>> /\ TopNode.kind \in ExpressionKinds /\ Len(Top.got) = 2
        /\ TopNode.name \in Arithmetic \cup {"<"} /\ EmitChecked(v)
    BY <1>2 DEF BinaryOperation, At, ExpressionKinds
  <2>2. v.op = TopNode.name /\ v.args = <<Got(1), Got(2)>>
    BY DEF Operation, Value
  <2>3. Got(1) \in Range(Top.got) /\ Got(2) \in Range(Top.got)
    BY <2>1, GotInRange
  <2> HIDE DEF v
  <2>4. ArityOK(functions, v)
    BY <2>1, <2>2 DEF ArityOK, Arithmetic
  <2>5. \A i \in DOMAIN v.args : v.args[i] \in Range(Top.got)
    BY <2>2, <2>3
  <2> QED  BY <2>1, <2>4, <2>5, CheckedEffect
<1>3. CASE BuildCall
  <2> DEFINE v == CallOf(functions, Top.of[1], Top.got)
  <2>1. /\ stack # <<>> /\ TopNode.kind = "call" /\ TopNode.kind \in ExpressionKinds
        /\ Top.of # <<>> /\ Len(Top.got) = Len(TopNode.kids) /\ EmitChecked(v)
    BY <1>3 DEF BuildCall, InCall, At, ExpressionKinds
  <2>2. v.of = <<Top.of[1]>> /\ v.args = Top.got
    BY DEF CallOf, Instruction, Value
  <2>3. /\ Top.of[1] \in 1 .. Len(functions)
        /\ Len(functions[Top.of[1]].params) = Len(TopNode.kids)
    BY <2>1, TopFacts DEF FrameOK, TopNode
  <2> HIDE DEF v
  <2>4. v.of[1] = Top.of[1]
    BY <2>2
  <2>5. ArityOK(functions, v)
    BY <2>1, <2>2, <2>3, <2>4, Zenon DEF ArityOK
  <2>6. \A i \in DOMAIN v.args : v.args[i] \in Range(Top.got)
    BY <2>2, Zenon DEF Range
  <2> QED  BY <2>1, <2>5, <2>6, CheckedEffect
<1>4. CASE BuildBranch
  <2> DEFINE v == Branch(Got(3), Top.of)
  <2>1. /\ stack # <<>> /\ TopNode.kind \in ExpressionKinds /\ Len(Top.got) = 3
        /\ EmitChecked(v)
    BY <1>4 DEF BuildBranch, At, ExpressionKinds
  <2>2. v.op = "br" /\ v.args = <<Got(3)>>
    BY DEF Branch, Instruction, Value
  <2>3. Got(3) \in Range(Top.got)
    BY <2>1, GotInRange
  <2> HIDE DEF v
  <2>4. ArityOK(functions, v) /\ \A i \in DOMAIN v.args : v.args[i] \in Range(Top.got)
    BY <2>2, <2>3 DEF ArityOK
  <2> QED  BY <2>1, <2>4, CheckedEffect
<1> QED  BY <1>1, <1>2, <1>3, <1>4

LEMMA ConditionalEffects ==
  ASSUME Shape, BeginIf \/ BeginElse \/ BeginCondition
  PROVE  Effect(currentFunction)
<1> DEFINE n  == Len(values)
           cf == currentFunction
           fs == InsertInto(functions, insertion, n + 1)
<1>1. stack # <<>> /\ TopNode.kind = "cond" /\ TopNode.kind \in ExpressionKinds
  BY DEF BeginIf, BeginElse, BeginCondition, At, ExpressionKinds
<1>2. Entered(stack)
  BY <1>1, TopFacts
<1>3. /\ cf \in 1 .. Len(functions) /\ insertion[1] = cf /\ IsBlock(functions, insertion)
      /\ n \in Nat /\ functions \in Seq(FunctionType(n))
  BY <1>2, EnteredFacts, ValuesAreCounted DEF Shape
<1>4. CASE BeginIf
  <2>1. values' = values /\ functions' = AppendBlock(functions, cf)
    BY <1>4 DEF BeginIf, GenerateInto
  <2>2. ModuleGrows(functions, functions', n, cf)
    BY <1>3, <2>1, BlockedOnly
  <2>3. Extended(values, values') /\ NewOK(values, values', functions, Top.got)
    BY <1>3, <2>1 DEF Extended, NewOK
  <2> QED  BY <1>1, <2>2, <2>3 DEF Effect
<1>5. ASSUME NEW i \in 1 .. Len(Top.got), WithReturn(Got(i))
      PROVE  Extended(values, values') /\ NewOK(values, values', functions, Top.got)
  <2> DEFINE v == ReturnOf(<<Got(i)>>)
  <2>1. values' = Append(values, v)
    BY <1>5 DEF WithReturn
  <2>2. v.op = "ret" /\ v.args = <<Got(i)>>
    BY DEF ReturnOf, Instruction, Value
  <2>3. Got(i) \in Range(Top.got)
    BY <1>1, <1>5, GotInRange
  <2> HIDE DEF v
  <2>4. ArityOK(functions, v) /\ \A j \in DOMAIN v.args : v.args[j] \in Range(Top.got)
    BY <2>2, <2>3 DEF ArityOK
  <2> QED  BY <1>1, <2>1, <2>4, AppendedEffect
<1>6. /\ functions \in Seq(FunctionType(n + 1)) /\ n + 1 \in Nat
      /\ fs \in Seq(FunctionType(n + 1)) /\ Len(fs) = Len(functions)
      /\ ModuleGrows(functions, fs, n, cf)
  <2>1. n <= n + 1 /\ n + 1 \in Nat /\ n + 1 \in 1 .. n + 1 /\ n + 1 > n
    BY <1>3
  <2>2. functions \in Seq(FunctionType(n + 1))
    BY <1>3, <2>1, MoreValues
  <2>3. fs \in Seq(FunctionType(n + 1)) /\ Len(fs) = Len(functions)
    BY <1>3, <2>1, <2>2, Inserted
  <2>4. ModuleGrows(functions, fs, n, cf)
    BY <1>3, <2>1, <2>2, InsertedOnly
  <2> QED  BY <2>1, <2>2, <2>3, <2>4
<1>7. CASE BeginElse
  <2>1. /\ Len(Top.got) = 1 /\ WithReturn(Got(1)) /\ functions' = AppendBlock(fs, cf)
    BY <1>7 DEF BeginElse, At, GenerateInto
  <2> HIDE DEF fs
  <2>2. cf \in 1 .. Len(fs)
    BY <1>3, <1>6
  <2>3. ModuleGrows(fs, functions', n, cf) /\ functions' \in Seq(FunctionType(n + 1))
    BY <1>6, <2>1, <2>2, BlockedOnly, Blocked
  <2>4. ModuleGrows(functions, functions', n, cf)
    BY <1>6, <2>3, GrowsTwice
  <2>5. 1 \in 1 .. Len(Top.got)
    BY <2>1
  <2> QED  BY <1>1, <1>5, <2>1, <2>4, <2>5 DEF Effect
<1>8. CASE BeginCondition
  <2>1. /\ Len(Top.got) = 2 /\ WithReturn(Got(2)) /\ functions' = fs
    BY <1>8 DEF BeginCondition, At
  <2>2. 2 \in 1 .. Len(Top.got)
    BY <2>1
  <2> QED  BY <1>1, <1>5, <1>6, <2>1, <2>2 DEF Effect
<1> QED  BY <1>4, <1>7, <1>8

\* The parameters of a new function are no instructions.
LEMMA ParametersEffect ==
  ASSUME Shape, NEW proto \in DOMAIN nodes, BindParameters(proto), NEW got
  PROVE  /\ Extended(values, values') /\ NewOK(values, values', functions, got)
         /\ \A v \in 1 .. Len(values') : v > Len(values) =>
              values'[v].op = "param" /\ values'[v].of[1] = Len(functions) + 1
<1> DEFINE n == Len(values)
           k == Len(nodes[proto].kids)
<1>1. /\ n \in Nat /\ k \in Nat /\ Len(values') = n + k
      /\ \A v \in 1 .. n : values'[v] = values[v]
      /\ \A i \in 1 .. k : values'[n + i] =
           Instruction("param", TypesOf(proto)[i], <<>>, <<Len(functions) + 1, i>>)
  BY BoundFacts
<1>2. Extended(values, values')
  BY <1>1 DEF Extended
<1>3. ASSUME NEW v \in 1 .. Len(values'), v > n
      PROVE  /\ values'[v].op = "param" /\ values'[v].of[1] = Len(functions) + 1
             /\ values'[v].args = <<>>
  <2>1. v - n \in 1 .. k /\ v = n + (v - n)
    BY <1>1, <1>3
  <2>2. PICK i \in 1 .. k : v = n + i
    BY <2>1
  <2>3. values'[v] = Instruction("param", TypesOf(proto)[i], <<>>, <<Len(functions) + 1, i>>)
    BY <1>1, <2>2
  <2> DEFINE w == values'[v]
             of == <<Len(functions) + 1, i>>
  <2>4. of[1] = Len(functions) + 1
    OBVIOUS
  <2> HIDE DEF w, of
  <2>5. w.op = "param" /\ w.args = <<>> /\ w.of = of
    BY <2>3 DEF Instruction, Value, w, of
  <2> QED  BY <2>4, <2>5 DEF w
<1>4. DOMAIN <<>> = {}
  OBVIOUS
<1>5. \A v \in 1 .. Len(values') : v > n =>
        ArityOK(functions, values'[v]) /\ DOMAIN values'[v].args = {}
  BY <1>3, <1>4 DEF ArityOK
<1>6. NewOK(values, values', functions, got)
  <2> HIDE DEF n
  <2> QED  BY <1>5, Zenon DEF NewOK, n
<1> QED  BY <1>2, <1>3, <1>6

LEMMA PrototypeEffect == ASSUME Shape, Prototype PROVE \A c : Effect(c)
<1> SUFFICES ASSUME NEW c PROVE Effect(c)
  OBVIOUS
<1>1. stack # <<>> /\ BindParameters(Top.node) /\ functions' = Declared(Top.node)
  BY DEF Prototype, At
<1>2. Top.node \in DOMAIN nodes
  BY <1>1, TopFacts
<1>3. Extended(values, values') /\ NewOK(values, values', functions, Top.got)
  BY <1>1, <1>2, ParametersEffect
<1>4. Len(values) \in Nat
  BY ValuesAreCounted
<1>5. Len(values) <= Len(values)
  BY <1>4
<1>6. ModuleGrows(functions, functions', Len(values), c)
  BY <1>1, <1>2, <1>4, <1>5, DeclaredGrows
<1> QED  BY <1>1, <1>3, <1>6 DEF Effect

LEMMA BeginMotifEffects ==
  ASSUME Shape, BeginMotif \/ BeginKnownMotif
  PROVE  Effect(currentFunction')
<1> DEFINE n == Len(values)
<1>1. stack # <<>> /\ TopNode.kind = "motif"
  BY DEF BeginMotif, BeginKnownMotif, At
<1>2. n \in Nat /\ functions \in Seq(FunctionType(n))
  BY ValuesAreCounted DEF Shape
<1>3. CASE BeginMotif
  <2> DEFINE proto == TopNode.kids[1]
             fs    == Declared(proto)
             f     == Len(functions) + 1
             m     == Len(values')
  <2>1. BindParameters(proto) /\ functions' = AppendBlock(fs, f) /\ currentFunction' = f
    BY <1>3 DEF BeginMotif, EnterMotif
  <2>2. proto \in DOMAIN nodes
    <3>1. Top.node \in DOMAIN nodes
      BY <1>1, TopFacts
    <3>2. Len(TopNode.kids) \in {1, 2}
      BY <1>1, <3>1, NodeFacts DEF Shape, TopNode
    <3>3. 1 \in 1 .. Len(TopNode.kids)
      BY <3>2
    <3> QED  BY <3>1, <3>3, NodeFacts DEF Shape, TopNode
  <2>3. Extended(values, values') /\ NewOK(values, values', functions, Top.got)
    BY <2>1, <2>2, ParametersEffect
  <2>4. m \in Nat /\ n <= m
    <3>1. /\ n \in Nat /\ Len(nodes[proto].kids) \in Nat
          /\ Len(values') = n + Len(nodes[proto].kids)
      BY <2>1, <2>2, BoundFacts
    <3> QED  BY <3>1
  <2>5. /\ fs \in Seq(FunctionType(m)) /\ functions \in Seq(FunctionType(m))
        /\ Len(fs) = Len(functions) + 1 /\ Len(functions) \in Nat
    BY <2>2, <2>4, DeclaredFacts
  <2>6. ModuleGrows(functions, fs, n, f)
    BY <2>2, <2>4, DeclaredGrows
  <2>7. f \in 1 .. Len(fs)
    BY <2>5
  <2> HIDE DEF fs, f
  <2>8. ModuleGrows(fs, functions', n, f) /\ functions' \in Seq(FunctionType(m))
    BY <2>1, <2>4, <2>5, <2>7, BlockedOnly, Blocked
  <2>9. ModuleGrows(functions, functions', n, f)
    BY <2>5, <2>6, <2>8, GrowsTwice
  <2> QED  BY <1>1, <2>1, <2>3, <2>9 DEF Effect
<1>4. CASE BeginKnownMotif
  <2> DEFINE f == Named(functions, MotifName)
  <2>1. /\ values' = values /\ functions' = AppendBlock(functions, f) /\ currentFunction' = f
        /\ f # NoFunction
    BY <1>4 DEF BeginKnownMotif, EnterMotif
  <2>2. f \in 1 .. Len(functions)
    BY <1>2, <2>1, NamedFacts
  <2> HIDE DEF f
  <2>3. ModuleGrows(functions, functions', n, f)
    BY <1>2, <2>1, <2>2, BlockedOnly
  <2>4. Extended(values, values') /\ NewOK(values, values', functions, Top.got)
    BY <1>2, <2>1 DEF Extended, NewOK
  <2> QED  BY <1>1, <2>1, <2>3, <2>4 DEF Effect
<1> QED  BY <1>3, <1>4

LEMMA EpilogueEffect ==
  ASSUME Shape, stack # <<>>, values' = values \o Epilogue
  PROVE  NewOK(values, values', functions, Top.got)
<1> DEFINE n    == Len(values)
           zero == Constant("zero", "i32", <<>>)
           main == ReturnOf(<<n + 1>>)
           ret  == ReturnOf(Top.got)
           S    == Value_ \cup {zero, main, ret}
<1>1. n \in Nat /\ zero \in S /\ main \in S /\ ret \in S /\ values \in Seq(S)
  <2>1. values \in Seq(Value_)
    BY DEF Shape, ValuesOK
  <2>2. n \in Nat
    BY ValuesAreCounted
  <2>3. Value_ \subseteq S /\ zero \in S /\ main \in S /\ ret \in S
    OBVIOUS
  <2> HIDE DEF S
  <2> QED  BY <2>1, <2>2, <2>3, SeqMonotonic
<1>2. /\ zero.op = "zero" /\ zero.args = <<>>
      /\ main.op = "ret" /\ main.args = <<n + 1>>
      /\ ret.op = "ret" /\ ret.args = Top.got
  BY DEF Constant, ReturnOf, Instruction, Value
<1>3. Epilogue \in {<<zero, main>>, <<ret>>, <<>>}
  BY Zenon DEF Epilogue
<1> HIDE DEF S, zero, main, ret
<1>4. CASE Epilogue = <<>>
  <2>1. values' = values
    BY <1>1, <1>4, ConcatEmptySeq
  <2> QED  BY <1>1, <2>1 DEF NewOK
<1>5. CASE Epilogue = <<ret>>
  <2>1. values' = Append(values, ret)
    BY <1>1, <1>5
  <2>2. \A i \in DOMAIN ret.args : ret.args[i] \in Range(Top.got)
    BY <1>2, Zenon DEF Range
  <2>3. ArityOK(functions, ret)
    BY <1>2 DEF ArityOK
  <2> QED  BY <2>1, <2>2, <2>3, AppendedEffect
<1>6. CASE Epilogue = <<zero, main>>
  <2> DEFINE us == Append(values, zero)
             vs == Append(us, main)
  <2>1. values' = vs
    BY <1>1, <1>6
  <2>2. us \in Seq(S) /\ Len(us) = n + 1 /\ us[n + 1] = zero
    BY <1>1, AppendProperties
  <2> HIDE DEF us
  <2>3. /\ Len(vs) = n + 1 + 1 /\ vs[n + 1 + 1] = main
        /\ \A i \in 1 .. n + 1 : vs[i] = us[i]
    BY <1>1, <2>2, AppendProperties
  <2> HIDE DEF vs
  <2>4. vs[n + 1] = zero
    BY <1>1, <2>2, <2>3
  <2>5. \A v \in 1 .. Len(vs) : v > n => v = n + 1 \/ v = n + 1 + 1
    BY <1>1, <2>3
  <2>6. ArityOK(functions, zero) /\ ArityOK(functions, main) /\ DOMAIN zero.args = {}
    BY <1>2 DEF ArityOK
  <2>7. \A i \in DOMAIN main.args : main.args[i] = n + 1
    BY <1>1, <1>2
  <2>8. vs[n + 1].op # "param"
    BY <1>2, <2>4
  <2>9. \A v \in 1 .. Len(vs) : v > n =>
          /\ ArityOK(functions, vs[v])
          /\ \A i \in DOMAIN vs[v].args : vs[vs[v].args[i]].op # "param"
    BY <2>3, <2>4, <2>5, <2>6, <2>7, <2>8, Zenon
  <2> HIDE DEF n
  <2> QED  BY <2>1, <2>9, Zenon DEF NewOK, n
<1> QED  BY <1>3, <1>4, <1>5, <1>6

LEMMA EndMotifEffect ==
  ASSUME Shape, EndMotif
  PROVE  Effect(currentFunction)
<1> DEFINE n  == Len(values)
           vs == values \o Epilogue
           m  == Len(vs)
           fs == IF Epilogue = <<>> THEN functions ELSE InsertInto(functions, Top.of, m)
<1>1. /\ stack # <<>> /\ TopNode.kind = "motif" /\ TopNode.kind \notin ExpressionKinds
      /\ Top.of # <<>> /\ Len(Top.got) \in {0, 1}
  BY DEF EndMotif, At, ExpressionKinds
<1>2. CASE Halt("aborted")
  BY <1>2, SameEffect DEF Halt, module
<1>3. CASE values' = vs /\ functions' = fs
  <2>1. /\ n \in Nat /\ m \in Nat /\ n <= m /\ (Epilogue # <<>> => n < m)
        /\ \A v \in 1 .. n : vs[v] = values[v]
    BY <1>1, EpilogueValues
  <2>2. Extended(values, values')
    <3> HIDE DEF vs
    <3> QED  BY <1>3, <2>1 DEF Extended
  <2>3. NewOK(values, values', functions, Top.got)
    BY <1>1, <1>3, EpilogueEffect
  <2>4. IsBlock(functions, Top.of) /\ functions \in Seq(FunctionType(n))
    BY <1>1, TopFacts DEF FrameOK, TopNode, Shape
  <2>5. functions \in Seq(FunctionType(m))
    <3> HIDE DEF m
    <3> QED  BY <2>1, <2>4, MoreValues
  <2>6. Top.of[1] = currentFunction
    <3>1. Entered(stack) /\ Top = stack[1]
      BY <1>1, TopFacts DEF Entered
    <3> QED  BY <3>1, EnteredFacts
  <2>7. ModuleGrows(functions, fs, n, Top.of[1])
    <3>1. CASE Epilogue = <<>>
      BY <2>4, <3>1, SameModule
    <3>2. CASE Epilogue # <<>>
      <4>1. m \in 1 .. m /\ m > n
        BY <2>1, <3>2
      <4>2. ModuleGrows(functions, InsertInto(functions, Top.of, m), n, Top.of[1])
        <5> HIDE DEF m
        <5> QED  BY <2>1, <2>4, <2>5, <4>1, InsertedOnly
      <4> QED  BY <3>2, <4>2
    <3> QED  BY <3>1, <3>2
  <2> QED  BY <1>1, <1>3, <2>2, <2>3, <2>6, <2>7 DEF Effect
<1>4. Halt("aborted") \/ (values' = vs /\ functions' = fs)
  BY Zenon DEF EndMotif
<1> QED  BY <1>2, <1>3, <1>4

\* The steps that leave the module alone.
SameModuleSteps ==
  \/ Generate \/ Variable \/ UnknownVariable \/ Operand \/ UnknownOperator
  \/ BeginCall \/ Argument \/ UNCHANGED vars

LEMMA QuietSteps == ASSUME SameModuleSteps PROVE values' = values /\ functions' = functions
BY DEF SameModuleSteps, Generate, BeginTree, Write, Variable, UnknownVariable, Operand,
   UnknownOperator, BeginCall, Argument, Halt, vars, module

\* The steps that give an instruction, or a block, to the current function.
MotifSteps ==
  \/ Number \/ BinaryOperation \/ BuildCall \/ BuildBranch
  \/ BeginIf \/ BeginElse \/ BeginCondition \/ EndMotif

LEMMA Steps ==
  ASSUME [Next]_vars
  PROVE  SameModuleSteps \/ MotifSteps \/ Prototype \/ BeginMotif \/ BeginKnownMotif
BY DEF Next, GetValue, Ended, SameModuleSteps, MotifSteps

LEMMA StepEffect ==
  ASSUME Shape, [Next]_vars
  PROVE  \E c \in {currentFunction, currentFunction'} : Effect(c)
<1>1. CASE SameModuleSteps
  BY <1>1, QuietSteps, SameEffect
<1>2. CASE MotifSteps
  BY <1>2, OperationEffects, ConditionalEffects, EndMotifEffect DEF MotifSteps
<1>3. CASE Prototype
  BY <1>3, PrototypeEffect
<1>4. CASE BeginMotif \/ BeginKnownMotif
  BY <1>4, BeginMotifEffects
<1> QED  BY <1>1, <1>2, <1>3, <1>4, Steps

-----------------------------------------------------------------------------
(* Calls *)

CallsOK(fs, vs) ==
  \A v \in 1 .. Len(vs) :
    /\ vs[v].op = "call" => vs[v].of[1] \in 1 .. Len(fs)
    /\ v > 5 => ArityOK(fs, vs[v])

\* The first five values are those of the library.
LibraryOK(fs, vs) ==
  /\ Len(vs) >= 5
  /\ \A f \in 1 .. Len(fs) : f # PrintFunction => \A v \in Nat : InBlocks(fs, f, v) => v > 5

LEMMA CallsInit == ASSUME Init PROVE CallsOK(functions, values) /\ LibraryOK(functions, values)
<1>1. values = StdValues /\ functions = StdFunctions
  BY DEF Init, Fresh
<1>2. Len(values) = 5 /\ Len(functions) = 2
  BY <1>1, StdValuesOK, StdFunctionsOK
<1>3. \A v \in 1 .. 5 : v = 1 \/ v = 2 \/ v = 3 \/ v = 4 \/ v = 5
  OBVIOUS
<1>4. /\ values[1].op = "param" /\ values[2].op = "param" /\ values[3].op = "format"
      /\ values[5].op = "ret" /\ values[4].of[1] = 1
  <2>1. values[1].op = "param" /\ values[2].op = "param"
    BY <1>1, StdValuesOK DEF Instruction, Value
  <2>2. values[3].op = "format"
    BY <1>1, StdValuesOK DEF Constant, Value
  <2>3. values[5].op = "ret"
    BY <1>1, StdValuesOK DEF ReturnOf, Instruction, Value
  <2>4. values[4].of[1] = 1
    BY <1>1, StdValuesOK DEF CallOf, Instruction, Value, Printf
  <2> QED  BY <2>1, <2>2, <2>3, <2>4
<1>5. CallsOK(functions, values)
  BY <1>2, <1>3, <1>4 DEF CallsOK
<1>6. LibraryOK(functions, values)
  <2>1. \A f \in 1 .. 2 : f # PrintFunction => f = 1
    BY DEF PrintFunction
  <2>2. functions[1].blocks = <<>>
    BY <1>1, StdFunctionsOK
  <2>3. DOMAIN <<>> = {}
    OBVIOUS
  <2>4. \A f \in 1 .. 2 : f # PrintFunction => \A v \in Nat : ~ InBlocks(functions, f, v)
    BY <2>1, <2>2, <2>3, Zenon DEF InBlocks
  <2> QED  BY <1>2, <2>4 DEF LibraryOK
<1> QED  BY <1>5, <1>6

LEMMA ArityStays ==
  ASSUME NEW n, NEW fs \in Seq(FunctionType(n)), NEW gs, Grown(fs, gs), NEW value, ArityOK(fs, value)
  PROVE  ArityOK(gs, value)
BY BlocksStay DEF ArityOK

LEMMA CallsStay ==
  ASSUME Shape, Shape', NEW c, Effect(c),
         CallsOK(functions, values), LibraryOK(functions, values)
  PROVE  CallsOK(functions', values') /\ LibraryOK(functions', values')
<1> DEFINE n == Len(values)
<1>1. n \in Nat /\ functions \in Seq(FunctionType(n)) /\ Grown(functions, functions')
  BY ValuesAreCounted DEF Shape, Effect, ModuleGrows
<1>2. n <= Len(values') /\ \A v \in 1 .. n : values'[v] = values[v]
  BY DEF Effect, Extended
<1>3. \A v \in 1 .. Len(values') : v > n => ArityOK(functions, values'[v])
  BY Zenon DEF Effect, NewOK
<1>4. \A v \in 1 .. Len(values') : v \in 1 .. n \/ v > n
  BY <1>1
<1>5. n >= 5
  BY DEF LibraryOK
<1>6. ASSUME NEW v \in 1 .. Len(values')
      PROVE  /\ values'[v].op = "call" => values'[v].of[1] \in 1 .. Len(functions')
             /\ v > 5 => ArityOK(functions', values'[v])
  <2>1. CASE v \in 1 .. n
    <3>1. values'[v] = values[v]
      BY <1>2, <2>1
    <3>2. /\ values[v].op = "call" => values[v].of[1] \in 1 .. Len(functions)
          /\ v > 5 => ArityOK(functions, values[v])
      BY <2>1 DEF CallsOK
    <3>3. values[v].op = "call" => values[v].of[1] \in 1 .. Len(functions')
      BY <1>1, <3>2, BlocksStay
    <3>4. v > 5 => ArityOK(functions', values[v])
      BY <1>1, <3>2, ArityStays
    <3> QED  BY <3>1, <3>3, <3>4, Zenon
  <2>2. CASE v > n
    <3>1. ArityOK(functions, values'[v])
      BY <1>3, <2>2
    <3>2. ArityOK(functions', values'[v])
      BY <1>1, <3>1, ArityStays
    <3> QED  BY <3>2 DEF ArityOK
  <2> QED  BY <1>4, <2>1, <2>2
<1>7. CallsOK(functions', values')
  BY <1>6, Zenon DEF CallsOK
<1>8. \A f \in 1 .. Len(functions') : f # PrintFunction =>
        \A v \in Nat : InBlocks(functions', f, v) => v > 5
  <2> SUFFICES ASSUME NEW f \in 1 .. Len(functions'), f # PrintFunction,
                      NEW v \in Nat, InBlocks(functions', f, v)
               PROVE  v > 5
    OBVIOUS
  <2>1. (f \in 1 .. Len(functions) /\ InBlocks(functions, f, v)) \/ v > n
    BY Zenon DEF Effect, ModuleGrows
  <2>2. CASE f \in 1 .. Len(functions) /\ InBlocks(functions, f, v)
    BY <2>2 DEF LibraryOK
  <2>3. CASE v > n
    BY <1>1, <1>5, <2>3
  <2> QED  BY <2>1, <2>2, <2>3
<1>9. Len(values') >= 5
  <2>1. Len(values') \in Nat
    BY LenProperties DEF Shape, ValuesOK
  <2> QED  BY <1>1, <1>2, <1>5, <2>1
<1> QED  BY <1>7, <1>8, <1>9 DEF LibraryOK

(* What a block contains is a value. *)
LEMMA InstructionFacts ==
  ASSUME Shape, NEW f \in DOMAIN functions, NEW v \in Instructions(f)
  PROVE  f \in 1 .. Len(functions) /\ v \in 1 .. Len(values) /\ InBlocks(functions, f, v)
<1>1. f \in 1 .. Len(functions)
  BY LenProperties DEF Shape
<1>2. PICK b \in DOMAIN functions[f].blocks : v \in Range(functions[f].blocks[b])
  BY Zenon DEF Instructions
<1>3. functions[f].blocks[b] \in Seq(1 .. Len(values))
  BY <1>1, BlockFacts DEF Shape
<1>4. PICK i \in DOMAIN functions[f].blocks[b] : functions[f].blocks[b][i] = v
  BY <1>2, Zenon DEF Range
<1>5. v \in 1 .. Len(values)
  BY <1>3, <1>4, ElementOfSeq
<1> QED  BY <1>1, <1>4, <1>5, Zenon DEF InBlocks

CallsInv == Shape /\ CallsOK(functions, values) /\ LibraryOK(functions, values)

LEMMA CallsInvariant == Spec => []CallsInv
<1>1. Init => CallsInv
  BY ShapeInit, CallsInit DEF CallsInv
<1>2. CallsInv /\ [Next]_vars => CallsInv'
  BY ShapeStays, StepEffect, CallsStay DEF CallsInv
<1> QED  BY <1>1, <1>2, PTL DEF Spec

(* Every call that the generator builds has as many arguments as its       *)
(* callee has parameters, whatever is generated between BeginCall, which   *)
(* compares the numbers, and BuildCall.                                    *)
THEOREM ArityCorrect == Spec => []ArityRespected
<1>1. CallsInv => ArityRespected
  <2> SUFFICES ASSUME CallsInv, NEW f \in DOMAIN functions \ {PrintFunction},
                      NEW v \in Instructions(f), values[v].op = "call"
               PROVE  Len(values[v].args) = Len(functions[values[v].of[1]].params)
    BY DEF ArityRespected
  <2>1. f \in 1 .. Len(functions) /\ v \in 1 .. Len(values) /\ InBlocks(functions, f, v)
    BY InstructionFacts DEF CallsInv
  <2>2. v \in Nat
    BY <2>1
  <2>3. v > 5
    BY <2>1, <2>2, Zenon DEF CallsInv, LibraryOK
  <2> QED  BY <2>1, <2>3 DEF CallsInv, CallsOK, ArityOK
<1> QED  BY <1>1, CallsInvariant, PTL

-----------------------------------------------------------------------------
(* Verified functions *)

\* A verified function stays verified when the module grows around it.
LEMMA VerifiedStays ==
  ASSUME NEW vs, ValuesOK(vs), NEW ws, Extended(vs, ws),
         NEW fs \in Seq(FunctionType(Len(vs))), NEW gs, Grown(fs, gs), CallsOK(fs, vs),
         NEW f \in 1 .. Len(fs), gs[f] = fs[f], Verified(fs, vs, f)
  PROVE  Verified(gs, ws, f)
<1>1. PICK n \in Nat : n = Len(vs) /\ DOMAIN vs = 1 .. n
  BY LenProperties DEF ValuesOK
<1>2. \A v \in 1 .. n : ws[v] = vs[v]
  BY <1>1 DEF Extended
<1>3. \A v \in 1 .. n : \A i \in DOMAIN vs[v].args : vs[v].args[i] \in 1 .. n
  <2>1. \A v \in 1 .. n : 1 .. v - 1 \subseteq 1 .. n
    BY <1>1
  <2> QED  BY <1>1, <2>1, Zenon DEF ValuesOK, Older
<1>4. ASSUME NEW v \in 1 .. n, InstructionVerified(fs, vs, f, vs[v])
      PROVE  InstructionVerified(gs, ws, f, vs[v])
  <2> DEFINE value == vs[v]
  <2>1. \A i \in DOMAIN value.args : ws[value.args[i]] = vs[value.args[i]]
    BY <1>2, <1>3
  <2>2. [i \in DOMAIN value.args |-> ws[value.args[i]].type]
          = [i \in DOMAIN value.args |-> vs[value.args[i]].type]
    BY <2>1
  <2>3. value.op = "call" =>
          /\ gs[value.of[1]].params = fs[value.of[1]].params
          /\ gs[value.of[1]].vararg = fs[value.of[1]].vararg
    <3>1. value.op = "call" => value.of[1] \in 1 .. Len(fs)
      BY <1>1 DEF CallsOK
    <3> QED  BY <3>1 DEF Grown
  <2> HIDE DEF value
  <2>4. WellTyped(gs, ws, value)
    <3>1. WellTyped(fs, vs, value)
      BY <1>4 DEF InstructionVerified, value
    <3>2. CASE value.op = "call"
      <4>1. value.op # "br" /\ value.op \notin Arithmetic \cup {"<"}
        BY <3>2 DEF Arithmetic
      <4> QED  BY <2>2, <2>3, <3>1, <3>2, <4>1 DEF WellTyped
    <3>3. CASE value.op # "call"
      BY <2>2, <3>1, <3>3 DEF WellTyped
    <3> QED  BY <3>2, <3>3
  <2>5. OwnParameters(ws, f, value)
    BY <1>4, <2>1 DEF InstructionVerified, OwnParameters, value
  <2>6. ReturnsResult(gs, ws, f, value)
    <3>1. ReturnsResult(fs, vs, f, value) /\ value.args \in Seq(Nat)
      <4>1. value \in Value_
        BY <1>1, ElementOfSeq, Zenon DEF ValuesOK, value
      <4> QED  BY <1>4, <4>1 DEF InstructionVerified, value, Value_
    <3>2. value.args # <<>> => 1 \in DOMAIN value.args
      BY <3>1
    <3> QED  BY <2>1, <3>1, <3>2 DEF ReturnsResult
  <2> QED  BY <2>4, <2>5, <2>6 DEF InstructionVerified, value
<1>5. ASSUME NEW b \in DOMAIN fs[f].blocks PROVE BlockVerified(gs, ws, f, fs[f].blocks[b])
  <2> DEFINE block == fs[f].blocks[b]
  <2>1. BlockVerified(fs, vs, f, block)
    BY <1>5 DEF Verified
  <2>2. block \in Seq(1 .. n)
    BY <1>1, BlockFacts
  <2>3. \A i \in DOMAIN block : block[i] \in 1 .. n
    BY <2>2, ElementOfSeq
  <2> HIDE DEF block
  <2>4. \A i \in DOMAIN block : ws[block[i]] = vs[block[i]]
    BY <1>2, <2>3
  <2>5. \A i \in DOMAIN block : InstructionVerified(gs, ws, f, ws[block[i]])
    <3>1. \A i \in DOMAIN block : InstructionVerified(fs, vs, f, vs[block[i]])
      BY <2>1, Zenon DEF BlockVerified
    <3> QED  BY <1>4, <2>3, <2>4, <3>1, Zenon
  <2>6. \A i \in DOMAIN block : ws[block[i]].op = vs[block[i]].op
    BY <2>4, Zenon
  <2>7. BlockVerified(gs, ws, f, block)
    <3>1. \A i \in DOMAIN block : vs[block[i]].op \in Terminators <=> i = Len(block)
      BY <2>1, Zenon DEF BlockVerified
    <3>2. \A i \in DOMAIN block : ws[block[i]].op \in Terminators <=> i = Len(block)
      BY <2>6, <3>1, Zenon
    <3> QED  BY <2>1, <2>5, <3>2, Zenon DEF BlockVerified
  <2> QED  BY <2>7 DEF block
<1> QED  BY <1>5, Zenon DEF Verified

\* A motif is entered, or the one that was is done.
LEMMA FunctionChanges ==
  ASSUME [Next]_vars, currentFunction' # currentFunction
  PROVE  BeginMotif \/ BeginKnownMotif \/ (EndMotif /\ ~ Halt("aborted"))
<1>1. CASE SameModuleSteps
  BY <1>1 DEF SameModuleSteps, Generate, BeginTree, Write, Variable, UnknownVariable, Operand,
     UnknownOperator, BeginCall, Argument, Halt, vars, fields
<1>2. CASE Number \/ BinaryOperation \/ BuildCall \/ BuildBranch
  BY <1>2, Zenon DEF Number, BinaryOperation, BuildCall, BuildBranch, EmitChecked, Emit, Yield,
     Halt, fields
<1>3. CASE BeginIf \/ BeginElse \/ BeginCondition
  BY <1>3, Zenon DEF BeginIf, BeginElse, BeginCondition, GenerateInto, fields
<1>4. CASE Prototype
  BY <1>4 DEF Prototype
<1>5. CASE EndMotif
  BY <1>5 DEF Halt, fields
<1> QED  BY <1>1, <1>2, <1>3, <1>4, <1>5, Steps DEF MotifSteps

\* A function is left at the end of its motif only, verified.
LEMMA LeftVerified ==
  ASSUME Shape, [Next]_vars, currentFunction' # currentFunction,
         currentFunction \in 1 .. Len(functions)
  PROVE  Verified(functions', values', currentFunction)
<1>1. CASE EndMotif /\ ~ Halt("aborted")
  <2>1. /\ stack # <<>> /\ TopNode.kind \notin ExpressionKinds /\ Top.of # <<>>
    BY <1>1 DEF EndMotif, At, ExpressionKinds
  <2>2. Top.of[1] = currentFunction
    <3>1. Entered(stack) /\ Top = stack[1]
      BY <2>1, TopFacts DEF Entered
    <3> QED  BY <3>1, EnteredFacts
  <2>3. Verified(functions', values', Top.of[1])
    BY <1>1, Zenon DEF EndMotif
  <2> QED  BY <2>2, <2>3
<1>2. CASE BeginMotif \/ BeginKnownMotif
  <2>1. stack # <<>> /\ TopNode.kind \notin ExpressionKinds /\ Top.of = <<>>
    BY <1>2 DEF BeginMotif, BeginKnownMotif, At, ExpressionKinds
  <2>2. ~ Entered(stack)
    BY <2>1, TopFacts DEF Entered
  <2>3. currentFunction = 0
    BY <2>2, NotEntered DEF NoFunction
  <2> QED  BY <2>3
<1> QED  BY <1>1, <1>2, FunctionChanges

LEMMA LibraryVerified == \A f \in DOMAIN StdFunctions : Verified(StdFunctions, StdValues, f)
<1>1. DOMAIN StdFunctions = 1 .. 2
  BY StdFunctionsOK, LenProperties
<1>2. Verified(StdFunctions, StdValues, 1)
  <2>1. StdFunctions[1].blocks = <<>> /\ DOMAIN <<>> = {}
    BY StdFunctionsOK
  <2> QED  BY <2>1, Zenon DEF Verified
<1>3. /\ StdValues[2].op = "param" /\ StdValues[2].type = "double" /\ StdValues[2].of[1] = 2
      /\ StdValues[3].op = "format" /\ StdValues[3].type = "i8*"
  BY StdValuesOK DEF Instruction, Constant, Value
<1>4. /\ StdValues[4].op = "call" /\ StdValues[4].args = <<3, 2>> /\ StdValues[4].of[1] = 1
  BY StdValuesOK DEF CallOf, Instruction, Value, Printf
<1>5. StdValues[5].op = "ret" /\ StdValues[5].args = <<>>
  BY StdValuesOK DEF ReturnOf, Instruction, Value
<1>6. InstructionVerified(StdFunctions, StdValues, 2, StdValues[4])
  <2> DEFINE v    == StdValues[4]
             type == [i \in DOMAIN v.args |-> StdValues[v.args[i]].type]
  <2>1. type = <<"i8*", "double">>
    BY <1>3, <1>4
  <2>2. StdFunctions[1].vararg /\ StdFunctions[1].params = <<"i8*">>
    <3>1. PrintfDeclaration.vararg = TRUE /\ PrintfDeclaration.params = <<"i8*">>
      BY Zenon DEF PrintfDeclaration, Function
    <3> QED  BY <3>1, StdFunctionsOK
  <2>3. IsPrefix(<<"i8*">>, <<"i8*", "double">>)
    BY DEF IsPrefix
  <2>4. v.op \notin Arithmetic \cup {"<"} /\ v.op # "br"
    BY <1>4 DEF Arithmetic
  <2>5. WellTyped(StdFunctions, StdValues, v)
    <3> HIDE DEF v
    <3> QED  BY <1>4, <2>1, <2>2, <2>3, <2>4 DEF WellTyped, v
  <2>6. OwnParameters(StdValues, 2, v)
    BY <1>3, <1>4 DEF OwnParameters
  <2>7. ReturnsResult(StdFunctions, StdValues, 2, v)
    BY <1>4 DEF ReturnsResult
  <2> QED  BY <2>5, <2>6, <2>7 DEF InstructionVerified
<1>7. InstructionVerified(StdFunctions, StdValues, 2, StdValues[5])
  <2>1. WellTyped(StdFunctions, StdValues, StdValues[5])
    <3>1. "ret" \notin Arithmetic \cup {"<"}
      BY DEF Arithmetic
    <3> QED  BY <1>5, <3>1 DEF WellTyped
  <2>2. OwnParameters(StdValues, 2, StdValues[5])
    BY <1>5 DEF OwnParameters
  <2>3. StdFunctions[2].result = "void"
    <3>1. PrintDefinition.result = "void"
      BY DEF PrintDefinition, Function
    <3> QED  BY <3>1, StdFunctionsOK
  <2>4. ReturnsResult(StdFunctions, StdValues, 2, StdValues[5])
    BY <1>5, <2>3 DEF ReturnsResult
  <2> QED  BY <2>1, <2>2, <2>4 DEF InstructionVerified
<1>8. BlockVerified(StdFunctions, StdValues, 2, <<4, 5>>)
  <2> DEFINE block == <<4, 5>>
  <2>1. /\ block # <<>> /\ Len(block) = 2 /\ DOMAIN block = {1, 2}
        /\ block[1] = 4 /\ block[2] = 5
    OBVIOUS
  <2> HIDE DEF block
  <2>2. StdValues[block[1]].op \notin Terminators /\ StdValues[block[2]].op \in Terminators
    BY <1>4, <1>5, <2>1 DEF Terminators
  <2>3. \A i \in DOMAIN block :
          /\ StdValues[block[i]].op \in Terminators <=> i = Len(block)
          /\ InstructionVerified(StdFunctions, StdValues, 2, StdValues[block[i]])
    BY <1>6, <1>7, <2>1, <2>2
  <2>4. BlockVerified(StdFunctions, StdValues, 2, block)
    BY <2>1, <2>3, Zenon DEF BlockVerified
  <2> QED  BY <2>4 DEF block
<1>9. Verified(StdFunctions, StdValues, 2)
  <2>1. StdFunctions[2].blocks = << <<4, 5>> >>
    BY StdFunctionsOK
  <2>2. \A b \in DOMAIN << <<4, 5>> >> : << <<4, 5>> >>[b] = <<4, 5>>
    OBVIOUS
  <2> QED  BY <1>8, <2>1, <2>2, Zenon DEF Verified
<1> QED  BY <1>1, <1>2, <1>9

\* Only the function that is being generated may be incomplete.
VerifiedBut(fs, vs, c) == \A f \in 1 .. Len(fs) : f # c => Verified(fs, vs, f)

CleanInv == CallsInv /\ VerifiedBut(functions, values, currentFunction)

LEMMA CleanInit == ASSUME Init PROVE CleanInv
<1>1. CallsInv
  BY ShapeInit, CallsInit DEF CallsInv
<1>2. values = StdValues /\ functions = StdFunctions
  BY DEF Init, Fresh
<1>3. \A f \in 1 .. Len(functions) : f \in DOMAIN functions
  BY <1>1, LenProperties DEF CallsInv, Shape
<1> QED  BY <1>1, <1>2, <1>3, LibraryVerified DEF CleanInv, VerifiedBut

LEMMA CleanStays == ASSUME CleanInv, [Next]_vars PROVE CleanInv'
<1>1. Shape /\ Shape' /\ CallsInv' /\ CallsOK(functions, values)
  BY ShapeStays, StepEffect, CallsStay DEF CleanInv, CallsInv
<1>2. PICK c \in {currentFunction, currentFunction'} : Effect(c)
  BY <1>1, StepEffect
<1>3. /\ ValuesOK(values) /\ functions \in Seq(FunctionType(Len(values)))
      /\ Extended(values, values') /\ Grown(functions, functions')
  BY <1>1, <1>2 DEF Shape, Effect, ModuleGrows
<1>4. ASSUME NEW f \in 1 .. Len(functions'), f # currentFunction'
      PROVE  Verified(functions', values', f)
  <2>1. CASE f \notin 1 .. Len(functions)
    <3>1. f # currentFunction
      <4>1. CASE Entered(stack)
        BY <1>1, <2>1, <4>1, EnteredFacts
      <4>2. CASE ~ Entered(stack)
        BY <1>1, <4>2, NotEntered DEF NoFunction
      <4> QED  BY <4>1, <4>2
    <3>2. functions'[f].blocks = <<>> /\ DOMAIN <<>> = {}
      BY <1>2, <1>4, <2>1, <3>1 DEF Effect, ModuleGrows
    <3> QED  BY <3>2, Zenon DEF Verified
  <2>2. CASE f \in 1 .. Len(functions) /\ f = currentFunction
    BY <1>1, <1>4, <2>2, LeftVerified
  <2>3. CASE f \in 1 .. Len(functions) /\ f # currentFunction
    <3>1. Verified(functions, values, f)
      BY <2>3 DEF CleanInv, VerifiedBut
    <3>2. functions'[f] = functions[f]
      BY <1>2, <1>4, <2>3 DEF Effect, ModuleGrows
    <3> QED  BY <1>1, <1>3, <2>3, <3>1, <3>2, VerifiedStays
  <2> QED  BY <2>1, <2>2, <2>3
<1> QED  BY <1>1, <1>4 DEF CleanInv, VerifiedBut

(* Every function that was verified stays so: between two trees there is   *)
(* nothing LLVM could refuse, whatever program the trees are of, and no    *)
(* field remembers what the tree before it has set.                        *)
THEOREM CleanCorrect == Spec => []CleanBetweenTrees
<1>1. CleanInv => CleanBetweenTrees
  <2> SUFFICES ASSUME CleanInv, Between PROVE CleanBetweenTrees!2
    BY DEF CleanBetweenTrees
  <2>1. Shape /\ stack = <<>>
    BY DEF CleanInv, CallsInv, Between
  <2>2. currentFunction = NoFunction /\ currentBB = <<>> /\ shouldReturn = TRUE
    BY <2>1, NotEntered DEF Entered
  <2>3. \A f \in DOMAIN functions : f \in 1 .. Len(functions) /\ f # 0
    BY <2>1, LenProperties DEF Shape
  <2>4. \A f \in DOMAIN functions : Verified(functions, values, f)
    BY <2>2, <2>3 DEF CleanInv, VerifiedBut, NoFunction
  <2> QED  BY <2>2, <2>4
<1>2. Spec => []CleanInv
  BY CleanInit, CleanStays, PTL DEF Spec
<1> QED  BY <1>1, <1>2, PTL

-----------------------------------------------------------------------------
(* Whose parameters an instruction may use.  namedValues is bound where a  *)
(* function is declared and nowhere else, so it always names parameters of *)
(* the last function of the module (Mine).  A motif that declares its name *)
(* is that function; one that does not is an older one, which has a block  *)
(* already or was declared without any (Home).  New instructions go to the *)
(* function of the motif and use what its calls of getValue returned,      *)
(* which is Mine (GotsMine).                                               *)

\* Every value that a call in progress has got is in G.
GotIn(s, G) == \A k \in 1 .. Len(s) : \A i \in DOMAIN s[k].got : s[k].got[i] \in G

LEMMA GotInVisited ==
  ASSUME NEW S, NEW s \in Seq(S), NEW kid, NEW G, GotIn(s, G)
  PROVE  GotIn(Append(s, Frame(kid)), G)
<1> DEFINE f == Frame(kid)
           T == S \cup {f}
           t == Append(s, f)
<1>1. f \in T /\ s \in Seq(T)
  <2>1. S \subseteq T /\ f \in T
    OBVIOUS
  <2> HIDE DEF T, f
  <2> QED  BY <2>1, SeqMonotonic
<1>2. f.got = <<>> /\ DOMAIN <<>> = {}
  BY DEF Frame
<1> HIDE DEF f, T
<1>3. PICK k \in Nat : k = Len(s)
  BY LenProperties
<1>4. Len(t) = k + 1 /\ t[k + 1] = f /\ \A i \in 1 .. k : t[i] = s[i]
  BY <1>1, <1>3, AppendProperties
<1> HIDE DEF t
<1>5. \A j \in 1 .. k + 1 : j \in 1 .. k \/ j = k + 1
  BY <1>3
<1>6. \A j \in 1 .. k : \A i \in DOMAIN t[j].got : t[j].got[i] \in G
  BY <1>3, <1>4 DEF GotIn
<1>7. \A i \in DOMAIN t[k + 1].got : t[k + 1].got[i] \in G
  BY <1>2, <1>4, Zenon
<1>8. GotIn(t, G)
  BY <1>4, <1>5, <1>6, <1>7, Zenon DEF GotIn
<1> QED  BY <1>8 DEF t, f

LEMMA GotInReplaced ==
  ASSUME NEW S, NEW s \in Seq(S), s # <<>>, NEW G, GotIn(s, G),
         NEW f \in S, \A i \in DOMAIN f.got : f.got[i] \in G
  PROVE  GotIn(Replace(s, f), G)
<1> DEFINE t == Replace(s, f)
<1>1. PICK k \in Nat \ {0} : k = Len(s)
  BY EmptySeq
<1>2. Len(t) = k /\ t[k] = f /\ \A i \in 1 .. k - 1 : t[i] = s[i]
  <2>1. /\ Len(t) = Len(s) /\ t[Len(s)] = f
        /\ \A i \in 1 .. Len(s) - 1 : t[i] = s[i]
    BY Replaced
  <2> HIDE DEF t
  <2> QED  BY <1>1, <2>1
<1> HIDE DEF t
<1>3. \A j \in 1 .. k : (j \in 1 .. k - 1 /\ j \in 1 .. Len(s)) \/ j = k
  BY <1>1
<1>4. \A j \in 1 .. k - 1 : j \in 1 .. Len(s)
  BY <1>1
<1>5. \A j \in 1 .. k - 1 : \A i \in DOMAIN t[j].got : t[j].got[i] \in G
  BY <1>2, <1>4, Zenon DEF GotIn
<1>6. \A i \in DOMAIN t[k].got : t[k].got[i] \in G
  BY <1>2, Zenon
<1>7. GotIn(t, G)
  BY <1>2, <1>3, <1>5, <1>6, Zenon DEF GotIn
<1> QED  BY <1>7 DEF t

LEMMA TopGot ==
  ASSUME Shape, stack # <<>>, NEW G, GotIn(stack, G)
  PROVE  \A i \in DOMAIN Top.got : Top.got[i] \in G
<1>1. stack \in Seq(FrameType(nodes, Len(values)))
  BY DEF Shape, StackOK
<1>2. Len(stack) \in 1 .. Len(stack) /\ Top = stack[Len(stack)]
  BY <1>1, TopFacts, EmptySeq
<1> QED  BY <1>2, Zenon DEF GotIn

LEMMA GotInWith ==
  ASSUME Shape, stack # <<>>, NEW of \in Seq(Nat), NEW G, GotIn(stack, G)
  PROVE  /\ GotIn(With(of), G)
         /\ With(of) \in Seq(FrameType(nodes, Len(values)))
<1> DEFINE F == FrameType(nodes, Len(values))
           f == [Top EXCEPT !.of = of]
<1>1. stack \in Seq(F)
  BY DEF Shape, StackOK
<1>2. f \in F /\ f.got = Top.got
  <2> DEFINE e == Top
  <2>1. e \in F
    BY TopFacts
  <2> HIDE DEF e
  <2> QED  BY <2>1 DEF FrameType, e
<1>3. With(of) = Replace(stack, f)
  BY DEF With, Replace
<1> HIDE DEF f, F
<1>4. \A i \in DOMAIN f.got : f.got[i] \in G
  BY <1>2, TopGot, Zenon
<1>5. GotIn(Replace(stack, f), G) /\ Replace(stack, f) \in Seq(F)
  BY <1>1, <1>2, <1>4, GotInReplaced, Replaced
<1> QED  BY <1>3, <1>5 DEF F

LEMMA GotInReturned ==
  ASSUME Shape, Len(stack) >= 2, stack # <<>>, NEW v \in Nat, NEW G, GotIn(stack, G), v \in G
  PROVE  GotIn(Returned(v), G)
<1> DEFINE F == [node : DOMAIN nodes, got : Seq(Nat), of : Seq(Nat)]
           r == Front(stack)
           e == Last(r)
           f == [e EXCEPT !.got = Append(@, v)]
<1>1. stack \in Seq(F)
  BY ShapeTypes DEF TypeOK
<1>2. PICK k \in Nat : k = Len(stack) /\ k >= 2
  BY <1>1, LenProperties
<1>3. r \in Seq(F) /\ Len(r) = k - 1 /\ \A i \in 1 .. k - 1 : r[i] = stack[i]
  <2> HIDE DEF F
  <2> QED  BY <1>1, <1>2, LastOfSeq
<1>4. r # <<>>
  BY <1>2, <1>3
<1> HIDE DEF r
<1>5. e = r[k - 1] /\ e \in F /\ e = stack[k - 1] /\ k - 1 \in 1 .. Len(stack)
  <2>1. e = r[k - 1] /\ e \in F
    <3> HIDE DEF F
    <3> QED  BY <1>3, <1>4, LastOfSeq
  <2>2. k - 1 \in 1 .. k - 1 /\ k - 1 \in 1 .. Len(stack)
    BY <1>2
  <2> QED  BY <1>3, <2>1, <2>2
<1>6. \A i \in DOMAIN e.got : e.got[i] \in G
  BY <1>5, Zenon DEF GotIn
<1> HIDE DEF e
<1>7. e.got \in Seq(Nat)
  BY <1>5
<1>8. /\ Append(e.got, v) \in Seq(Nat)
      /\ \A i \in DOMAIN Append(e.got, v) : Append(e.got, v)[i] \in G
  <2> DEFINE g == e.got
  <2>1. PICK m \in Nat : m = Len(g) /\ DOMAIN g = 1 .. m
    BY <1>7, LenProperties
  <2>2. /\ Append(g, v) \in Seq(Nat) /\ Len(Append(g, v)) = m + 1
        /\ Append(g, v)[m + 1] = v /\ \A i \in 1 .. m : Append(g, v)[i] = g[i]
    BY <1>7, <2>1, AppendProperties
  <2>3. DOMAIN Append(g, v) = 1 .. m + 1
    BY <2>2, LenProperties
  <2>4. \A i \in 1 .. m + 1 : i \in 1 .. m \/ i = m + 1
    BY <2>1
  <2>5. \A i \in 1 .. m : g[i] \in G
    BY <1>6, <2>1
  <2> QED  BY <2>2, <2>3, <2>4, <2>5, Zenon
<1>9. f \in F /\ f.got = Append(e.got, v)
  BY <1>5, <1>8
<1> HIDE DEF f, F
<1>10. GotIn(r, G)
  <2>1. \A j \in 1 .. k - 1 : j \in 1 .. Len(stack)
    BY <1>2
  <2> QED  BY <1>3, <2>1, Zenon DEF GotIn
<1>11. \A i \in DOMAIN f.got : f.got[i] \in G
  BY <1>8, <1>9, Zenon
<1>12. GotIn(Replace(r, f), G)
  BY <1>3, <1>4, <1>9, <1>10, <1>11, GotInReplaced
<1>13. Returned(v) = Replace(r, f)
  BY <1>4, Zenon DEF Returned, Replace, r, f, e
<1> QED  BY <1>12, <1>13

-----------------------------------------------------------------------------
(* What a step may do to the functions there are and to their names *)

Externed(name) ==
  \E k \in 1 .. next - 1 : ~Source!IsMotif(program, k) /\ Source!NameOf(program, k) = name

\* A function whose motif may find the parameters of another one bound.
Excused(f) ==
  Len(functions[f].blocks) > 1 \/ f = Printf \/ Externed(functions[f].name)

LEMMA UpTo == ASSUME NEW i \in Nat, NEW j \in Nat, i <= j PROVE 1 .. i - 1 \subseteq 1 .. j - 1
OBVIOUS

LEMMA ProgramStays ==
  ASSUME Shape, [Next]_vars
  PROVE  program' = program /\ next \in Nat /\ next' \in Nat /\ next <= next'
<1>1. program' = program /\ next' \in {next, next + 1}
  <2>1. CASE SameModuleSteps
    BY <2>1 DEF SameModuleSteps, Generate, BeginTree, Write, Variable, UnknownVariable, Operand,
       UnknownOperator, BeginCall, Argument, Halt, vars
  <2>2. CASE Number \/ BinaryOperation \/ BuildCall \/ BuildBranch
    BY <2>2, Zenon DEF Number, BinaryOperation, BuildCall, BuildBranch, EmitChecked, Emit, Yield, Halt
  <2>3. CASE BeginIf \/ BeginElse \/ BeginCondition
    BY <2>3, Zenon DEF BeginIf, BeginElse, BeginCondition, GenerateInto
  <2>4. CASE EndMotif
    BY <2>4, Zenon DEF EndMotif, Halt
  <2>5. CASE Prototype \/ BeginMotif \/ BeginKnownMotif
    BY <2>5 DEF Prototype, BeginMotif, BeginKnownMotif, EnterMotif
  <2> QED  BY <2>1, <2>2, <2>3, <2>4, <2>5, Steps DEF MotifSteps
<1>2. next \in Nat
  BY DEF Shape
<1>3. CASE next' = next
  BY <1>1, <1>2, <1>3
<1>4. CASE next' = next + 1
  BY <1>1, <1>2, <1>4
<1> QED  BY <1>1, <1>3, <1>4

LEMMA ExcusedStays ==
  ASSUME Shape, Shape', [Next]_vars, Grown(functions, functions'),
         NEW f \in 1 .. Len(functions), Excused(f)
  PROVE  Excused(f)'
<1>1. /\ f \in 1 .. Len(functions') /\ functions'[f].name = functions[f].name
      /\ Len(functions[f].blocks) <= Len(functions'[f].blocks)
  BY BlocksStay DEF Shape, Grown
<1>2. Len(functions[f].blocks) \in Nat /\ Len(functions'[f].blocks) \in Nat
  BY <1>1, FunctionFacts DEF Shape
<1>3. CASE Len(functions[f].blocks) > 1
  <2>1. Len(functions'[f].blocks) > 1
    BY <1>1, <1>2, <1>3
  <2> QED  BY <2>1 DEF Excused
<1>4. CASE f = Printf
  BY <1>4 DEF Excused
<1>5. CASE Externed(functions[f].name)
  <2>1. Externed(functions[f].name)'
    <3> DEFINE name == functions[f].name
    <3>1. \E k \in 1 .. next - 1 : ~Source!IsMotif(program, k) /\ Source!NameOf(program, k) = name
      BY <1>5 DEF Externed
    <3>2. program' = program /\ next \in Nat /\ next' \in Nat /\ next <= next'
      BY ProgramStays
    <3>3. 1 .. next - 1 \subseteq 1 .. next' - 1
      BY <3>2, UpTo
    <3>4. \E k \in 1 .. next' - 1 :
            ~Source!IsMotif(program', k) /\ Source!NameOf(program', k) = functions'[f].name
      BY <1>1, <3>1, <3>2, <3>3
    <3> QED  BY <3>4 DEF Externed
  <2> QED  BY <2>1 DEF Excused
<1> QED  BY <1>3, <1>4, <1>5 DEF Excused

\* Only a declaration adds a function, and it is what binds the names.
LEMMA OneDeclares ==
  ASSUME Shape, Shape', [Next]_vars
  PROVE  \/ Len(functions') = Len(functions) /\ namedValues' = namedValues
         \/ Prototype \/ BeginMotif
<1>1. CASE SameModuleSteps
  <2>1. functions' = functions
    BY <1>1, QuietSteps
  <2>2. namedValues' = namedValues
    BY <1>1 DEF SameModuleSteps, Generate, BeginTree, Write, Variable, UnknownVariable, Operand,
       UnknownOperator, BeginCall, Argument, Halt, vars, fields
  <2> QED  BY <2>1, <2>2
<1>2. ASSUME DOMAIN functions' = DOMAIN functions PROVE Len(functions') = Len(functions)
  BY <1>2 DEF Shape
<1>3. CASE Number \/ BinaryOperation \/ BuildCall \/ BuildBranch
  <2>1. namedValues' = namedValues
    BY <1>3, Zenon DEF Number, BinaryOperation, BuildCall, BuildBranch, EmitChecked, Emit, Yield,
       Halt, fields
  <2>2. functions' \in {functions, InsertInto(functions, insertion, Len(values) + 1)}
    BY <1>3 DEF Number, BinaryOperation, BuildCall, BuildBranch, EmitChecked, Emit, Yield,
       Halt, module
  <2>3. DOMAIN functions' = DOMAIN functions
    BY <2>2 DEF InsertInto
  <2> QED  BY <1>2, <2>1, <2>3
<1>4. CASE BeginIf \/ BeginElse \/ BeginCondition
  <2>1. namedValues' = namedValues
    BY <1>4, Zenon DEF BeginIf, BeginElse, BeginCondition, GenerateInto, fields
  <2>2. DOMAIN functions' = DOMAIN functions
    BY <1>4 DEF BeginIf, BeginElse, BeginCondition, GenerateInto, AppendBlock, InsertInto
  <2> QED  BY <1>2, <2>1, <2>2
<1>5. CASE EndMotif
  <2> DEFINE vs == values \o Epilogue
             fs == IF Epilogue = <<>> THEN functions ELSE InsertInto(functions, Top.of, Len(vs))
  <2>1. Halt("aborted") \/ (functions' = fs /\ namedValues' = namedValues)
    BY <1>5, Zenon DEF EndMotif
  <2>2. DOMAIN fs = DOMAIN functions
    BY DEF InsertInto
  <2>3. Halt("aborted") => functions' = functions /\ namedValues' = namedValues
    BY DEF Halt, module, fields
  <2> QED  BY <1>2, <2>1, <2>2, <2>3
<1>6. CASE BeginKnownMotif
  <2>1. namedValues' = namedValues /\ DOMAIN functions' = DOMAIN functions
    BY <1>6 DEF BeginKnownMotif, EnterMotif, AppendBlock
  <2> QED  BY <1>2, <2>1
<1> QED  BY <1>1, <1>3, <1>4, <1>5, <1>6, Steps DEF MotifSteps

\* Where a tree has only begun, and what it enters.
LEMMA AtRoot ==
  ASSUME Shape, Prototype \/ BeginMotif \/ BeginKnownMotif
  PROVE  /\ stack # <<>> /\ Len(stack) = 1 /\ Top = stack[1] /\ Top.of = <<>>
         /\ Top.got = <<>> /\ ~ Entered(stack) /\ currentFunction = NoFunction
<1>1. stack # <<>> /\ TopNode.kind \notin ExpressionKinds /\ Len(Top.got) = 0
  BY DEF Prototype, BeginMotif, BeginKnownMotif, At, ExpressionKinds
<1>2. Len(stack) = 1 /\ Top = stack[1] /\ Top.got \in Seq(1 .. Len(values))
  BY <1>1, TopFacts
<1>3. Top.of = <<>>
  <2>1. CASE Prototype
    BY <1>1, <2>1, TopFacts DEF Prototype, At, FrameOK, TopNode
  <2>2. CASE BeginMotif \/ BeginKnownMotif
    BY <2>2 DEF BeginMotif, BeginKnownMotif
  <2> QED  BY <2>1, <2>2
<1>4. Top.got = <<>>
  BY <1>1, <1>2, EmptySeq
<1>5. ~ Entered(stack)
  BY <1>2, <1>3 DEF Entered
<1> QED  BY <1>1, <1>2, <1>3, <1>4, <1>5, NotEntered

-----------------------------------------------------------------------------
(* The invariant *)

\* The values that are no parameter of another function than the last.
Mine == { v \in 1 .. Len(values) :
            values[v].op = "param" => values[v].of[1] = Len(functions) }

NamesMine == \A x \in DOMAIN namedValues : namedValues[x] \in Mine

GotsMine == GotIn(stack, Mine)

Home ==
  currentFunction # NoFunction =>
    currentFunction = Len(functions) \/ Excused(currentFunction)

\* A function without a block is one that no motif has declared.
Bare ==
  \A f \in 1 .. Len(functions) :
    functions[f].blocks = <<>> =>
      f = Printf \/ functions[f].name = Renamed \/ Externed(functions[f].name)

\* A tree that has only begun is the one before next.
Pending ==
  (stack # <<>> /\ ~ Entered(stack)) =>
    next > 1 /\ stack[1].node = program.trees[next - 1]

BorrowOK(f, arg) ==
  (values[arg].op = "param" /\ values[arg].of[1] # f) =>
    f < values[arg].of[1] /\ Excused(f)

Borrows ==
  \A f \in 1 .. Len(functions), v \in 1 .. Len(values) :
    InBlocks(functions, f, v) =>
      \A i \in DOMAIN values[v].args : BorrowOK(f, values[v].args[i])

ScopeInv == NamesMine /\ GotsMine /\ Home /\ Bare /\ Pending /\ Borrows

-----------------------------------------------------------------------------
(* Names *)

LEMMA Step ==
  ASSUME Shape, [Next]_vars
  PROVE  /\ Extended(values, values') /\ Grown(functions, functions')
         /\ \A v \in 1 .. Len(values) : v \in 1 .. Len(values')
BY StepEffect, ShapeStays, LenProperties DEF Effect, ModuleGrows, Extended, Shape, ValuesOK

LEMMA MineStays ==
  ASSUME Shape, [Next]_vars, Len(functions') = Len(functions)
  PROVE  Mine \subseteq Mine'
<1> SUFFICES ASSUME NEW v \in Mine PROVE v \in Mine'
  OBVIOUS
<1>1. v \in 1 .. Len(values) /\ (values[v].op = "param" => values[v].of[1] = Len(functions))
  BY DEF Mine
<1>2. v \in 1 .. Len(values') /\ values'[v] = values[v]
  BY <1>1, Step DEF Extended
<1> QED  BY <1>1, <1>2 DEF Mine

LEMMA GotInMore ==
  ASSUME NEW s, NEW G, NEW H, G \subseteq H, GotIn(s, G)
  PROVE  GotIn(s, H)
BY Zenon DEF GotIn

\* What a declaration does, be it of an extern or of a motif.
LEMMA Declares ==
  ASSUME Shape, Prototype \/ BeginMotif
  PROVE  \E proto \in DOMAIN nodes :
           /\ BindParameters(proto)
           /\ proto = IF Prototype THEN Top.node ELSE TopNode.kids[1]
           /\ Len(functions') = Len(functions) + 1 /\ Len(functions) \in Nat
           /\ \A f \in 1 .. Len(functions) : functions'[f] = functions[f]
           /\ functions'[Len(functions) + 1].name = UniqueName(functions, nodes[proto].name)
           /\ BeginMotif => functions'[Len(functions) + 1].blocks # <<>>
<1> DEFINE n == Len(values)
           k == Len(functions)
<1>1. n \in Nat /\ n <= n /\ stack # <<>> /\ Top.node \in DOMAIN nodes
  BY ValuesAreCounted, AtRoot, TopFacts
<1>2. CASE Prototype
  <2> DEFINE proto == Top.node
  <2>1. BindParameters(proto) /\ functions' = Declared(proto) /\ TopNode.kind = "prototype"
    BY <1>2 DEF Prototype, At
  <2>2. ~ BeginMotif
    BY <2>1 DEF BeginMotif, At
  <2>3. /\ Len(functions') = k + 1 /\ k \in Nat
        /\ \A f \in 1 .. k : functions'[f] = functions[f]
        /\ functions'[k + 1].name = UniqueName(functions, nodes[proto].name)
    BY <1>1, <2>1, DeclaredFacts
  <2> QED  BY <1>1, <1>2, <2>1, <2>2, <2>3
<1>3. CASE BeginMotif
  <2> DEFINE proto == TopNode.kids[1]
             fs    == Declared(proto)
             f     == k + 1
             m     == Len(values')
  <2>1. /\ BindParameters(proto) /\ functions' = AppendBlock(fs, f)
        /\ TopNode.kind = "motif"
    BY <1>3 DEF BeginMotif, EnterMotif, At
  <2>2. ~ Prototype
    BY <2>1 DEF Prototype, At
  <2>3. proto \in DOMAIN nodes
    <3>1. Len(TopNode.kids) \in {1, 2}
      BY <1>1, <2>1, NodeFacts DEF Shape, TopNode
    <3>2. 1 \in 1 .. Len(TopNode.kids)
      BY <3>1
    <3> QED  BY <1>1, <3>2, NodeFacts DEF Shape, TopNode
  <2>4. m \in Nat /\ n <= m
    <3>1. /\ n \in Nat /\ Len(nodes[proto].kids) \in Nat
          /\ m = n + Len(nodes[proto].kids)
      BY <2>1, <2>3, BoundFacts
    <3> QED  BY <3>1
  <2>5. /\ fs \in Seq(FunctionType(m)) /\ Len(fs) = k + 1 /\ k \in Nat
        /\ \A g \in 1 .. k : fs[g] = functions[g]
        /\ fs[f].name = UniqueName(functions, nodes[proto].name) /\ fs[f].blocks = <<>>
    BY <2>3, <2>4, DeclaredFacts
  <2>6. f \in 1 .. Len(fs)
    BY <2>5
  <2> HIDE DEF fs
  <2>7. /\ Len(functions') = Len(fs) /\ Grown(fs, functions')
        /\ Len(functions'[f].blocks) = Len(fs[f].blocks) + 1
        /\ \A g \in 1 .. Len(fs) : g # f => functions'[g] = fs[g]
    <3> HIDE DEF f, m
    <3>1. LET gs == AppendBlock(fs, f) IN
          /\ Len(gs) = Len(fs) /\ Grown(fs, gs)
          /\ Len(gs[f].blocks) = Len(fs[f].blocks) + 1
          /\ \A g \in 1 .. Len(fs) : g # f => gs[g] = fs[g]
      BY <2>4, <2>5, <2>6, Blocked
    <3> QED  BY <2>1, <3>1, Zenon
  <2>8. functions'[f].name = fs[f].name
    BY <2>6, <2>7 DEF Grown
  <2>9. functions'[f].blocks # <<>>
    <3>1. Len(fs[f].blocks) = 0 /\ Len(<<>>) = 0
      BY <2>5
    <3>2. Len(functions'[f].blocks) = 1
      BY <2>7, <3>1
    <3> QED  BY <3>1, <3>2
  <2>10. \A g \in 1 .. k : functions'[g] = functions[g]
    BY <2>5, <2>7
  <2> QED  BY <2>1, <2>2, <2>3, <2>5, <2>7, <2>8, <2>9, <2>10
<1> QED  BY <1>2, <1>3

LEMMA NamesStay == ASSUME Shape, Shape', [Next]_vars, NamesMine PROVE NamesMine'
<1>1. CASE Len(functions') = Len(functions) /\ namedValues' = namedValues
  <2>1. Mine \subseteq Mine'
    BY <1>1, MineStays
  <2> QED  BY <1>1, <2>1, Zenon DEF NamesMine
<1>2. CASE Prototype \/ BeginMotif
  <2>1. PICK proto \in DOMAIN nodes :
          BindParameters(proto) /\ Len(functions') = Len(functions) + 1
    BY <1>2, Declares
  <2> DEFINE k == Len(nodes[proto].kids)
             n == Len(values)
  <2>2. /\ n \in Nat /\ k \in Nat /\ Len(values') = n + k
        /\ \A x \in DOMAIN namedValues' : \E i \in 1 .. k : namedValues'[x] = n + i
    BY <2>1, BoundFacts
  <2>3. \A v \in 1 .. Len(values') : v > n => values'[v].of[1] = Len(functions')
    <3>1. \A v \in 1 .. Len(values') : v > n =>
            values'[v].op = "param" /\ values'[v].of[1] = Len(functions) + 1
      BY <2>1, ParametersEffect
    <3> QED  BY <2>1, <3>1
  <2>4. \A i \in 1 .. k : n + i \in 1 .. Len(values') /\ n + i > n
    BY <2>2
  <2>5. \A i \in 1 .. k : n + i \in Mine'
    BY <2>3, <2>4 DEF Mine
  <2> QED  BY <2>2, <2>5, Zenon DEF NamesMine
<1> QED  BY <1>1, <1>2, OneDeclares

-----------------------------------------------------------------------------
(* The values of the calls in progress *)

LEMMA NewMine ==
  ASSUME Shape, Shape', NEW v, values' = Append(values, v), v.op # "param"
  PROVE  Len(values) + 1 \in Mine'
<1>1. Len(values) \in Nat /\ Len(values') = Len(values) + 1 /\ values'[Len(values) + 1] = v
  BY Appended
<1>2. Len(values) + 1 \in 1 .. Len(values')
  BY <1>1
<1> QED  BY <1>1, <1>2 DEF Mine

LEMMA GotsAtRoot ==
  ASSUME Shape, BeginMotif \/ BeginKnownMotif
  PROVE  GotIn(stack, {})
<1>1. Len(stack) = 1 /\ stack[1].got = <<>> /\ DOMAIN <<>> = {}
  BY AtRoot
<1> QED  BY <1>1 DEF GotIn

LEMMA GotsEntered ==
  ASSUME Shape, Shape', BeginMotif \/ BeginKnownMotif
  PROVE  GotsMine'
<1> DEFINE f     == currentFunction'
           block == LastBlock(functions', f)
           call  == With(block)
<1>1. /\ insertion' = block /\ stack # <<>> /\ GotIn(stack, {})
      /\ stack' = IF Len(TopNode.kids) = 1 THEN call ELSE Append(call, Frame(TopNode.kids[2]))
  BY AtRoot, GotsAtRoot DEF BeginMotif, BeginKnownMotif, EnterMotif, Visit
<1>2. block \in Seq(Nat)
  BY <1>1 DEF Shape, IsBlock
<1>3. GotIn(call, {}) /\ call \in Seq(FrameType(nodes, Len(values)))
  BY <1>1, <1>2, GotInWith
<1>4. GotIn(stack', {})
  <2>1. GotIn(Append(call, Frame(TopNode.kids[2])), {})
    BY <1>3, GotInVisited
  <2> QED  BY <1>1, <1>3, <2>1
<1>5. {} \subseteq Mine'
  OBVIOUS
<1> QED  BY <1>4, <1>5, GotInMore DEF GotsMine

LEMMA GotsStay ==
  ASSUME Shape, Shape', [Next]_vars, NamesMine, GotsMine PROVE GotsMine'
<1> DEFINE F == FrameType(nodes, Len(values))
<1>1. stack \in Seq(F)
  BY DEF Shape, StackOK
<1>2. CASE stack' = <<>>
  <2>1. Len(<<>>) = 0
    OBVIOUS
  <2> QED  BY <1>2, <2>1 DEF GotsMine, GotIn
<1>3. CASE Prototype
  <2>1. stack' = <<>>
    BY <1>3, RootReturns, AtRoot DEF Prototype, At, ExpressionKinds
  <2> QED  BY <1>2, <2>1
<1>4. CASE BeginMotif \/ BeginKnownMotif
  BY <1>4, GotsEntered
<1>5. CASE Len(functions') = Len(functions) /\ ~ BeginKnownMotif
  <2>1. Mine \subseteq Mine' /\ GotIn(stack, Mine')
    <3>1. Mine \subseteq Mine'
      BY <1>5, MineStays
    <3> QED  BY <3>1, GotInMore DEF GotsMine
  <2>2. CASE stack' = stack
    BY <2>1, <2>2 DEF GotsMine
  <2>3. ASSUME NEW v, v.op # "param", stack # <<>>, TopNode.kind \in ExpressionKinds,
               EmitChecked(v) \/ Yield(v)
        PROVE  GotsMine'
    <3>1. CASE Halt("aborted")
      BY <2>2, <3>1 DEF Halt
    <3>2. CASE Yield(v) \/ Emit(v)
      <4>1. values' = Append(values, v) /\ stack' = Returned(Len(values) + 1)
        BY <3>2 DEF Yield, Emit
      <4>2. Len(values) + 1 \in Mine' /\ Len(values) + 1 \in Nat
        BY <2>3, <4>1, NewMine, ValuesAreCounted
      <4>3. Len(stack) >= 2
        BY <2>3, TopFacts
      <4>4. GotIn(Returned(Len(values) + 1), Mine')
        BY <2>1, <2>3, <4>2, <4>3, GotInReturned
      <4> QED  BY <4>1, <4>4 DEF GotsMine
    <3> QED  BY <2>3, <3>1, <3>2 DEF EmitChecked
  <2>4. CASE Number
    <3> DEFINE v == Constant("number", "double", <<Top.node>>)
    <3>1. v.op # "param"
      BY DEF Constant, Value
    <3> HIDE DEF v
    <3> QED  BY <2>3, <2>4, <3>1 DEF Number, At, ExpressionKinds, v
  <2>5. CASE BinaryOperation
    <3> DEFINE v == Operation(values, TopNode.name, Got(1), Got(2))
    <3>1. v.op # "param"
      BY <2>5 DEF Operation, Value, BinaryOperation, Arithmetic
    <3> HIDE DEF v
    <3> QED  BY <2>3, <2>5, <3>1 DEF BinaryOperation, At, ExpressionKinds, v
  <2>6. CASE BuildCall
    <3> DEFINE v == CallOf(functions, Top.of[1], Top.got)
    <3>1. v.op # "param"
      BY DEF CallOf, Instruction, Value
    <3> HIDE DEF v
    <3> QED  BY <2>3, <2>6, <3>1 DEF BuildCall, InCall, At, ExpressionKinds, v
  <2>7. CASE BuildBranch
    <3> DEFINE v == Branch(Got(3), Top.of)
    <3>1. v.op # "param"
      BY DEF Branch, Instruction, Value
    <3> HIDE DEF v
    <3> QED  BY <2>3, <2>7, <3>1 DEF BuildBranch, At, ExpressionKinds, v
  <2>8. ASSUME NEW k, stack' = Visit(stack, k) PROVE GotsMine'
    BY <1>1, <2>1, <2>8, GotInVisited DEF Visit, GotsMine
  <2>9. CASE Operand \/ Argument \/ BeginCondition
    BY <2>8, <2>9 DEF Operand, Argument, BeginCondition
  <2>10. CASE BeginIf \/ BeginElse
    <3> DEFINE of == Append(Top.of, LastBlock(functions', currentFunction)[2])
    <3>1. /\ stack # <<>> /\ insertion' = LastBlock(functions', currentFunction)
          /\ \E k \in {2, 3} : stack' = Append(With(of), Frame(TopNode.kids[k]))
      BY <2>10 DEF BeginIf, BeginElse, GenerateInto, Visit, At
    <3>2. Top.of \in Seq(Nat) /\ insertion'[2] \in Nat
      <4>1. IsBlock(functions', insertion')
        BY DEF Shape
      <4>2. Len(functions'[insertion'[1]].blocks) \in Nat
        BY <4>1, FunctionFacts DEF IsBlock, Shape
      <4> QED  BY <3>1, <4>1, <4>2, TopFacts DEF IsBlock
    <3>3. of \in Seq(Nat)
      BY <3>1, <3>2, AppendProperties
    <3> HIDE DEF of
    <3>4. GotIn(With(of), Mine') /\ With(of) \in Seq(F)
      BY <2>1, <3>1, <3>3, GotInWith
    <3> QED  BY <3>1, <3>4, GotInVisited DEF GotsMine
  <2>11. CASE EndMotif
    <3>1. Halt("aborted") \/ stack' = Returned(Top.of[1])
      BY <2>11, Zenon DEF EndMotif
    <3>2. stack # <<>> /\ TopNode.kind \notin ExpressionKinds
      BY <2>11 DEF EndMotif, At, ExpressionKinds
    <3>3. stack' = <<>> \/ stack' = stack
      BY <3>1, <3>2, RootReturns DEF Halt
    <3> QED  BY <1>2, <2>2, <3>3
  <2>12. CASE BeginTree
    <3>1. stack = <<>> /\ stack' = <<Frame(program.trees[next])>>
      BY <2>12 DEF BeginTree, Between
    <3>2. <<Frame(program.trees[next])>> = Append(<<>>, Frame(program.trees[next]))
      OBVIOUS
    <3> QED  BY <1>1, <2>1, <3>1, <3>2, GotInVisited DEF GotsMine
  <2>13. CASE Variable
    <3>1. /\ stack # <<>> /\ TopNode.kind \in ExpressionKinds
          /\ TopNode.name \in DOMAIN namedValues
          /\ stack' = Returned(namedValues[TopNode.name])
      BY <2>13 DEF Variable, At, ExpressionKinds
    <3>2. namedValues[TopNode.name] \in Mine' /\ namedValues[TopNode.name] \in Nat
      <4>1. namedValues[TopNode.name] \in Mine
        BY <3>1 DEF NamesMine
      <4>2. namedValues[TopNode.name] \in 1 .. Len(values)
        BY <3>1 DEF Shape, NamesOK
      <4> QED  BY <2>1, <4>1, <4>2
    <3>3. Len(stack) >= 2
      BY <3>1, TopFacts
    <3> QED  BY <2>1, <3>1, <3>2, <3>3, GotInReturned DEF GotsMine
  <2>14. CASE BeginCall
    <3> DEFINE f == Named(functions, TopNode.name)
    <3>1. stack # <<>> /\ (stack' = stack \/ stack' = With(<<f>>))
      BY <2>14 DEF BeginCall, At, Halt
    <3>2. <<f>> \in Seq(Nat)
      <4>1. f \in Nat
        BY NamedFacts DEF Shape
      <4> QED  BY <4>1
    <3> HIDE DEF f
    <3>3. GotIn(With(<<f>>), Mine')
      BY <2>1, <3>1, <3>2, GotInWith
    <3> QED  BY <2>2, <3>1, <3>3 DEF GotsMine
  <2>15. CASE Write \/ UnknownVariable \/ UnknownOperator \/ UNCHANGED vars
    <3>1. stack' = stack
      BY <2>15 DEF Write, UnknownVariable, UnknownOperator, Halt, vars
    <3> QED  BY <2>2, <3>1
  <2>16. CASE SameModuleSteps
    BY <2>9, <2>12, <2>13, <2>14, <2>15, <2>16 DEF SameModuleSteps, Generate
  <2>17. CASE MotifSteps
    BY <2>4, <2>5, <2>6, <2>7, <2>9, <2>10, <2>11, <2>17 DEF MotifSteps
  <2> QED  BY <1>3, <1>4, <1>5, <2>16, <2>17, Steps
<1> QED  BY <1>3, <1>4, <1>5, OneDeclares

-----------------------------------------------------------------------------
(* The functions *)

LEMMA CurrentIsAFunction ==
  ASSUME Shape, currentFunction # NoFunction
  PROVE  Entered(stack) /\ currentFunction \in 1 .. Len(functions)
BY NotEntered, EnteredFacts

LEMMA HomeStays ==
  ASSUME Shape, Shape', [Next]_vars, Home, Bare PROVE Home'
<1> DEFINE f == currentFunction'
<1>1. CASE Prototype \/ BeginMotif
  <2>1. Len(functions') = Len(functions) + 1
    BY <1>1, Declares
  <2>2. CASE Prototype
    BY <2>2, AtRoot DEF Prototype, Home
  <2>3. CASE BeginMotif
    BY <2>1, <2>3 DEF BeginMotif, EnterMotif, Home
  <2> QED  BY <1>1, <2>2, <2>3
<1>2. CASE f = currentFunction /\ Len(functions') = Len(functions)
  BY <1>2, CurrentIsAFunction, ExcusedStays, Step DEF Home
<1>3. CASE EndMotif /\ ~ Halt("aborted")
  <2>1. f = NoFunction
    BY <1>3, Zenon DEF EndMotif, Reset
  <2> QED  BY <2>1 DEF Home
<1>4. CASE BeginKnownMotif
  <2>1. /\ f = Named(functions, MotifName) /\ f # NoFunction
        /\ functions' = AppendBlock(functions, f)
    BY <1>4 DEF BeginKnownMotif, EnterMotif
  <2>2. f \in 1 .. Len(functions) /\ functions[f].name = MotifName
    BY <2>1, NamedFacts DEF Shape
  <2>3. MotifName # Renamed
    <3>1. Top.node \in DOMAIN nodes /\ TopNode.kind = "motif"
      BY <1>4, AtRoot, TopFacts DEF BeginKnownMotif, At
    <3>2. Len(TopNode.kids) \in {1, 2}
      BY <3>1, NodeFacts DEF Shape, TopNode
    <3>3. 1 \in 1 .. Len(TopNode.kids)
      BY <3>2
    <3>4. TopNode.kids[1] \in DOMAIN nodes
      BY <3>1, <3>3, NodeFacts DEF Shape, TopNode
    <3>5. nodes[TopNode.kids[1]].name \in STRING \ {Renamed}
      <4> DEFINE Nodes == [kind : ExpressionKinds \cup {"param", "prototype", "motif"},
                           name : STRING \ {Renamed}, kids : Seq(Nat)]
      <4>1. nodes \in Seq(Nodes)
        BY DEF Shape, Generatable, nodes
      <4>2. nodes[TopNode.kids[1]] \in Nodes
        <5> HIDE DEF Nodes
        <5> QED  BY <3>4, <4>1, LenProperties, ElementOfSeq
      <4> QED  BY <4>2
    <3> QED  BY <3>5 DEF MotifName
  <2>4. /\ Len(functions'[f].blocks) = Len(functions[f].blocks) + 1
        /\ Len(functions[f].blocks) \in Nat
        /\ functions[f].blocks \in Seq(Seq(1 .. Len(values)))
    <3>1. functions \in Seq(FunctionType(Len(values))) /\ Len(values) \in Nat
      BY ValuesAreCounted DEF Shape
    <3> HIDE DEF f
    <3>2. Len(functions'[f].blocks) = Len(functions[f].blocks) + 1
      BY <2>1, <2>2, <3>1, Blocked
    <3> QED  BY <2>2, <3>1, <3>2, FunctionFacts
  <2>5. Excused(f) \/ Len(functions[f].blocks) = 1
    <3>1. CASE functions[f].blocks = <<>>
      BY <2>2, <2>3, <3>1 DEF Bare, Excused
    <3>2. CASE functions[f].blocks # <<>>
      <4>1. Len(functions[f].blocks) # 0
        BY <2>4, <3>2, EmptySeq
      <4> DEFINE k == Len(functions[f].blocks)
      <4>2. k \in Nat /\ k # 0
        BY <2>4, <4>1
      <4> HIDE DEF k
      <4>3. k > 1 \/ k = 1
        BY <4>2
      <4> QED  BY <4>3, Zenon DEF Excused, k
    <3> QED  BY <3>1, <3>2
  <2>6. CASE Excused(f)
    BY <2>2, <2>6, ExcusedStays, Step DEF Home, Excused
  <2>7. CASE Len(functions[f].blocks) = 1
    BY <2>4, <2>7 DEF Home, Excused
  <2> QED  BY <2>5, <2>6, <2>7
<1> QED  BY <1>1, <1>2, <1>3, <1>4, OneDeclares, FunctionChanges

LEMMA PendingStays == ASSUME Shape, Shape', [Next]_vars, Pending PROVE Pending'
<1> SUFFICES ASSUME stack' # <<>>, ~ Entered(stack')
             PROVE  next' > 1 /\ stack'[1].node = program'.trees[next' - 1]
  BY DEF Pending
<1>1. currentFunction' = NoFunction
  BY DEF Shape, FieldsOK
<1>2. CASE BeginTree
  <2>1. /\ stack' = <<Frame(program.trees[next])>> /\ next' = next + 1 /\ program' = program
    BY <1>2 DEF BeginTree
  <2>2. next \in Nat \ {0} /\ stack'[1].node = program.trees[next]
    BY <2>1 DEF Shape, Frame
  <2> QED  BY <2>1, <2>2
<1>3. CASE stack' = stack /\ next' = next /\ program' = program
  BY <1>3 DEF Pending
<1>4. CASE Prototype
  BY <1>4, AtRoot, RootReturns DEF Prototype, At, ExpressionKinds
<1>5. CASE EndMotif
  <2>1. stack # <<>> /\ TopNode.kind \notin ExpressionKinds
    BY <1>5 DEF EndMotif, At, ExpressionKinds
  <2>2. Halt("aborted") \/ stack' = Returned(Top.of[1])
    BY <1>5, Zenon DEF EndMotif
  <2>3. CASE Halt("aborted")
    BY <1>3, <2>3 DEF Halt
  <2>4. CASE stack' = Returned(Top.of[1])
    BY <2>1, <2>4, RootReturns
  <2> QED  BY <2>2, <2>3, <2>4
<1>6. CASE BeginMotif \/ BeginKnownMotif
  <2>1. currentFunction' \in 1 .. Len(functions')
    <3>1. insertion'[1] = currentFunction'
      BY <1>6 DEF BeginMotif, BeginKnownMotif, EnterMotif, LastBlock
    <3> QED  BY <3>1 DEF Shape, IsBlock
  <2> QED  BY <1>1, <2>1 DEF NoFunction
<1>7. CASE TopNode.kind \in ExpressionKinds /\ stack # <<>> /\ currentFunction' = currentFunction
  <2>1. Entered(stack)
    BY <1>7, TopFacts
  <2>2. currentFunction \in 1 .. Len(functions)
    BY <2>1, EnteredFacts
  <2> QED  BY <1>1, <1>7, <2>2 DEF NoFunction
<1>8. CASE Write \/ UNCHANGED vars
  BY <1>3, <1>8 DEF Write, Halt, vars
<1>9. CASE Number \/ Variable \/ UnknownVariable \/ Operand \/ BinaryOperation \/ UnknownOperator
           \/ BeginCall \/ Argument \/ BuildCall \/ BeginIf \/ BeginElse \/ BeginCondition
           \/ BuildBranch
  <2>1. TopNode.kind \in ExpressionKinds /\ stack # <<>>
    BY <1>9 DEF Number, Variable, UnknownVariable, Operand, BinaryOperation, UnknownOperator,
       BeginCall, Argument, InCall, BuildCall, BeginIf, BeginElse, BeginCondition, BuildBranch,
       At, ExpressionKinds
  <2>2. ~ BeginMotif /\ ~ BeginKnownMotif /\ ~ EndMotif
    BY <2>1 DEF BeginMotif, BeginKnownMotif, EndMotif, At, ExpressionKinds
  <2>3. currentFunction' = currentFunction
    BY <2>2, FunctionChanges
  <2> QED  BY <1>7, <2>1, <2>3
<1> QED  BY <1>2, <1>4, <1>5, <1>6, <1>8, <1>9, Steps
         DEF SameModuleSteps, MotifSteps, Generate

LEMMA BareStays == ASSUME Shape, Shape', [Next]_vars, Bare, Pending PROVE Bare'
<1> SUFFICES ASSUME NEW f \in 1 .. Len(functions'), functions'[f].blocks = <<>>
             PROVE  f = Printf \/ functions'[f].name = Renamed \/ Externed(functions[f].name)'
  BY DEF Bare
<1>1. CASE f \in 1 .. Len(functions)
  <2>1. /\ functions'[f].name = functions[f].name
        /\ Len(functions[f].blocks) <= Len(functions'[f].blocks)
    BY <1>1, Step DEF Grown
  <2>2. functions[f].blocks = <<>>
    <3>1. Len(functions'[f].blocks) = 0
      OBVIOUS
    <3>2. Len(functions[f].blocks) \in Nat /\ functions[f].blocks \in Seq(Seq(1 .. Len(values)))
      BY <1>1, FunctionFacts DEF Shape
    <3>3. Len(functions[f].blocks) = 0
      BY <2>1, <3>1, <3>2
    <3> QED  BY <3>2, <3>3, EmptySeq
  <2>3. f = Printf \/ functions[f].name = Renamed \/ Externed(functions[f].name)
    BY <1>1, <2>2 DEF Bare
  <2>4. Externed(functions[f].name) => Externed(functions[f].name)'
    <3> DEFINE name == functions[f].name
    <3>1. program' = program /\ next \in Nat /\ next' \in Nat /\ next <= next'
      BY ProgramStays
    <3>2. 1 .. next - 1 \subseteq 1 .. next' - 1
      BY <3>1, UpTo
    <3> QED  BY <2>1, <3>1, <3>2 DEF Externed
  <2> QED  BY <2>1, <2>3, <2>4
<1>2. CASE f \notin 1 .. Len(functions)
  <2>1. Prototype \/ BeginMotif
    BY <1>2, OneDeclares
  <2>2. PICK proto \in DOMAIN nodes :
           /\ proto = IF Prototype THEN Top.node ELSE TopNode.kids[1]
           /\ Len(functions') = Len(functions) + 1 /\ Len(functions) \in Nat
           /\ functions'[Len(functions) + 1].name = UniqueName(functions, nodes[proto].name)
           /\ BeginMotif => functions'[Len(functions) + 1].blocks # <<>>
    BY <2>1, Declares
  <2>3. f = Len(functions) + 1
    BY <1>2, <2>2
  <2>4. Prototype /\ proto = Top.node
    BY <2>1, <2>2, <2>3
  <2>5. functions'[f].name = Renamed \/ functions'[f].name = nodes[proto].name
    BY <2>2, <2>3 DEF UniqueName
  <2>6. next' = next /\ program' = program /\ TopNode.kind = "prototype"
    BY <2>4 DEF Prototype, At
  <2>7. next > 1 /\ Top.node = program.trees[next - 1]
    BY <2>1, AtRoot DEF Pending
  <2> DEFINE k == next - 1
  <2>8. ~Source!IsMotif(program, k) /\ Source!NameOf(program, k) = nodes[proto].name
    BY <2>4, <2>6, <2>7 DEF Source!IsMotif, Source!NameOf, Source!Proto, TopNode, nodes
  <2>9. k \in 1 .. next' - 1
    BY <2>6, <2>7 DEF Shape
  <2>10. functions'[f].name = nodes[proto].name => Externed(functions[f].name)'
    BY <2>6, <2>8, <2>9 DEF Externed
  <2> QED  BY <2>5, <2>10
<1> QED  BY <1>1, <1>2

-----------------------------------------------------------------------------
(* The instructions *)

\* What an instruction of the new module is, of those that were there or not.
LEMMA InstructionsOf ==
  ASSUME Shape, [Next]_vars, NEW f \in 1 .. Len(functions'), NEW v \in 1 .. Len(values'),
         InBlocks(functions', f, v)
  PROVE  \/ f \in 1 .. Len(functions) /\ v \in 1 .. Len(values) /\ InBlocks(functions, f, v)
         \/ /\ f \in {currentFunction, currentFunction'} /\ v > Len(values)
            /\ \A i \in DOMAIN values'[v].args :
                 \/ stack # <<>> /\ values'[v].args[i] \in Range(Top.got)
                 \/ values'[values'[v].args[i]].op # "param"
<1>1. PICK c \in {currentFunction, currentFunction'} : Effect(c)
  BY StepEffect
<1>2. Len(values) \in Nat /\ v \in Nat
  BY ValuesAreCounted
<1>3. (f \in 1 .. Len(functions) /\ InBlocks(functions, f, v)) \/ (f = c /\ v > Len(values))
  BY <1>1, <1>2, Zenon DEF Effect, ModuleGrows
<1>4. CASE v > Len(values)
  <2>1. \A i \in DOMAIN values'[v].args :
           \/ values'[v].args[i] \in Range(IF stack = <<>> THEN <<>> ELSE Top.got)
           \/ values'[values'[v].args[i]].op # "param"
    BY <1>1, <1>4, Zenon DEF Effect, NewOK
  <2>2. Range(<<>>) = {}
    BY DEF Range
  <2>3. \A i \in DOMAIN values'[v].args :
           \/ stack # <<>> /\ values'[v].args[i] \in Range(Top.got)
           \/ values'[values'[v].args[i]].op # "param"
    BY <2>1, <2>2
  <2>4. ~ InBlocks(functions, f, v) \/ f \notin 1 .. Len(functions)
    <3> SUFFICES ASSUME InBlocks(functions, f, v), f \in 1 .. Len(functions) PROVE FALSE
      OBVIOUS
    <3>1. PICK b \in DOMAIN functions[f].blocks : \E i \in DOMAIN functions[f].blocks[b] :
            functions[f].blocks[b][i] = v
      BY Zenon DEF InBlocks
    <3>2. v \in 1 .. Len(values)
      <4>1. functions[f].blocks[b] \in Seq(1 .. Len(values))
        BY BlockFacts DEF Shape
      <4> QED  BY <3>1, <4>1, ElementOfSeq
    <3> QED  BY <1>2, <1>4, <3>2
  <2> QED  BY <1>1, <1>3, <1>4, <2>3, <2>4
<1>5. CASE ~ (v > Len(values))
  <2>1. v \in 1 .. Len(values)
    BY <1>2, <1>5
  <2> QED  BY <1>3, <1>5, <2>1
<1> QED  BY <1>4, <1>5

LEMMA BorrowsStay ==
  ASSUME Shape, Shape', [Next]_vars, GotsMine, Home, Home', Borrows PROVE Borrows'
<1> SUFFICES ASSUME NEW f \in 1 .. Len(functions'), NEW v \in 1 .. Len(values'),
                    InBlocks(functions', f, v), NEW i \in DOMAIN values'[v].args,
                    values'[values'[v].args[i]].op = "param",
                    values'[values'[v].args[i]].of[1] # f
             PROVE  f < values'[values'[v].args[i]].of[1] /\ Excused(f)'
  BY DEF Borrows, BorrowOK
<1>1. Extended(values, values') /\ Grown(functions, functions') /\ Len(values) \in Nat
  BY Step, ValuesAreCounted
<1>2. CASE f \in 1 .. Len(functions) /\ v \in 1 .. Len(values) /\ InBlocks(functions, f, v)
  <2>1. values'[v] = values[v]
    BY <1>1, <1>2 DEF Extended
  <2> DEFINE arg == values[v].args[i]
  <2>2. arg \in 1 .. v - 1
    BY <1>2, <2>1, ValuesAreCounted DEF Shape, ValuesOK, Older
  <2>3. values'[arg] = values[arg]
    <3>1. arg \in 1 .. Len(values)
      BY <1>1, <1>2, <2>2
    <3> QED  BY <1>1, <3>1 DEF Extended
  <2>4. BorrowOK(f, arg)
    BY <1>2, <2>1 DEF Borrows
  <2>5. f < values[arg].of[1] /\ Excused(f)
    BY <2>1, <2>3, <2>4 DEF BorrowOK
  <2>6. Excused(f)'
    BY <1>1, <1>2, <2>5, ExcusedStays
  <2> QED  BY <2>1, <2>3, <2>5, <2>6
<1>3. CASE /\ f \in {currentFunction, currentFunction'}
           /\ stack # <<>> /\ values'[v].args[i] \in Range(Top.got)
  <2> DEFINE arg == values'[v].args[i]
  <2>1. arg \in Mine
    <3>1. \A j \in DOMAIN Top.got : Top.got[j] \in Mine
      BY <1>3, TopGot DEF GotsMine
    <3> QED  BY <1>3, <3>1, Zenon DEF Range
  <2>2. values'[arg] = values[arg] /\ values[arg].of[1] = Len(functions)
    <3>1. arg \in 1 .. Len(values)
      BY <2>1 DEF Mine
    <3>2. values'[arg] = values[arg]
      BY <1>1, <3>1 DEF Extended
    <3> QED  BY <2>1, <3>2 DEF Mine
  <2>3. Len(functions') = Len(functions)
    <3>1. DOMAIN Top.got # {}
      BY <1>3, Zenon DEF Range
    <3>2. ~ Prototype /\ ~ BeginMotif
      BY <3>1, AtRoot
    <3> QED  BY <3>2, OneDeclares
  <2>4. f \in 1 .. Len(functions) /\ f # NoFunction /\ Len(functions) \in Nat
    BY <2>3 DEF NoFunction, Shape
  <2>5. f # Len(functions)
    BY <2>2
  <2>6. Excused(f)'
    <3>1. CASE f = currentFunction
      <4>1. Excused(f)
        BY <2>4, <2>5, <3>1 DEF Home
      <4> QED  BY <1>1, <2>4, <4>1, ExcusedStays
    <3>2. CASE f = currentFunction'
      BY <2>3, <2>4, <2>5, <3>2 DEF Home, Excused
    <3> QED  BY <1>3, <3>1, <3>2
  <2>7. f < Len(functions)
    BY <2>4, <2>5
  <2> QED  BY <2>2, <2>6, <2>7
<1> QED  BY <1>2, <1>3, InstructionsOf

-----------------------------------------------------------------------------

LEMMA ScopeInit == ASSUME Init PROVE ScopeInv
<1>1. /\ values = StdValues /\ functions = StdFunctions /\ stack = <<>>
      /\ namedValues = <<>> /\ currentFunction = NoFunction
  BY DEF Init, Fresh
<1>2. Shape /\ Len(values) = 5 /\ Len(functions) = 2
  BY <1>1, ShapeInit, StdValuesOK, StdFunctionsOK
<1>3. NamesMine /\ GotsMine /\ Home /\ Pending
  <2>1. DOMAIN <<>> = {} /\ Len(<<>>) = 0
    OBVIOUS
  <2> QED  BY <1>1, <2>1 DEF NamesMine, GotsMine, GotIn, Home, Pending
<1>4. Bare
  <2>1. \A f \in 1 .. 2 : f = 1 \/ f = 2
    OBVIOUS
  <2>2. functions[2].blocks = << <<4, 5>> >>
    BY <1>1, StdFunctionsOK
  <2>3. << <<4, 5>> >> # <<>>
    OBVIOUS
  <2> QED  BY <1>2, <2>1, <2>2, <2>3 DEF Bare, Printf
<1>5. Borrows
  <2> SUFFICES ASSUME NEW f \in 1 .. 2, NEW v \in 1 .. 5, InBlocks(functions, f, v),
                      NEW i \in DOMAIN values[v].args
               PROVE  BorrowOK(f, values[v].args[i])
    BY <1>2 DEF Borrows
  <2>1. f = 2 /\ (v = 4 \/ v = 5)
    <3>1. functions[1].blocks = <<>> /\ functions[2].blocks = << <<4, 5>> >> /\ DOMAIN <<>> = {}
      BY <1>1, StdFunctionsOK
    <3>2. f = 1 \/ f = 2
      OBVIOUS
    <3>3. f # 1
      BY <3>1, Zenon DEF InBlocks
    <3>4. PICK b \in DOMAIN << <<4, 5>> >> : \E j \in DOMAIN << <<4, 5>> >>[b] :
            << <<4, 5>> >>[b][j] = v
      BY <3>1, <3>2, <3>3, Zenon DEF InBlocks
    <3>5. << <<4, 5>> >>[b] = <<4, 5>>
      OBVIOUS
    <3>6. \E j \in DOMAIN <<4, 5>> : <<4, 5>>[j] = v
      BY <3>4, <3>5
    <3>7. v = 4 \/ v = 5
      BY <3>6
    <3> QED  BY <3>2, <3>3, <3>7
  <2>2. values[4].args = <<3, 2>> /\ values[5].args = <<>>
    BY <1>1, StdValuesOK DEF CallOf, ReturnOf, Instruction, Value
  <2>3. values[3].op = "format" /\ values[2].of[1] = 2
    BY <1>1, StdValuesOK DEF Constant, Instruction, Value
  <2>4. CASE v = 5
    BY <2>2, <2>4
  <2>5. CASE v = 4
    <3>1. values[v].args[i] = 3 \/ values[v].args[i] = 2
      BY <2>2, <2>5
    <3> QED  BY <2>1, <2>3, <3>1 DEF BorrowOK
  <2> QED  BY <2>1, <2>4, <2>5
<1> QED  BY <1>3, <1>4, <1>5 DEF ScopeInv

LEMMA ScopeStays == ASSUME Shape, ScopeInv, [Next]_vars PROVE ScopeInv'
<1>1. Shape' /\ NamesMine /\ GotsMine /\ Home /\ Bare /\ Pending /\ Borrows
  BY ShapeStays DEF ScopeInv
<1>2. NamesMine' /\ GotsMine' /\ Home' /\ Pending'
  BY <1>1, NamesStay, GotsStay, HomeStays, PendingStays
<1>3. Bare' /\ Borrows'
  BY <1>1, <1>2, BareStays, BorrowsStay
<1> QED  BY <1>2, <1>3 DEF ScopeInv

(* namedValues outlives the motif that has bound it, and still no function *)
(* uses the parameters of another, unless that other was declared later    *)
(* and the name of the first was taken when its motif was generated.       *)
THEOREM ScopeCorrect == Spec => []ScopeRespected
<1>1. Shape /\ ScopeInv => ScopeRespected
  <2> SUFFICES ASSUME Shape, ScopeInv,
                      NEW f \in DOMAIN functions, NEW v \in Instructions(f),
                      NEW i \in DOMAIN values[v].args,
                      values[values[v].args[i]].op = "param",
                      values[values[v].args[i]].of[1] # f
               PROVE  /\ f < values[values[v].args[i]].of[1]
                      /\ \/ Len(functions[f].blocks) > 1 \/ f = Printf
                         \/ \E k \in 1 .. next - 1 :
                              ~Source!IsMotif(program, k)
                              /\ Source!NameOf(program, k) = functions[f].name
    BY Zenon DEF ScopeRespected
  <2>1. f \in 1 .. Len(functions) /\ v \in 1 .. Len(values) /\ InBlocks(functions, f, v)
    BY InstructionFacts
  <2>2. BorrowOK(f, values[v].args[i])
    BY <2>1 DEF ScopeInv, Borrows
  <2> QED  BY <2>2, Zenon DEF BorrowOK, Excused, Externed
<1>2. Shape /\ ScopeInv /\ [Next]_vars => (Shape /\ ScopeInv)'
  BY ShapeStays, ScopeStays
<1>3. Init => Shape /\ ScopeInv
  BY ShapeInit, ScopeInit
<1> QED  BY <1>1, <1>2, <1>3, PTL DEF Spec

=============================================================================
