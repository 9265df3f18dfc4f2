------------------------ MODULE CodeGeneratorMeaning -------------------------
(***************************************************************************)
(* The code of a body means what the body does and makes its calls in      *)
(* their order, and a program without a meaning is not compiled; for every *)
(* program.                                                                *)
(*                                                                         *)
(* BodyInv: while a body is walked, the motif is doomed or the values that *)
(* wait match the children they are the values of, and the code there is   *)
(* already is where it belongs: in the block of the motif, or, for a cond, *)
(* in a block per branch, each of which ends with the return of its        *)
(* branch.  When a motif ends, LLVM has verified it, so it was not doomed. *)
(*                                                                         *)
(* What a finished motif returns does not change: instructions are         *)
(* appended to blocks that are not done, and a block that is done is not   *)
(* the builder's any more (Onward, DoneBlocks).  Kept and Meant say of the *)
(* trees that are done what the properties say of them.                    *)
(*                                                                         *)
(* OrderInv is about the calls: while a body is walked, the block of the   *)
(* builder has those that are due (Due), the calls below the children that *)
(* are done of every getValue in progress, and the blocks of the branches  *)
(* that are done have theirs.  Numbered says which block of main a motif   *)
(* has: there is one for each motif of that name.  Placed says of the      *)
(* motifs that are done where their calls are.                             *)
(***************************************************************************)
EXTENDS CodeGeneratorWalk, FiniteSetTheorems

-----------------------------------------------------------------------------
(* What getValue has got stays what its children mean. *)

LEMMA ArgsAreMatched ==
  ASSUME Shape, stack # <<>>, Len(stack) >= 2, PairsIn(stack, Matched),
         TopNode.kind # "cond", TopNode.kind # "motif"
  PROVE  ArgsMatch
<1>1. PICK m \in Nat : m = Len(stack) /\ m >= 2
  BY TopIs
<1>2. Top = stack[m] /\ TopNode = nodes[stack[m].node] /\ m \in 2 .. Len(stack)
  BY <1>1, TopIs
<1> SUFFICES ASSUME NEW i \in DOMAIN Top.got PROVE Matches(Top.got[i], KidsAt(Top.node)[i])
  BY DEF ArgsMatch
<1>3. <<stack[m].got[i], KidOf(stack[m], i)>> \in Matched
  BY <1>2 DEF PairsIn, Unspent
<1>4. KidOf(stack[m], i) = KidsAt(Top.node)[i]
  BY <1>2 DEF KidOf, KidAt, KidsAt
<1>5. Matches(stack[m].got[i], KidOf(stack[m], i))
  BY <1>3 DEF Matched
<1> QED BY <1>2, <1>4, <1>5

LEMMA BodyIs ==
  ASSUME Shape, Walk, Rooted, Entered(stack), Len(stack) >= 2
  PROVE  /\ stack[2].node = Body /\ stack[1].got = <<>>
         /\ Len(nodes[program.trees[Tree]].kids) = 2
         /\ IsCond <=> nodes[stack[2].node].kind = "cond"
<1>1. stack[1].got = <<>> /\ Len(nodes[stack[1].node].kids) = 2
  BY DEF Rooted
<1>2. stack[1].node = program.trees[Tree] /\ nodes[stack[1].node].kind = "motif"
  BY RootFacts
<1>3. PICK m \in Nat : m = Len(stack) /\ m >= 2
  BY TopIs DEF Entered
<1>4. 1 \in 1 .. Len(stack) - 1
  BY <1>3
<1>5. stack[2].node = KidOf(stack[1], 1)
  <2>1. stack[1 + 1].node = KidOf(stack[1], Len(stack[1].got) + 1)
    BY <1>4, Zenon DEF Walk
  <2>2. 1 + 1 = 2 /\ Len(stack[1].got) + 1 = 1
    BY <1>1
  <2> QED BY <2>1, <2>2
<1>6. stack[2].node = Body
  BY <1>2, <1>5 DEF KidOf, KidAt, Body
<1> QED BY <1>1, <1>2, <1>6 DEF IsCond

\* A variable of an expression is a parameter of another function.
LEMMA ForeignVariable ==
  ASSUME Shape, Shape', SymbolsInv, Rooted, BodyStep, ~ Idle, Variable, Tracked,
         ~ Source!IsFresh(program, Tree), Pops(namedValues[TopNode.name])
  PROVE  IF Len(stack) > 2 THEN Nested' ELSE StaleBody
<1> DEFINE x == TopNode.name
           v == namedValues[x]
<1>1. stack # <<>> /\ Entered(stack) /\ Len(stack) >= 2
  BY BodyFacts
<1>2. PICK m \in Nat : m = Len(stack) /\ m >= 2 /\ TopNode = nodes[stack[m].node]
  BY <1>1, TopIs
<1>3. TopNode.kind = "variable" /\ x \in DOMAIN namedValues
  BY DEF Variable, At
<1>4. v \in 1 .. Len(values) /\ v \in Nat
  <2>1. v \in 1 .. Len(values)
    BY <1>3 DEF Shape, NamesOK
  <2> HIDE DEF v
  <2> QED BY <2>1, ValuesAreCounted
<1>5. Foreign(v)
  <2>1. currentFunction \in 3 .. Len(functions) /\ functions[currentFunction].params = <<>>
    BY <1>1, TrackedFunction
  <2>2. values[v].op = "param" /\ values[v].of[1] = Len(functions)
        /\ functions[Len(functions)].params # <<>>
    BY <1>3 DEF SymbolsInv, Made
  <2>3. values[v].of[1] # currentFunction
    BY <2>1, <2>2
  <2> QED BY <2>2, <2>3 DEF Foreign
<1>6. CASE m > 2
  <2>1. Len(stack') = m - 1 /\ stack'[m - 1].got = Append(stack[m - 1].got, v)
    BY <1>2 DEF Pops
  <2>2. m - 1 \in 1 .. Len(stack)
    BY <1>2
  <2>3. stack[m - 1].got \in Seq(1 .. Len(values)) /\ Len(stack[m - 1].got) \in Nat
    BY <2>2, FrameFacts
  <2>4. stack[m - 1].got \in Seq(Nat)
    BY <2>3, ValuesAreCounted
  <2> DEFINE k == Len(stack[m - 1].got) + 1
  <2> HIDE DEF v
  <2>5. k \in DOMAIN stack'[m - 1].got /\ k = Len(stack'[m - 1].got)
        /\ stack'[m - 1].got[k] = v
    BY <1>4, <2>1, <2>4, AppendProperties
  <2>6. m - 1 \in 2 .. Len(stack') /\ m - 1 = Len(stack')
    BY <1>2, <1>6, <2>1
  <2> HIDE DEF k
  <2>7. \/ values'[v].op = "br"
        \/ values'[v].op = "param" /\ values'[v].of[1] # currentFunction'
    BY <1>4, <1>5, ForeignStays
  <2>8. Nested'
    BY <2>5, <2>6, <2>7, Zenon DEF Nested, Unspent, Foreign
  <2> QED BY <1>2, <1>6, <2>8
<1>7. CASE m = 2
  <2>1. stack[2].node = Body
    BY <1>1, BodyIs DEF SymbolsInv
  <2> QED BY <1>2, <1>3, <1>7, <2>1 DEF StaleBody
<1> QED BY <1>2, <1>6, <1>7

\* The value that an expression returns is what it means.
LEMMA PoppedMatches ==
  ASSUME Shape, Shape', CallsInv, SymbolsInv, Rooted, Callees, BodyStep, ~ Idle, Tracked,
         ~ Doomed', PairsIn(stack, Matched), TopNode.kind # "cond", ~ Marks, ~ Pushes
  PROVE  \E v \in Nat : /\ Pops(v)
                        /\ Len(stack) > 2 \/ ~ StaleBody => <<v, Top.node>> \in Matched'
<1>1. stack # <<>> /\ Len(stack) >= 2 /\ TopNode.kind \in ExpressionKinds
  BY BodyFacts
<1>2. ~ Broken' /\ ~ Nested'
  BY DEF Doomed
<1>3. CASE ValueSteps /\ Builds(Built) /\ Pops(Len(values) + 1)
  <2>1. ArgsMatch
    BY <1>1, ArgsAreMatched DEF ExpressionKinds
  <2>2. <<Len(values) + 1, Top.node>> \in Matched'
    BY <1>2, <1>3, <2>1, ValueMatches
  <2>3. Len(values) + 1 \in Nat
    BY ValuesAreCounted
  <2> QED BY <1>3, <2>2, <2>3
<1>4. CASE /\ Variable /\ Pops(namedValues[TopNode.name])
           /\ namedValues[TopNode.name] \in 1 .. Len(values)
  <2>1. namedValues[TopNode.name] \in Nat
    BY <1>4, ValuesAreCounted
  <2>2. CASE Source!IsFresh(program, Tree)
    BY <1>4, <2>1, <2>2, VariableMatches
  <2>3. CASE ~ Source!IsFresh(program, Tree)
    <3>1. IF Len(stack) > 2 THEN Nested' ELSE StaleBody
      BY <1>4, <2>3, ForeignVariable
    <3>2. ~ (Len(stack) > 2)
      BY <1>2, <3>1
    <3>3. StaleBody
      BY <3>1, <3>2
    <3> QED BY <1>4, <2>1, <3>2, <3>3
  <2> QED BY <2>2, <2>3
<1> QED BY <1>3, <1>4, StepMoves

LEMMA KidsStay ==
  ASSUME NEW f, NEW g, NEW i, f.node = g.node
  PROVE  KidOf(f, i) = KidOf(g, i)
  BY DEF KidOf

LEMMA PairsStay ==
  ASSUME Shape, Shape', CallsInv, SymbolsInv, Rooted, Callees, BodyStep, ~ Idle, Tracked,
         ~ Doomed', PairsIn(stack, Matched)
  PROVE  PairsIn(stack, Matched)'
<1>1. stack # <<>> /\ nodes' = nodes /\ next' = next
  BY BodyFacts DEF nodes
<1>2. PICK m \in Nat : m = Len(stack) /\ m >= 2
  BY BodyFacts, TopIs
<1>3. Matched \subseteq Matched'
  BY <1>1, BodyKeeps, MatchedStays
<1>4. SUFFICES ASSUME NEW j \in 2 .. Len(stack'), NEW i \in DOMAIN stack'[j].got,
                      nodes[stack'[j].node].kind = "cond" => i = Len(stack'[j].got) /\ j = Len(stack')
               PROVE  <<stack'[j].got[i], KidOf(stack'[j], i)>> \in Matched'
  <2>1. \A f, i : KidOf(f, i)' = KidOf(f', i')
    BY <1>1 DEF KidOf
  <2> HIDE DEF nodes
  <2> QED BY <1>1, Zenon DEF PairsIn, Unspent, KidOf
<1>5. ASSUME j \in 2 .. Len(stack), i \in DOMAIN stack[j].got,
             nodes[stack[j].node].kind = "cond" => i = Len(stack[j].got) /\ j = Len(stack),
             stack'[j].node = stack[j].node, stack'[j].got[i] = stack[j].got[i]
      PROVE  <<stack'[j].got[i], KidOf(stack'[j], i)>> \in Matched'
  <2>1. <<stack[j].got[i], KidOf(stack[j], i)>> \in Matched
    BY <1>5 DEF PairsIn, Unspent
  <2>2. KidOf(stack'[j], i) = KidOf(stack[j], i)
    BY <1>5, KidsStay
  <2> QED BY <1>3, <1>5, <2>1, <2>2
<1>6. CASE Marks
  <2>1. Len(stack') = m /\ stack'[j].node = stack[j].node /\ stack'[j].got = stack[j].got
    <3>1. Len(stack') = m /\ Below(stack, stack', m - 1)
          /\ stack'[m].node = stack[m].node /\ stack'[m].got = stack[m].got
      BY <1>2, <1>6 DEF Marks
    <3>2. j < m => j \in 1 .. m - 1
      BY <1>2
    <3> QED BY <1>2, <3>1, <3>2 DEF Below
  <2> QED BY <1>2, <1>4, <1>5, <2>1
<1>7. CASE Pushes
  <2>1. /\ Len(stack') = m + 1 /\ Below(stack, stack', m - 1)
        /\ stack'[m].node = stack[m].node /\ stack'[m].got = stack[m].got
        /\ stack'[m + 1].got = <<>>
    BY <1>2, <1>7 DEF Pushes
  <2>2. j # m + 1
    BY <2>1
  <2>3. j \in 2 .. m
    BY <1>2, <2>1, <2>2
  <2>4. stack'[j].node = stack[j].node /\ stack'[j].got = stack[j].got
    <3>1. j < m => j \in 1 .. m - 1
      BY <1>2, <2>3
    <3> QED BY <1>2, <2>1, <2>3, <3>1 DEF Below
  <2>5. nodes[stack[j].node].kind # "cond"
    BY <1>2, <1>4, <2>1, <2>3, <2>4
  <2> QED BY <1>2, <1>5, <2>3, <2>4, <2>5
<1>8. ASSUME NEW v \in Nat, Pops(v), m > 2 => <<v, stack[m].node>> \in Matched'
      PROVE  <<stack'[j].got[i], KidOf(stack'[j], i)>> \in Matched'
  <2>1. /\ Len(stack') = m - 1 /\ Below(stack, stack', (m - 1) - 1)
        /\ stack'[m - 1].node = stack[m - 1].node /\ stack'[m - 1].got = Append(stack[m - 1].got, v)
    BY <1>2, <1>8 DEF Pops
  <2>2. CASE j < m - 1
    <3>1. j \in 1 .. (m - 1) - 1 /\ j \in 2 .. m /\ j # m - 1
      BY <1>2, <2>2
    <3>2. stack'[j] = stack[j]
      BY <2>1, <3>1 DEF Below
    <3>3. nodes[stack[j].node].kind # "cond"
      BY <1>4, <2>1, <3>1, <3>2
    <3> QED BY <1>2, <1>5, <3>1, <3>2, <3>3
  <2>3. CASE j = m - 1
    <3>1. j \in 1 .. Len(stack) /\ j \in 2 .. Len(stack) /\ m > 2
      BY <1>2, <2>3
    <3>2. stack[j].got \in Seq(1 .. Len(values)) /\ Len(stack[j].got) \in Nat
          /\ DOMAIN stack[j].got = 1 .. Len(stack[j].got)
      BY <3>1, FrameFacts
    <3>3. stack[j].got \in Seq(Nat)
      BY <3>2, ValuesAreCounted
    <3>4. stack'[j].got = Append(stack[j].got, v) /\ stack'[j].node = stack[j].node
      BY <2>1, <2>3
    <3>5. /\ Len(stack'[j].got) = Len(stack[j].got) + 1
          /\ \A k \in 1 .. Len(stack[j].got) : stack'[j].got[k] = stack[j].got[k]
          /\ stack'[j].got[Len(stack[j].got) + 1] = v
          /\ DOMAIN stack'[j].got = 1 .. Len(stack[j].got) + 1
      BY <3>3, <3>4, AppendProperties
    <3>6. CASE i \in 1 .. Len(stack[j].got)
      <4>1. nodes[stack[j].node].kind # "cond"
        <5>1. i # Len(stack[j].got) + 1
          BY <3>2, <3>6
        <5> QED BY <1>4, <3>4, <3>5, <5>1
      <4> QED BY <1>5, <3>1, <3>2, <3>4, <3>5, <3>6, <4>1
    <3>7. CASE i = Len(stack[j].got) + 1
      <4>1. stack[m].node = KidOf(stack[j], i)
        <5>1. j \in 1 .. Len(stack) - 1 /\ j + 1 = m
          BY <1>2, <2>3, <3>1
        <5> QED BY <3>7, <5>1 DEF SymbolsInv, Walk
      <4>2. KidOf(stack'[j], i) = KidOf(stack[j], i)
        BY <3>4, KidsStay
      <4> QED BY <1>8, <3>1, <3>5, <3>7, <4>1, <4>2
    <3>8. i \in 1 .. Len(stack[j].got) \/ i = Len(stack[j].got) + 1
      BY <3>2, <3>5
    <3> QED BY <3>6, <3>7, <3>8
  <2>4. j < m - 1 \/ j = m - 1
    BY <1>2, <2>1
  <2> QED BY <2>2, <2>3, <2>4
<1>9. CASE ~ Marks /\ ~ Pushes
  <2>1. CASE TopNode.kind = "cond"
    <3>1. m = 2
      <4>1. ~ Nested
        BY DoomedStays DEF Doomed
      <4>2. m > 2 => nodes[stack[m].node].kind # "cond"
        BY <1>2, <4>1 DEF Nested
      <4> QED BY <1>1, <1>2, <2>1, <4>2, TopIs
    <3>2. Pops(Len(values) + 1) /\ Len(values) + 1 \in Nat
      BY <1>9, <2>1, StepMoves, ValuesAreCounted
    <3> QED BY <1>8, <3>1, <3>2
  <2>2. CASE TopNode.kind # "cond"
    <3>1. PICK v \in Nat : /\ Pops(v)
                           /\ Len(stack) > 2 \/ ~ StaleBody => <<v, Top.node>> \in Matched'
      BY <1>9, <2>2, PoppedMatches
    <3>2. Top = stack[m]
      BY <1>1, <1>2, TopIs
    <3>3. m > 2 => <<v, Top.node>> \in Matched'
      BY <1>2, <3>1
    <3>4. m > 2 => <<v, stack[m].node>> \in Matched'
      BY <3>2, <3>3
    <3>5. Pops(v)
      BY <3>1
    <3>6. v \in Nat
      BY <3>1
    <3> QED BY <1>8, <3>4, <3>5, <3>6, Zenon
  <2> QED BY <2>1, <2>2
<1> QED BY <1>6, <1>7, <1>9

-----------------------------------------------------------------------------
(* Where the code of the body is *)

LEMMA BodyStays ==
  ASSUME program' = program, next' = next
  PROVE  /\ nodes' = nodes /\ Tree' = Tree /\ Body' = Body
         /\ \A i : CondKid(i)' = CondKid(i')
         /\ IsCond' = IsCond
<1>1. nodes' = nodes /\ Tree' = Tree
  BY DEF nodes, Tree
<1>2. Body' = Body
  BY <1>1 DEF Body
<1> HIDE DEF nodes, Tree, Body
<1>3. IsCond' = IsCond
  BY <1>1, <1>2 DEF IsCond
<1>4. \A i : CondKid(i)' = CondKid(i')
  BY <1>1, <1>2 DEF CondKid
<1> QED BY <1>1, <1>2, <1>3, <1>4

LEMMA ConditionalSteps ==
  ASSUME Shape, BodyStep, ~ Idle, TopNode.kind # "cond"
  PROVE  insertion' = insertion /\ shouldReturn' = shouldReturn
<1>1. ~ (BeginIf \/ BeginElse \/ BeginCondition \/ BuildBranch)
  BY DEF BeginIf, BeginElse, BeginCondition, BuildBranch, At
<1>2. CASE ValueSteps
  BY <1>2, ValuesBuild DEF Builds, fields
<1>3. CASE Variable \/ Operand \/ Argument
  BY <1>3 DEF Variable, Operand, Argument, module, fields
<1>4. CASE BeginCall
  BY <1>4 DEF BeginCall, Halt, module, fields
<1> QED BY <1>1, <1>2, <1>3, <1>4 DEF BodyStep, VisitSteps

LEMMA StaleStays ==
  ASSUME program' = program, next' = next, namedValues' = namedValues, StaleBody
  PROVE  StaleBody'
<1>1. nodes' = nodes /\ Tree' = Tree /\ Body' = Body
  BY BodyStays
<1>2. Source!IsFresh(program', Tree') = Source!IsFresh(program, Tree)
  BY <1>1
<1> HIDE DEF nodes, Tree, Body
<1> QED BY <1>1, <1>2 DEF StaleBody

LEMMA PlainStays ==
  ASSUME Shape, Shape', CallsInv, SymbolsInv, Rooted, Callees, BodyStep, ~ Idle, Tracked,
         ~ Doomed', PairsIn(stack, Matched), ~ IsCond, PlainLayout
  PROVE  PlainLayout'
<1>1. /\ stack # <<>> /\ Entered(stack) /\ program' = program /\ next' = next
      /\ namedValues' = namedValues /\ currentBB' = currentBB
  BY BodyFacts
<1>2. PICK m \in Nat : m = Len(stack) /\ m >= 2
  BY BodyFacts, TopIs
<1>3. stack[2].node = Body /\ stack[1].got = <<>> /\ nodes[stack[2].node].kind # "cond"
  BY <1>1, <1>2, BodyIs DEF SymbolsInv
<1>4. ~ Nested
  BY DoomedStays DEF Doomed
<1>5. TopNode.kind # "cond" /\ Top = stack[m]
  <2>1. Top = stack[m] /\ TopNode = nodes[stack[m].node]
    BY <1>1, <1>2, TopIs
  <2>2. m > 2 => nodes[stack[m].node].kind # "cond"
    BY <1>2, <1>4 DEF Nested
  <2>3. m = 2 \/ m > 2
    BY <1>2
  <2> QED BY <1>3, <2>1, <2>2, <2>3
<1>6. insertion' = currentBB' /\ shouldReturn'
  BY <1>1, <1>5, ConditionalSteps DEF PlainLayout
<1>7. ASSUME Len(stack') = 1, stack'[1].got # <<>>, ~ StaleBody
      PROVE  <<stack'[1].got[1], Body>> \in Matched'
  <2>1. ~ Marks /\ ~ Pushes
    BY <1>2, <1>7 DEF Marks, Pushes
  <2>2. PICK v \in Nat : Pops(v) /\ (~ StaleBody => <<v, Top.node>> \in Matched')
    BY <1>5, <2>1, PoppedMatches
  <2>3. m = 2 /\ stack'[1].got = Append(<<>>, v)
    <3>1. Len(stack') = m - 1 /\ stack'[m - 1].got = Append(stack[m - 1].got, v)
      BY <1>2, <2>2 DEF Pops
    <3>2. m = 2
      <4>1. m - 1 = 1
        BY <1>7, <3>1
      <4> QED BY <4>1
    <3> QED BY <1>3, <3>1, <3>2
  <2>4. stack'[1].got[1] = v
    BY <2>3
  <2> QED BY <1>3, <1>5, <1>7, <2>2, <2>3, <2>4
<1>8. Body' = Body /\ (StaleBody => StaleBody')
  BY <1>1, BodyStays, StaleStays
<1> HIDE DEF Body, StaleBody, Matched
<1>9. (Len(stack') = 1 /\ stack'[1].got # <<>>) =>
        StaleBody' \/ <<stack'[1].got[1], Body'>> \in Matched'
  BY <1>7, <1>8
<1> QED BY <1>6, <1>9 DEF PlainLayout

\* A return of a branch stays where it is.
LEMMA RetInStays ==
  ASSUME Shape, Shape', CallsInv, BodyStep, ~ Idle,
         NEW b \in 1 .. Len(functions[currentFunction].blocks), NEW n,
         RetIn(functions, values, Matched, currentFunction, b, n)
  PROVE  /\ RetIn(functions', values', Matched', currentFunction, b, n)
         /\ b \in 1 .. Len(functions'[currentFunction].blocks)
<1> DEFINE c == currentFunction
<1>1. PICK v \in 1 .. Len(values), r \in 1 .. Len(values) :
        InBlock(functions, c, b, v) /\ values[v] = ReturnOf(<<r>>) /\ <<r, n>> \in Matched
  BY DEF RetIn
<1>2. b \in 1 .. Len(functions'[c].blocks) /\ InBlock(functions', c, b, v)
  BY <1>1, InBlockStays
<1>3. next' = next /\ [Next]_vars
  BY BodyFacts, BodyKeeps
<1>4. v \in 1 .. Len(values') /\ r \in 1 .. Len(values') /\ values'[v] = values[v]
  BY BodyKeeps
<1>5. <<r, n>> \in Matched'
  BY <1>1, <1>3, MatchedStays
<1> HIDE DEF Matched
<1>6. values'[v] = ReturnOf(<<r>>)
  BY <1>1, <1>4
<1> QED BY <1>2, <1>4, <1>5, <1>6 DEF RetIn

\* The return that a branch ends with.
LEMMA RetInNew ==
  ASSUME Shape, Shape', CallsInv, BodyStep, ~ Idle, BeginElse \/ BeginCondition,
         NEW b, b = insertion[2], NEW n, <<Got(Len(Top.got)), n>> \in Matched
  PROVE  /\ RetIn(functions', values', Matched', currentFunction, b, n)
         /\ b \in 1 .. Len(functions'[currentFunction].blocks)
<1> DEFINE c == currentFunction
<1>1. PICK r : r = Got(Len(Top.got))
  OBVIOUS
<1>2. PICK v \in Nat : v = Len(values) + 1
  BY ValuesAreCounted
<1>3. values' = Append(values, ReturnOf(<<r>>))
  BY <1>1 DEF BeginElse, BeginCondition, WithReturn, At
<1>4. v \in 1 .. Len(values') /\ values'[v] = ReturnOf(<<r>>)
  BY <1>2, <1>3, Appended
<1>5. next' = next /\ [Next]_vars
  BY BodyFacts, BodyKeeps
<1>6. r \in 1 .. Len(values') /\ <<r, n>> \in Matched'
  <2>1. <<r, n>> \in Matched
    BY <1>1
  <2>2. r \in 1 .. Len(values)
    BY <2>1 DEF Matched
  <2>3. r \in 1 .. Len(values')
    BY <2>2, BodyKeeps
  <2> QED BY <1>5, <2>1, <2>3, MatchedStays
<1>7. InBlock(functions', c, b, v)
  BY <1>2, NewInBlock DEF Inserts
<1>8. b \in 1 .. Len(functions'[c].blocks)
  BY BodyBlocks
<1> HIDE DEF Matched
<1> QED BY <1>4, <1>6, <1>7, <1>8 DEF RetIn

-----------------------------------------------------------------------------
(* The blocks of a conditional *)

\* Within a branch or the condition, the frame of the conditional waits.
LEMMA TurnStays ==
  ASSUME Shape, NEW m \in Nat, m = Len(stack), m > 2, Moves
  PROVE  /\ Len(stack') >= 2 /\ Turn' = Turn
         /\ stack'[2].of = stack[2].of
<1>1. stack[2].got \in Seq(Nat) /\ Len(stack[2].got) \in Nat
  <2>1. 2 \in 1 .. Len(stack)
    OBVIOUS
  <2> QED BY <2>1, FrameFacts, OperandFacts, ValuesAreCounted
<1>2. CASE Marks \/ Pushes
  <2>1. (Len(stack') = m \/ Len(stack') = m + 1) /\ stack'[2] = stack[2]
    BY <1>2 DEF Marks, Pushes, Below
  <2>2. Len(stack') > 2
    BY <2>1
  <2> QED BY <2>1, <2>2 DEF Turn
<1>3. ASSUME NEW v \in Nat, Pops(v), m > 3
      PROVE  /\ Len(stack') >= 2 /\ Turn' = Turn
             /\ stack'[2].of = stack[2].of
  <2>1. Len(stack') = m - 1 /\ stack'[2] = stack[2]
    BY <1>3 DEF Pops, Below
  <2>2. Len(stack') > 2
    BY <1>3, <2>1
  <2> QED BY <2>1, <2>2 DEF Turn
<1>4. ASSUME NEW v \in Nat, Pops(v), m = 3
      PROVE  /\ Len(stack') >= 2 /\ Turn' = Turn
             /\ stack'[2].of = stack[2].of
  <2>1. m - 1 = 2
    BY <1>4
  <2>2. Len(stack') = 2 /\ stack'[2].of = stack[2].of /\ stack'[2].got = Append(stack[2].got, v)
    BY <2>1, <1>4 DEF Pops
  <2>3. Len(stack'[2].got) = Len(stack[2].got) + 1
    BY <1>1, <2>2, AppendProperties
  <2> QED BY <1>1, <1>4, <2>2, <2>3 DEF Turn
<1> QED BY <1>2, <1>3, <1>4 DEF Moves

LEMMA CondStaysBelow ==
  ASSUME Shape, Shape', CallsInv, SymbolsInv, Rooted, BodyStep, ~ Idle,
         ~ Nested, IsCond, CondLayout, NEW m \in Nat, m = Len(stack), m > 2
  PROVE  CondLayout'
<1> DEFINE of == stack[2].of
           c == currentFunction
<1>1. /\ stack # <<>> /\ Entered(stack) /\ program' = program /\ next' = next /\ Moves
      /\ currentFunction' = c /\ currentBB' = currentBB
  BY BodyFacts
<1>2. TopNode.kind # "cond"
  <2>1. TopNode = nodes[stack[m].node]
    BY <1>1, TopIs
  <2>2. m \in 2 .. Len(stack)
    OBVIOUS
  <2> QED BY <2>1, <2>2 DEF Nested
<1>3. insertion' = insertion
  BY <1>2, ConditionalSteps
<1>4. Len(stack') >= 2 /\ Turn' = Turn /\ stack'[2].of = of
  BY <1>1, TurnStays
<1>5. CondOpen
  BY DEF CondLayout
<1>6. \A b \in 1 .. Len(functions[c].blocks) : b \in 1 .. Len(functions'[c].blocks)
  <2>1. Len(functions[c].blocks) \in Nat /\ Len(functions'[c].blocks) \in Nat
        /\ Len(functions[c].blocks) <= Len(functions'[c].blocks)
    BY BodyBlocks
  <2> QED BY <2>1
<1>7. CondKid(2)' = CondKid(2) /\ CondKid(3)' = CondKid(3)
  BY <1>1, BodyStays
<1> HIDE DEF Turn, CondKid, IsCond, of
<1>8. Turn >= 2 => of[1] \in 1 .. Len(functions[c].blocks) /\ Returning(of[1], CondKid(2))
  BY <1>5 DEF CondOpen, of
<1>9. Turn = 3 => of[2] \in 1 .. Len(functions[c].blocks) /\ Returning(of[2], CondKid(3))
  BY <1>5 DEF CondOpen, of
<1>10. Turn >= 2 => RetIn(functions', values', Matched', c, of[1], CondKid(2))
  BY <1>8, RetInStays DEF Returning
<1>11. Turn = 3 => RetIn(functions', values', Matched', c, of[2], CondKid(3))
  BY <1>9, RetInStays DEF Returning
<1>12. CondOpen'
  BY <1>1, <1>3, <1>4, <1>5, <1>6, <1>7, <1>10, <1>11 DEF CondOpen, Returning, of
<1> QED BY <1>4, <1>12 DEF CondLayout

\* What the conditional itself may do.
LEMMA CondMoves ==
  ASSUME Shape, BodyStep, ~ Idle, TopNode.kind = "cond"
  PROVE  \/ BeginIf /\ Len(Top.got) = 0
         \/ BeginElse /\ Len(Top.got) = 1
         \/ BeginCondition /\ Len(Top.got) = 2
         \/ BuildBranch /\ Len(Top.got) = 3 /\ Builds(Branch(Got(3), Top.of)) /\ Pops(Len(values) + 1)
<1>1. CASE VisitSteps
  <2>1. ~ Operand /\ ~ Argument
    BY DEF Operand, Argument, InCall, At
  <2> QED BY <1>1, <2>1 DEF VisitSteps, BeginIf, BeginElse, BeginCondition, At
<1>2. CASE ValueSteps
  <2>1. ~ Number /\ ~ BinaryOperation /\ ~ BuildCall
    BY DEF Number, BinaryOperation, BuildCall, InCall, At
  <2>2. BuildBranch /\ Len(Top.got) = 3
    BY <1>2, <2>1 DEF ValueSteps, BuildBranch, At
  <2>3. stack # <<>> /\ Builds(Built)
    BY <1>2, ValuesBuild
  <2>4. Built = Branch(Got(3), Top.of)
    BY DEF Built
  <2>5. Pops(Len(values) + 1)
    <3>1. stack' = Returned(Len(values) + 1) /\ Len(values) + 1 \in Nat
      BY <2>3, ValuesAreCounted DEF Builds
    <3>2. TopNode.kind \in ExpressionKinds
      BY <1>2, ValuesBuild
    <3> QED BY <2>3, <3>1, <3>2, ReturnPops
  <2> QED BY <2>2, <2>3, <2>4, <2>5
<1>3. ~ Variable /\ ~ BeginCall
  BY DEF Variable, BeginCall, At
<1> QED BY <1>1, <1>2, <1>3 DEF BodyStep

\* The value that the body has got last.
LEMMA LastGot ==
  ASSUME Shape, Walk, Rooted, Entered(stack), IsCond, PairsIn(stack, Matched), Len(stack) = 2,
         NEW k \in Nat, k = Len(stack[2].got), k > 0
  PROVE  <<stack[2].got[k], CondKid(IF k = 3 THEN 1 ELSE k + 1)>> \in Matched
<1>1. stack[2].node = Body /\ nodes[stack[2].node].kind = "cond"
  BY BodyIs
<1>2. 2 \in 1 .. Len(stack)
  OBVIOUS
<1>3. k \in DOMAIN stack[2].got
  BY <1>2, FrameFacts
<1>4. Unspent(stack, 2, k)
  BY <1>3 DEF Unspent
<1>5. <<stack[2].got[k], KidOf(stack[2], k)>> \in Matched
  BY <1>3, <1>4 DEF PairsIn
<1>6. KidOf(stack[2], k) = CondKid(IF k = 3 THEN 1 ELSE k + 1)
  BY <1>1 DEF KidOf, KidAt, CondKid
<1> QED BY <1>5, <1>6

LEMMA CondTurns ==
  ASSUME Shape, Shape', CallsInv, SymbolsInv, Rooted, BodyStep, ~ Idle,
         PairsIn(stack, Matched), IsCond, CondLayout, Len(stack) = 2, ~ BuildBranch
  PROVE  CondLayout'
<1> DEFINE of == stack[2].of
           c  == currentFunction
           cs == functions'[c].blocks
<1>1. /\ stack # <<>> /\ Entered(stack) /\ program' = program /\ next' = next
      /\ currentFunction' = c /\ currentBB' = currentBB /\ Walk
  BY BodyFacts DEF SymbolsInv
<1>2. Top = stack[2] /\ TopNode.kind = "cond"
  BY <1>1, TopIs, BodyIs
<1>3. /\ CondOpen /\ Turn = Len(stack[2].got)
      /\ of \in Seq(Nat) /\ Len(stack[2].got) \in Nat
  <2>1. Len(stack[2].got) \in Nat /\ of \in Seq(Nat)
    <3>1. 2 \in 1 .. Len(stack)
      OBVIOUS
    <3> QED BY <3>1, FrameFacts
  <2> QED BY <2>1 DEF CondLayout, Turn
<1>4. /\ Len(functions[c].blocks) \in Nat /\ Len(cs) \in Nat
      /\ Len(functions[c].blocks) <= Len(cs)
      /\ BeginIf \/ BeginElse => Len(cs) > 0
  BY BodyBlocks
<1>5. VisitSteps
  BY <1>2, CondMoves DEF VisitSteps
<1>6. /\ Len(stack') = 3 /\ stack'[2].got = stack[2].got
      /\ BeginIf \/ BeginElse => stack'[2].of = Append(of, Len(cs)) /\ insertion' = <<c, Len(cs)>>
      /\ BeginCondition => stack'[2].of = of /\ insertion' = currentBB
  <2>1. /\ Pushes
        /\ BeginIf \/ BeginElse => stack'[2].of = Append(Top.of, LastBlock(functions', c)[2])
        /\ BeginCondition => stack'[2] = stack[2]
    BY <1>1, <1>5, VisitsPush
  <2>2. BeginIf \/ BeginElse => insertion' = LastBlock(functions', c)
    BY DEF BeginIf, BeginElse, GenerateInto
  <2>3. BeginCondition => insertion' = currentBB
    BY DEF BeginCondition
  <2> QED BY <1>2, <2>1, <2>2, <2>3 DEF Pushes, LastBlock
<1>7. Turn' = Turn + 1
  BY <1>3, <1>6 DEF Turn
<1>8. \A b \in 1 .. Len(functions[c].blocks) : b \in 1 .. Len(cs)
  BY <1>4
<1>9. CondKid(2)' = CondKid(2) /\ CondKid(3)' = CondKid(3)
  BY <1>1, BodyStays
<1>10. ASSUME NEW k \in {1, 2}, Turn = k, BeginElse \/ BeginCondition
       PROVE  RetIn(functions', values', Matched', c, of[k], CondKid(k + 1))
  <2>1. <<stack[2].got[k], CondKid(k + 1)>> \in Matched
    BY <1>1, <1>3, <1>10, LastGot
  <2>2. insertion[2] = of[k]
    BY <1>3, <1>10 DEF CondOpen
  <2>3. Got(Len(Top.got)) = stack[2].got[k]
    <3>1. Top.got = stack[2].got /\ Len(stack[2].got) = k
      BY <1>2, <1>3, <1>10
    <3> QED BY <3>1 DEF Got
  <2> HIDE DEF of, Matched, CondKid
  <2> QED BY <1>10, <2>1, <2>2, <2>3, RetInNew
<1> HIDE DEF Turn, CondKid, IsCond
<1>11. CASE BeginIf /\ Turn = 0
  <2>1. Len(of) = 0
    BY <1>3, <1>11 DEF CondOpen
  <2> HIDE DEF of
  <2>2. of = <<>>
    BY <1>3, <2>1
  <2> HIDE DEF cs
  <2>3. stack'[2].of = <<Len(cs)>> /\ insertion' = <<c, Len(cs)>>
    BY <1>6, <1>11, <2>2
  <2>4. Turn' = 1
    BY <1>7, <1>11
  <2>5. Len(cs) \in 1 .. Len(cs)
    BY <1>4, <1>11
  <2>6. CondOpen'
    BY <1>1, <2>3, <2>4, <2>5 DEF CondOpen, cs
  <2> QED BY <1>6, <2>6 DEF CondLayout
<1>12. CASE BeginElse /\ Turn = 1
  <2>1. Len(of) = 1 /\ of[1] \in 1 .. Len(functions[c].blocks)
    BY <1>3, <1>12 DEF CondOpen
  <2>2. RetIn(functions', values', Matched', c, of[1], CondKid(2))
    BY <1>10, <1>12
  <2> HIDE DEF of
  <2> HIDE DEF cs
  <2>3. /\ stack'[2].of = Append(of, Len(cs)) /\ insertion' = <<c, Len(cs)>>
    BY <1>6, <1>12
  <2>4. Len(stack'[2].of) = 2 /\ stack'[2].of[1] = of[1] /\ stack'[2].of[2] = Len(cs)
    <3>1. PICK k \in Nat : k = Len(cs)
      BY <1>4
    <3>2. of \in Seq(Nat)
      BY <1>3
    <3>3. Len(Append(of, k)) = 2 /\ Append(of, k)[1] = of[1] /\ Append(of, k)[2] = k
      <4>1. /\ Len(Append(of, k)) = Len(of) + 1 /\ Append(of, k)[Len(of) + 1] = k
            /\ \A i \in 1 .. Len(of) : Append(of, k)[i] = of[i]
        BY <3>2, AppendProperties
      <4>2. Len(Append(of, k)) = 2 /\ Append(of, k)[2] = k
        BY <2>1, <4>1
      <4>3. Append(of, k)[1] = of[1]
        BY <2>1, <4>1
      <4> QED BY <4>2, <4>3
    <3> QED BY <2>3, <3>1, <3>3
  <2>5. Turn' = 2
    BY <1>7, <1>12
  <2>6. Len(cs) \in 1 .. Len(cs) /\ of[1] \in 1 .. Len(cs)
    BY <1>4, <1>8, <1>12, <2>1
  <2>7. insertion' = <<c, stack'[2].of[2]>>
    BY <2>3, <2>4
  <2>8. \A i \in 1 .. 2 : stack'[2].of[i] \in 1 .. Len(cs)
    BY <2>4, <2>6
  <2>9. CondOpen'
    BY <1>1, <1>9, <2>2, <2>4, <2>5, <2>7, <2>8 DEF CondOpen, cs, Returning
  <2> QED BY <1>6, <2>9 DEF CondLayout
<1>13. CASE BeginCondition /\ Turn = 2
  <2>1. /\ Len(of) = 2 /\ of[1] \in 1 .. Len(functions[c].blocks)
        /\ of[2] \in 1 .. Len(functions[c].blocks) /\ Returning(of[1], CondKid(2))
    BY <1>3, <1>13 DEF CondOpen
  <2>2. RetIn(functions', values', Matched', c, of[1], CondKid(2))
    BY <2>1, RetInStays DEF Returning
  <2>3. RetIn(functions', values', Matched', c, of[2], CondKid(3))
    BY <1>10, <1>13
  <2> HIDE DEF of, cs
  <2>4. Turn' = 3
    BY <1>7, <1>13
  <2>5. \A i \in 1 .. 2 : of[i] \in 1 .. Len(cs)
    BY <1>8, <2>1
  <2>6. stack'[2].of = of /\ insertion' = currentBB
    BY <1>6, <1>13
  <2>7. \A i \in 1 .. Len(stack'[2].of) : stack'[2].of[i] \in 1 .. Len(functions'[c].blocks)
    BY <2>1, <2>5, <2>6 DEF cs
  <2>8. Returning(stack[2].of[1], CondKid(2))' /\ Returning(stack[2].of[2], CondKid(3))'
    BY <1>1, <1>9, <2>2, <2>3, <2>6 DEF Returning
  <2>9. Len(stack'[2].of) = 2
    BY <2>1, <2>6
  <2>10. CondOpen'
    BY <1>1, <2>4, <2>6, <2>7, <2>8, <2>9 DEF CondOpen
  <2> QED BY <1>6, <2>10 DEF CondLayout
<1> QED BY <1>2, <1>3, <1>11, <1>12, <1>13, CondMoves

LEMMA CondEnds ==
  ASSUME Shape, Shape', CallsInv, SymbolsInv, Rooted, BodyStep, ~ Idle,
         PairsIn(stack, Matched), IsCond, CondLayout, Len(stack) = 2, BuildBranch
  PROVE  CondLayout'
<1> DEFINE of == stack[2].of
           f  == currentFunction
<1>1. /\ stack # <<>> /\ Entered(stack) /\ program' = program /\ next' = next
      /\ currentFunction' = f /\ currentBB' = currentBB /\ Walk /\ [Next]_vars
  BY BodyFacts, BodyKeeps DEF SymbolsInv
<1>2. Top = stack[2] /\ TopNode.kind = "cond" /\ stack[1].got = <<>>
  BY <1>1, TopIs, BodyIs
<1>3. PICK v \in Nat : v = Len(values) + 1
  BY ValuesAreCounted
<1>4. /\ ~ BeginIf /\ ~ BeginElse /\ ~ BeginCondition
  <2>1. ~ VisitSteps
    BY DEF BuildBranch, VisitSteps, BeginIf, BeginElse, BeginCondition, Operand, Argument, InCall, At
  <2> QED BY <2>1 DEF VisitSteps
<1>5. Len(Top.got) = 3 /\ Builds(Branch(Got(3), Top.of)) /\ Pops(v)
  BY <1>2, <1>3, <1>4, CondMoves
<1>6. Turn = 3 /\ CondOpen
  BY <1>2, <1>5 DEF CondLayout, Turn
<1>7. PICK b1 \in 1 .. Len(functions[f].blocks), b2 \in 1 .. Len(functions[f].blocks) :
        of = <<b1, b2>>
  <2>1. of \in Seq(Nat)
    <3>1. 2 \in 1 .. Len(stack)
      OBVIOUS
    <3> QED BY <3>1, FrameFacts
  <2>2. Len(of) = 2 /\ \A i \in 1 .. 2 : of[i] \in 1 .. Len(functions[f].blocks)
    BY <1>6 DEF CondOpen
  <2> HIDE DEF of
  <2>3. of = <<of[1], of[2]>>
    BY <2>1, <2>2
  <2> QED BY <2>2, <2>3
<1>8. /\ insertion = currentBB
      /\ Returning(b1, CondKid(2)) /\ Returning(b2, CondKid(3))
  BY <1>6, <1>7 DEF CondOpen
<1>9. PICK c : c = Got(3) /\ <<c, CondKid(1)>> \in Matched
  <2>1. Got(3) = stack[2].got[3] /\ Len(stack[2].got) = 3
    BY <1>2, <1>5 DEF Got
  <2>2. <<stack[2].got[3], CondKid(1)>> \in Matched
    BY <1>1, <2>1, LastGot
  <2> QED BY <2>1, <2>2
<1>10. /\ values' = Append(values, Branch(c, <<b1, b2>>))
       /\ values'[v] = Branch(c, <<b1, b2>>) /\ v \in 1 .. Len(values')
  <2>1. values' = Append(values, Branch(c, <<b1, b2>>))
    BY <1>2, <1>5, <1>7, <1>9 DEF Builds
  <2> QED BY <1>3, <2>1, Appended
<1>11. InBlock(functions', f, currentBB[2], v)
  <2>1. ValueSteps /\ Built = Branch(Got(3), Top.of)
    BY <1>2 DEF ValueSteps, Built
  <2>2. Inserts
    BY <2>1 DEF Inserts, Branch, Instruction, Value
  <2> QED BY <1>3, <1>8, <2>2, NewInBlock
<1>12. c \in 1 .. Len(values') /\ <<c, CondKid(1)>> \in Matched'
  <2>1. c \in 1 .. Len(values)
    BY <1>9 DEF Matched
  <2>2. c \in 1 .. Len(values')
    BY <2>1, BodyKeeps
  <2> QED BY <1>1, <1>9, <2>2, MatchedStays
<1>13. /\ RetIn(functions', values', Matched', f, b1, CondKid(2))
       /\ RetIn(functions', values', Matched', f, b2, CondKid(3))
       /\ b1 \in 1 .. Len(functions'[f].blocks) /\ b2 \in 1 .. Len(functions'[f].blocks)
  BY <1>8, RetInStays DEF Returning
<1>14. Len(stack') = 1 /\ stack'[1].got = <<v>>
  <2>1. Len(stack') = 1 /\ stack'[1].got = Append(stack[1].got, v)
    BY <1>5 DEF Pops
  <2> QED BY <1>2, <2>1
<1>15. CondKid(1)' = CondKid(1) /\ CondKid(2)' = CondKid(2) /\ CondKid(3)' = CondKid(3)
  BY <1>1, BodyStays
<1> HIDE DEF Matched, CondKid
<1>16. Returning(b1, CondKid(2))' /\ Returning(b2, CondKid(3))'
  BY <1>1, <1>13, <1>15 DEF Returning
<1>17. CondDone'
  BY <1>1, <1>10, <1>11, <1>12, <1>13, <1>14, <1>15, <1>16 DEF CondDone, DoneBy
<1> QED BY <1>14, <1>17 DEF CondLayout

LEMMA CondStays ==
  ASSUME Shape, Shape', CallsInv, SymbolsInv, Rooted, Callees, BodyStep, ~ Idle, Tracked,
         ~ Doomed', PairsIn(stack, Matched), IsCond, CondLayout
  PROVE  CondLayout'
<1>1. PICK m \in Nat : m = Len(stack) /\ m >= 2
  BY BodyFacts, TopIs
<1>2. ~ Nested
  BY DoomedStays DEF Doomed
<1>3. CASE m > 2
  BY <1>1, <1>2, <1>3, CondStaysBelow
<1>4. CASE m = 2
  BY <1>1, <1>4, CondTurns, CondEnds
<1> QED BY <1>1, <1>3, <1>4

-----------------------------------------------------------------------------
(* The invariant *)

LEMMA GoodStays ==
  ASSUME Shape, Shape', CallsInv, SymbolsInv, Rooted, Callees, BodyStep, ~ Idle, Tracked,
         ~ Doomed', Good
  PROVE  Good'
<1>1. program' = program /\ next' = next
  BY BodyFacts
<1>2. IsCond' = IsCond
  BY <1>1, BodyStays
<1>3. PairsIn(stack, Matched)'
  BY PairsStay DEF Good
<1>4. IF IsCond THEN CondLayout' ELSE PlainLayout'
  BY CondStays, PlainStays DEF Good
<1> QED BY <1>2, <1>3, <1>4 DEF Good

LEMMA TrackedStays ==
  ASSUME program' = program, next' = next
  PROVE  Tracked' = Tracked
BY DEF Tracked, Tree

LEMMA GoodAtFirst ==
  ASSUME Shape, Walk, BeginMotif \/ BeginKnownMotif
  PROVE  Good'
<1> DEFINE root == nodes[program.trees[Tree]]
<1>1. /\ stack # <<>> /\ TopNode = root /\ program' = program /\ next' = next
  BY EnterFacts DEF Walk, TopNode
<1>2. /\ insertion' = currentBB' /\ shouldReturn' /\ stack'[1].got = <<>>
      /\ IF Len(root.kids) = 1
           THEN Len(stack') = 1
           ELSE Len(stack') = 2 /\ stack'[2].got = <<>> /\ stack'[2].of = <<>>
  <2>1. shouldReturn' = TRUE
    BY EnterFacts
  <2>2. insertion' = currentBB' /\ stack'[1].got = <<>>
    BY EnterFacts
  <2>3. IF Len(TopNode.kids) = 1
          THEN Len(stack') = 1
          ELSE Len(stack') = 2 /\ stack'[2].got = <<>> /\ stack'[2].of = <<>>
    BY EnterFacts
  <2> HIDE DEF root
  <2> QED BY <1>1, <2>1, <2>2, <2>3
<1>3. nodes' = nodes /\ Tree' = Tree
  BY <1>1 DEF nodes, Tree
<1>4. PairsIn(stack, Matched)'
  <2>1. \A j \in 2 .. Len(stack') : stack'[j].got = <<>>
    BY <1>2
  <2> QED BY <2>1 DEF PairsIn
<1>5. CASE IsCond
  <2>1. Len(stack') = 2 /\ stack'[2].got = <<>> /\ stack'[2].of = <<>>
    <3>1. Len(root.kids) # 1
      BY <1>5 DEF IsCond
    <3> HIDE DEF root
    <3> QED BY <1>2, <3>1
  <2>2. Turn' = 0
    BY <2>1 DEF Turn
  <2>3. CondOpen'
    BY <1>2, <2>1, <2>2 DEF CondOpen
  <2>4. IsCond' = IsCond
    BY <1>1, BodyStays
  <2> QED BY <1>4, <1>5, <2>1, <2>3, <2>4 DEF Good, CondLayout
<1>6. CASE ~ IsCond
  <2>1. PlainLayout'
    BY <1>2 DEF PlainLayout
  <2>2. IsCond' = IsCond
    BY <1>1, BodyStays
  <2> QED BY <1>4, <1>6, <2>1, <2>2 DEF Good
<1> QED BY <1>5, <1>6

LEMMA BodyInvIdles ==
  ASSUME UNCHANGED <<program, next, stack, module, fields>>, BodyInv
  PROVE  BodyInv'
<1>1. /\ program' = program /\ next' = next /\ stack' = stack /\ values' = values
      /\ functions' = functions /\ insertion' = insertion /\ namedValues' = namedValues
      /\ currentFunction' = currentFunction /\ currentBB' = currentBB
      /\ shouldReturn' = shouldReturn
  BY DEF module, fields
<1>2. nodes' = nodes /\ Tree' = Tree /\ Body' = Body /\ IsCond' = IsCond
      /\ \A i : CondKid(i)' = CondKid(i)
  <2>1. \A i : CondKid(i)' = CondKid(i')
    BY <1>1, BodyStays
  <2> QED BY <1>1, <2>1, BodyStays
<1>3. Matched' = Matched
  <2>1. Terms' = Terms
    BY <1>1 DEF Terms, TermOf
  <2>2. \A v, n : Matches(v, n)' = Matches(v', n')
    BY <1>1, <1>2, <2>1 DEF Matches, MeaningOf, Folded, TypeOfNode
  <2> QED BY <1>1, <1>2, <2>1 DEF Matched, Matches, MeaningOf, Folded, TypeOfNode
<1> HIDE DEF Matched, IsCond, Body, Tree, nodes
<1>4. Broken' = Broken
  BY <1>1 DEF Broken
<1>5. Nested' = Nested
  BY <1>1, <1>2 DEF Nested, Unspent, Foreign
<1>6. CondLayout' = CondLayout
  <2>1. Turn' = Turn
    BY <1>1 DEF Turn
  <2>2. CondKid(1)' = CondKid(1) /\ CondKid(2)' = CondKid(2) /\ CondKid(3)' = CondKid(3)
    BY <1>2
  <2>3. CondOpen' = CondOpen
    BY <1>1, <1>2, <1>3, <2>1, <2>2 DEF CondOpen, Returning
  <2>4. ASSUME NEW v, NEW c, NEW b1, NEW b2
        PROVE  DoneBy(v, c, b1, b2)' <=> DoneBy(v', c', b1', b2')
    BY <1>1, <1>3, <2>2 DEF DoneBy, Returning
  <2>5. CondDone <=> CondDone'
    BY <1>1, <2>4 DEF CondDone
  <2> QED BY <1>1, <2>3, <2>5 DEF CondLayout
<1>7. PlainLayout' = PlainLayout
  <2>1. StaleBody' = StaleBody
    <3>1. Source!IsFresh(program', Tree') = Source!IsFresh(program, Tree)
      BY <1>1, <1>2
    <3> QED BY <1>1, <1>2, <3>1 DEF StaleBody
  <2> QED BY <1>1, <1>2, <1>3, <2>1 DEF PlainLayout
<1>8. PairsIn(stack, Matched)' = PairsIn(stack, Matched)
  BY <1>1, <1>2, <1>3 DEF PairsIn, KidOf, Unspent
<1>9. Good' = Good
  BY <1>2, <1>6, <1>7, <1>8 DEF Good
<1>10. Tracked' = Tracked
  BY <1>1, TrackedStays
<1>11. Entered(stack)' = Entered(stack)
  BY <1>1
<1> QED BY <1>4, <1>5, <1>9, <1>10, <1>11 DEF BodyInv, Doomed

\* Outside of motifs there is nothing in progress.
LEMMA NothingEntered ==
  ASSUME Shape, BeginTree \/ Prototype \/ Ends
  PROVE  ~ Entered(stack')
<1>1. CASE BeginTree
  <2>1. stack' = <<Frame(program.trees[next])>>
    BY <1>1 DEF BeginTree
  <2>2. stack'[1].of = <<>>
    BY <2>1 DEF Frame
  <2> QED BY <2>2 DEF Entered
<1>2. CASE Prototype
  <2>1. stack # <<>> /\ TopNode.kind = "prototype" /\ stack' = Returned(Len(functions) + 1)
    BY <1>2 DEF Prototype, At
  <2>2. TopNode.kind \notin ExpressionKinds
    BY <2>1 DEF ExpressionKinds
  <2>3. stack' = <<>>
    BY <2>1, <2>2, RootReturns
  <2> QED BY <2>3 DEF Entered
<1>3. CASE Ends
  BY <1>3 DEF Ends, Entered
<1> QED BY <1>1, <1>2, <1>3

LEMMA BodyInvStays ==
  ASSUME Shape, Shape', CallsInv, SymbolsInv, Rooted, Callees, BodyInv, [Next]_vars
  PROVE  BodyInv'
<1>1. CASE Idle
  BY <1>1, BodyInvIdles DEF Idle
<1>2. CASE BodyStep /\ ~ Idle
  <2> SUFFICES ASSUME Tracked', ~ Doomed' PROVE Good'
    BY DEF BodyInv
  <2>1. Entered(stack) /\ program' = program /\ next' = next
    BY <1>2, BodyFacts
  <2>2. Tracked
    BY <2>1, TrackedStays
  <2>3. ~ Doomed
    BY <1>2, <2>2, DoomedStays
  <2>4. Good
    BY <2>1, <2>2, <2>3 DEF BodyInv
  <2> QED BY <1>2, <2>2, <2>4, GoodStays
<1>3. CASE BeginMotif \/ BeginKnownMotif
  BY <1>3, GoodAtFirst DEF BodyInv, SymbolsInv
<1>4. CASE BeginTree \/ Prototype \/ Ends
  BY <1>4, NothingEntered DEF BodyInv
<1> QED BY <1>1, <1>2, <1>3, <1>4, StepKinds

\* What the generator knows of the program while it walks a body.
MeaningInv == CallsInv /\ SymbolsInv /\ Rooted /\ Callees /\ LastNames /\ BodyInv

LEMMA MeaningInit == ASSUME Init PROVE MeaningInv
<1>1. CallsInv
  BY ShapeInit, CallsInit DEF CallsInv
<1>2. stack = <<>> /\ namedValues = <<>>
  BY DEF Init, Fresh
<1>3. Rooted /\ Callees /\ BodyInv
  BY <1>2 DEF Rooted, Callees, BodyInv, Entered
<1>4. LastNames
  BY <1>2 DEF LastNames
<1> QED BY <1>1, <1>3, <1>4, SymbolsInit DEF MeaningInv

LEMMA CallsInvStays ==
  ASSUME CallsInv, [Next]_vars
  PROVE  CallsInv' /\ Shape /\ Shape'
<1>1. Shape /\ Shape'
  BY ShapeStays DEF CallsInv
<1>2. PICK c : Effect(c)
  BY <1>1, StepEffect
<1> QED BY <1>1, <1>2, CallsStay DEF CallsInv

LEMMA MeaningInvStays == ASSUME MeaningInv, [Next]_vars PROVE MeaningInv'
<1>1. CallsInv' /\ Shape /\ Shape'
  BY CallsInvStays DEF MeaningInv
<1>2. SymbolsInv' /\ Rooted' /\ Callees'
  BY <1>1, SymbolsInvStays, RootedStays, CalleesStay DEF MeaningInv
<1>3. LastNames'
  BY <1>1, LastNamesStay DEF MeaningInv, SymbolsInv
<1>4. BodyInv'
  BY <1>1, BodyInvStays DEF MeaningInv
<1> QED BY <1>1, <1>2, <1>3, <1>4 DEF MeaningInv

(* The inductive invariant: what the generator knows while it walks a body *)
(* is so after every step.                                                 *)
THEOREM MeaningInvariant == Spec => []MeaningInv
<1>1. MeaningInv /\ UNCHANGED vars => MeaningInv'
  BY MeaningInvStays
<1> QED BY <1>1, MeaningInit, MeaningInvStays, PTL DEF Spec

-----------------------------------------------------------------------------
(* The end of a motif *)

LEMMA EndFacts ==
  ASSUME Shape, Walk, Ends
  PROVE  /\ stack # <<>> /\ Len(stack) = 1 /\ Top = stack[1] /\ Entered(stack)
         /\ TopNode = nodes[program.trees[Tree]] /\ TopNode.kind = "motif"
         /\ MotifName = Source!NameOf(program, Tree)
         /\ Len(stack[1].got) \in {0, 1}
         /\ Len(stack[1].got) = Len(nodes[program.trees[Tree]].kids) - 1
         /\ values' = values \o Epilogue
         /\ functions' = IF Epilogue = <<>> THEN functions
                                            ELSE InsertInto(functions, currentBB, Len(values'))
         /\ Verified(functions', values', currentFunction)
         /\ currentFunction \in 1 .. Len(functions) /\ currentFunction = currentBB[1]
         /\ currentBB[2] \in 1 .. Len(functions[currentFunction].blocks)
         /\ IsBlock(functions, currentBB)
<1>1. /\ EndMotif /\ stack' = <<>> /\ control' = control
  BY DEF Ends
<1>2. /\ stack # <<>> /\ TopNode.kind = "motif" /\ TopNode.kind \notin ExpressionKinds
      /\ Top.of # <<>> /\ Len(Top.got) = Len(TopNode.kids) - 1 /\ control = "generating"
      /\ Len(Top.got) \in {0, 1}
  BY <1>1 DEF EndMotif, At, ExpressionKinds
<1>3. Len(stack) = 1 /\ Top = stack[1] /\ Entered(stack)
  BY <1>2, TopFacts DEF Entered
<1>4. currentFunction = Top.of[1] /\ currentBB = Top.of
  BY <1>3, EnteredFacts
<1>5. ~ Halt("aborted")
  BY <1>1, <1>2 DEF Halt
<1>6. LET vs == values \o Epilogue
          fs == IF Epilogue = <<>> THEN functions ELSE InsertInto(functions, Top.of, Len(vs))
      IN  Verified(fs, vs, Top.of[1]) /\ values' = vs /\ functions' = fs
  BY <1>1, <1>5, Zenon DEF EndMotif
<1>7. /\ stack[1].node = program.trees[Tree] /\ nodes[stack[1].node].kind = "motif"
  BY <1>3, RootFacts
<1>8. TopNode = nodes[program.trees[Tree]]
  BY <1>3, <1>7 DEF TopNode
<1>9. MotifName = Source!NameOf(program, Tree)
  BY <1>2, <1>8 DEF MotifName, Source!NameOf, Source!Proto, Source!IsMotif, nodes
<1>10. /\ currentFunction \in 1 .. Len(functions) /\ currentFunction = currentBB[1]
       /\ currentBB[2] \in 1 .. Len(functions[currentFunction].blocks)
       /\ IsBlock(functions, currentBB)
  BY <1>3, <1>4, EnteredFacts DEF IsBlock
<1> QED BY <1>2, <1>3, <1>4, <1>6, <1>8, <1>9, <1>10

\* What the motif returns at its end.
LEMMA EpilogueIs ==
  ASSUME Shape, stack # <<>>, values' = values \o Epilogue
  PROVE  LET n == Len(values) IN
         /\ n \in Nat /\ Extended(values, values')
         /\ MotifName = "main" =>
              /\ Epilogue # <<>> /\ Len(values') = n + 2
              /\ values'[n + 2] = ReturnOf(<<n + 1>>)
         /\ MotifName # "main" /\ shouldReturn =>
              /\ Epilogue # <<>> /\ Len(values') = n + 1
              /\ values'[n + 1] = ReturnOf(Top.got)
         /\ MotifName # "main" /\ ~ shouldReturn => Epilogue = <<>> /\ values' = values
<1> DEFINE n    == Len(values)
           zero == Constant("zero", "i32", <<>>)
           main == ReturnOf(<<n + 1>>)
           ret  == ReturnOf(Top.got)
           S    == Value_ \cup {zero, main, ret}
<1>1. n \in Nat /\ zero \in S /\ main \in S /\ ret \in S /\ values \in Seq(S)
  <2>1. values \in Seq(Value_)
    BY DEF Shape, ValuesOK
  <2>2. n \in Nat
    BY ValuesAreCounted
  <2>3. Value_ \subseteq S /\ zero \in S /\ main \in S /\ ret \in S
    OBVIOUS
  <2> HIDE DEF S
  <2> QED BY <2>1, <2>2, <2>3, SeqMonotonic
<1>2. /\ MotifName = "main" => Epilogue = <<zero, main>>
      /\ MotifName # "main" /\ shouldReturn => Epilogue = <<ret>>
      /\ MotifName # "main" /\ ~ shouldReturn => Epilogue = <<>>
  BY Zenon DEF Epilogue
<1> HIDE DEF S, zero, main, ret
<1>3. CASE MotifName # "main" /\ ~ shouldReturn
  <2>1. Epilogue = <<>>
    BY <1>2, <1>3, Zenon
  <2>2. values' = values
    BY <1>1, <2>1, ConcatEmptySeq
  <2> QED BY <1>1, <1>3, <2>1, <2>2 DEF Extended
<1>4. CASE MotifName # "main" /\ shouldReturn
  <2>1. Epilogue = <<ret>>
    BY <1>2, <1>4, Zenon
  <2>2. values' = Append(values, ret) /\ Epilogue # <<>>
    BY <1>1, <2>1
  <2>3. /\ Len(values') = n + 1 /\ values'[n + 1] = ret
        /\ \A i \in 1 .. n : values'[i] = values[i]
    BY <1>1, <2>2, AppendProperties
  <2> QED BY <1>1, <1>4, <2>2, <2>3 DEF Extended, ret
<1>5. CASE MotifName = "main"
  <2> DEFINE us == Append(values, zero)
             vs == Append(us, main)
  <2>1. Epilogue = <<zero, main>>
    BY <1>2, <1>5, Zenon
  <2>2. values' = vs /\ Epilogue # <<>>
    BY <1>1, <2>1
  <2>3. us \in Seq(S) /\ Len(us) = n + 1 /\ \A i \in 1 .. n : us[i] = values[i]
    BY <1>1, AppendProperties
  <2> HIDE DEF us
  <2>4. /\ Len(vs) = n + 1 + 1 /\ vs[n + 1 + 1] = main
        /\ \A i \in 1 .. n + 1 : vs[i] = us[i]
    BY <1>1, <2>3, AppendProperties
  <2> HIDE DEF vs
  <2>5. Len(values') = n + 2 /\ values'[n + 2] = main
    BY <1>1, <2>2, <2>4
  <2>6. \A i \in 1 .. n : values'[i] = values[i]
    BY <1>1, <2>2, <2>3, <2>4
  <2> QED BY <1>1, <1>5, <2>2, <2>5, <2>6 DEF Extended, main
<1> QED BY <1>1, <1>3, <1>4, <1>5, Zenon

\* The blocks of the function at the end.
LEMMA EndBlocks ==
  ASSUME Shape, Shape', Walk, Ends
  PROVE  LET c  == currentFunction
             bs == functions[c].blocks
             cs == functions'[c].blocks
         IN /\ Len(bs) \in Nat /\ Len(cs) = Len(bs)
            /\ DOMAIN bs = 1 .. Len(bs) /\ DOMAIN cs = 1 .. Len(bs)
            /\ \A b \in 1 .. Len(bs) :
                 /\ bs[b] \in Seq(Nat)
                 /\ cs[b] = IF b = currentBB[2] /\ Epilogue # <<>>
                              THEN Append(bs[b], Len(values')) ELSE bs[b]
            /\ Grown(functions, functions')
<1> DEFINE c == currentFunction
           n == Len(values')
<1>1. /\ stack # <<>> /\ c \in 1 .. Len(functions) /\ c = currentBB[1] /\ IsBlock(functions, currentBB)
      /\ functions' = IF Epilogue = <<>> THEN functions ELSE InsertInto(functions, currentBB, n)
      /\ values' = values \o Epilogue
  BY EndFacts
<1>2. n \in Nat /\ Len(values) \in Nat /\ Len(values) <= n /\ (Epilogue # <<>> => n > Len(values))
  <2>1. n \in Nat
    BY DEF Shape, ValuesOK
  <2> HIDE DEF n
  <2> QED BY <1>1, <2>1, EpilogueIs DEF Extended, n
<1>3. functions \in Seq(FunctionType(n))
  <2>1. functions \in Seq(FunctionType(Len(values)))
    BY DEF Shape
  <2> HIDE DEF n
  <2> QED BY <1>2, <2>1, MoreValues
<1> HIDE DEF n
<1>4. DOMAIN functions[c].blocks = 1 .. Len(functions[c].blocks) /\ Len(functions[c].blocks) \in Nat
      /\ \A b \in 1 .. Len(functions[c].blocks) : functions[c].blocks[b] \in Seq(Nat)
  <2>1. /\ DOMAIN functions[c].blocks = 1 .. Len(functions[c].blocks)
        /\ Len(functions[c].blocks) \in Nat
        /\ \A b \in 1 .. Len(functions[c].blocks) : functions[c].blocks[b] \in Seq(1 .. n)
    BY <1>1, <1>3, BlockFacts, FunctionFacts
  <2>2. \A b \in 1 .. Len(functions[c].blocks) : functions[c].blocks[b] \in Seq(Nat)
    BY <1>2, <2>1
  <2> QED BY <2>1, <2>2
<1>5. CASE Epilogue = <<>>
  BY <1>1, <1>3, <1>4, <1>5, GrownIsReflexive
<1>6. CASE Epilogue # <<>>
  <2>1. n \in 1 .. n
    BY <1>2, <1>6
  <2>2. /\ functions' \in Seq(FunctionType(n)) /\ Grown(functions, functions')
        /\ Len(functions') = Len(functions)
        /\ Len(functions'[c].blocks) = Len(functions[c].blocks)
        /\ \A b \in 1 .. Len(functions[c].blocks) :
             functions'[c].blocks[b] = IF b = currentBB[2] THEN Append(functions[c].blocks[b], n)
                                                           ELSE functions[c].blocks[b]
    BY <1>1, <1>3, <1>6, <2>1, Inserted
  <2>3. DOMAIN functions'[c].blocks = 1 .. Len(functions'[c].blocks)
    BY <1>1, <2>2, BlockFacts
  <2> QED BY <1>4, <1>6, <2>2, <2>3 DEF n
<1> QED BY <1>5, <1>6

\* What the verifier has found, of the instructions that were there ...
LEMMA EndVerified ==
  ASSUME Shape, Shape', CallsInv, Walk, Ends, NEW v \in 1 .. Len(values),
         InBlocks(functions, currentFunction, v)
  PROVE  InstructionVerified(functions, values, currentFunction, values[v])
<1> DEFINE c == currentFunction
<1>1. /\ Verified(functions', values', c) /\ c \in 1 .. Len(functions) /\ stack # <<>>
      /\ values' = values \o Epilogue
  BY EndFacts
<1>2. Extended(values, values') /\ Len(values) \in Nat
  BY <1>1, EpilogueIs
<1>3. PICK b \in 1 .. Len(functions[c].blocks) :
        \E i \in DOMAIN functions[c].blocks[b] : functions[c].blocks[b][i] = v
  BY EndBlocks DEF InBlocks
<1> DEFINE s == functions[c].blocks[b]
           t == functions'[c].blocks[b]
<1>4. b \in DOMAIN functions'[c].blocks /\ s \in Seq(Nat) /\ (t = s \/ t = Append(s, Len(values')))
      /\ Grown(functions, functions')
  BY EndBlocks
<1>5. Len(values') \in Nat
  BY DEF Shape, ValuesOK
<1>6. PICK i : i \in DOMAIN t /\ t[i] = v
  <2>0. PICK i \in DOMAIN s : s[i] = v
    BY <1>3
  <2>1. i \in 1 .. Len(s) /\ s[i] = v
    BY <1>4, <2>0
  <2> HIDE DEF s
  <2>2. CASE t = s
    BY <1>4, <2>1, <2>2
  <2>3. CASE t = Append(s, Len(values'))
    <3> HIDE DEF t
    <3>1. PICK k \in Nat : k = Len(values')
      BY <1>5
    <3>2. i \in DOMAIN Append(s, k) /\ Append(s, k)[i] = v
      BY <1>4, <2>1, AppendProperties
    <3> QED BY <2>3, <3>1, <3>2
  <2> HIDE DEF t
  <2> QED BY <1>4, <2>2, <2>3
<1>7. InstructionVerified(functions', values', c, values'[v])
  <2>1. BlockVerified(functions', values', c, t)
    BY <1>1, <1>4 DEF Verified
  <2> HIDE DEF t
  <2>2. InstructionVerified(functions', values', c, values'[t[i]])
    BY <1>6, <2>1 DEF BlockVerified
  <2> QED BY <1>6, <2>2
<1> QED BY <1>1, <1>2, <1>4, <1>7, VerifiedBefore DEF Shape, CallsInv

\* ... and of the return that was added.
LEMMA EndReturn ==
  ASSUME Shape, Shape', Walk, Ends, Epilogue # <<>>
  PROVE  LET b == functions'[currentFunction].blocks[currentBB[2]]
             n == Len(values')
         IN /\ InstructionVerified(functions', values', currentFunction, values'[n])
            /\ functions[currentFunction].blocks[currentBB[2]] \in Seq(Nat)
            /\ b = Append(functions[currentFunction].blocks[currentBB[2]], n) /\ n \in Nat
            /\ \A i \in 1 .. Len(functions[currentFunction].blocks[currentBB[2]]) :
                 values'[functions[currentFunction].blocks[currentBB[2]][i]].op \notin Terminators
<1> DEFINE c == currentFunction
           s == functions[c].blocks[currentBB[2]]
           t == functions'[c].blocks[currentBB[2]]
<1>1. /\ Verified(functions', values', c) /\ currentBB[2] \in 1 .. Len(functions[c].blocks)
  BY EndFacts
<1>2. currentBB[2] \in DOMAIN functions'[c].blocks /\ s \in Seq(Nat) /\ t = Append(s, Len(values'))
  BY <1>1, EndBlocks
<1>3. BlockVerified(functions', values', c, t)
  BY <1>1, <1>2 DEF Verified
<1>4. PICK n \in Nat : n = Len(values')
  BY DEF Shape, ValuesOK
<1> HIDE DEF s
<1>5. /\ Len(s) \in Nat /\ Len(Append(s, n)) = Len(s) + 1 /\ Append(s, n)[Len(s) + 1] = n
      /\ DOMAIN Append(s, n) = 1 .. Len(s) + 1
      /\ \A i \in 1 .. Len(s) : Append(s, n)[i] = s[i]
  BY <1>2, AppendProperties
<1>6. t = Append(s, n)
  BY <1>2, <1>4
<1> HIDE DEF t
<1>7. \A i \in 1 .. Len(s) + 1 :
        /\ values'[t[i]].op \in Terminators <=> i = Len(s) + 1
        /\ InstructionVerified(functions', values', c, values'[t[i]])
  BY <1>3, <1>5, <1>6 DEF BlockVerified
<1>8. InstructionVerified(functions', values', c, values'[n])
  BY <1>5, <1>6, <1>7
<1>9. \A i \in 1 .. Len(s) : values'[s[i]].op \notin Terminators
  <2> TAKE i \in 1 .. Len(s)
  <2>1. i \in 1 .. Len(s) + 1 /\ i # Len(s) + 1 /\ t[i] = s[i]
    BY <1>5, <1>6
  <2> QED BY <1>7, <2>1
<1> QED BY <1>2, <1>4, <1>6, <1>8, <1>9 DEF s, t

\* A motif that ends is as it should be.
LEMMA EndIsGood ==
  ASSUME Shape, Shape', CallsInv, SymbolsInv, BodyInv, Tracked, Ends
  PROVE  Good /\ IF IsCond THEN CondDone ELSE PlainLayout
<1>1. Entered(stack) /\ Len(stack) = 1 /\ Walk
  BY EndFacts DEF SymbolsInv
<1>2. ~ Broken
  BY <1>1, EndVerified DEF Broken
<1>3. ~ Nested
  BY <1>1 DEF Nested
<1>4. Good
  BY <1>1, <1>2, <1>3 DEF BodyInv, Doomed
<1> QED BY <1>1, <1>4 DEF Good, CondLayout

-----------------------------------------------------------------------------
(* A motif that ends has a meaning *)

\* The return of a motif that is not main.
LEMMA EndReturns ==
  ASSUME Shape, Shape', SymbolsInv, Tracked, Ends,
         Source!NameOf(program, Tree) # "main", shouldReturn
  PROVE  /\ stack[1].got # <<>> /\ values[stack[1].got[1]].type = "double"
         /\ stack[1].got[1] \in 1 .. Len(values)
<1> DEFINE c == currentFunction
           n == Len(values')
<1>1. /\ Walk /\ stack # <<>> /\ Top = stack[1] /\ Entered(stack) /\ c \in 1 .. Len(functions)
      /\ MotifName # "main" /\ values' = values \o Epilogue
  BY EndFacts DEF SymbolsInv
<1>2. /\ Epilogue # <<>> /\ n = Len(values) + 1 /\ values'[n] = ReturnOf(stack[1].got)
      /\ Extended(values, values')
  BY <1>1, EpilogueIs
<1> HIDE DEF n
<1>3. InstructionVerified(functions', values', c, values'[n])
  BY <1>1, <1>2, EndReturn DEF n
<1>4. functions'[c].result = "double"
  <2>1. functions[c].result = "double"
    BY <1>1, TrackedFunction
  <2>2. Grown(functions, functions')
    BY <1>1, EndBlocks
  <2> QED BY <1>1, <2>1, <2>2 DEF Grown
<1>5. stack[1].got # <<>> /\ values'[stack[1].got[1]].type = "double"
  BY <1>2, <1>3, <1>4 DEF InstructionVerified, ReturnsResult, ReturnOf, Instruction, Value
<1>6. stack[1].got[1] \in 1 .. Len(values)
  <2>1. stack[1].got \in Seq(1 .. Len(values))
    BY <1>1, TopIs
  <2> QED BY <1>5, <2>1
<1> QED BY <1>2, <1>5, <1>6 DEF Extended

\* The value that a branch returns.
LEMMA BranchTyped ==
  ASSUME Shape, Shape', CallsInv, SymbolsInv, Tracked, Ends,
         Source!NameOf(program, Tree) # "main", ~ Source!MixesConstants(program),
         NEW b \in 1 .. Len(functions[currentFunction].blocks), NEW n, Returning(b, n)
  PROVE  TypeOfNode(n) = "double"
<1> DEFINE c == currentFunction
<1>1. Walk /\ Entered(stack) /\ c \in 1 .. Len(functions)
  BY EndFacts DEF SymbolsInv
<1>2. PICK v \in 1 .. Len(values), r \in 1 .. Len(values) :
        InBlock(functions, c, b, v) /\ values[v] = ReturnOf(<<r>>) /\ <<r, n>> \in Matched
  BY DEF Returning, RetIn
<1>3. InBlocks(functions, c, v)
  BY <1>1, <1>2, EndBlocks DEF InBlock, InBlocks
<1>4. InstructionVerified(functions, values, c, values[v])
  BY <1>1, <1>3, EndVerified
<1>5. functions[c].result = "double"
  BY <1>1, TrackedFunction
<1>6. values[r].type = "double"
  BY <1>2, <1>4, <1>5 DEF InstructionVerified, ReturnsResult, ReturnOf, Instruction, Value
<1> QED BY <1>2, <1>6 DEF Matched, Matches

\* The types of a conditional.
LEMMA CondTyped ==
  ASSUME Shape, Shape', CallsInv, SymbolsInv, Tracked, Ends, CondDone,
         Source!NameOf(program, Tree) # "main", ~ Source!MixesConstants(program)
  PROVE  /\ TypeOfNode(CondKid(1)) = "i1" /\ TypeOfNode(CondKid(2)) = "double"
         /\ TypeOfNode(CondKid(3)) = "double"
<1> DEFINE f == currentFunction
<1>1. Walk /\ Entered(stack) /\ f \in 1 .. Len(functions)
      /\ currentBB[2] \in 1 .. Len(functions[f].blocks)
  BY EndFacts DEF SymbolsInv
<1>2. PICK v \in 1 .. Len(values), c \in 1 .. Len(values),
           b1 \in 1 .. Len(functions[f].blocks), b2 \in 1 .. Len(functions[f].blocks) :
        DoneBy(v, c, b1, b2)
  BY DEF CondDone
<1>3. TypeOfNode(CondKid(2)) = "double" /\ TypeOfNode(CondKid(3)) = "double"
  BY <1>2, BranchTyped DEF DoneBy
<1>4. InBlocks(functions, f, v)
  BY <1>1, <1>2, EndBlocks DEF InBlock, InBlocks, DoneBy
<1>5. InstructionVerified(functions, values, f, values[v])
  BY <1>1, <1>4, EndVerified
<1>6. values[v].op = "br" /\ values[v].args = <<c>>
  BY <1>2 DEF DoneBy, Branch, Instruction, Value
<1>7. values[c].type = "i1"
  <2>1. WellTyped(functions, values, values[v])
    BY <1>5 DEF InstructionVerified
  <2>2. [i \in DOMAIN values[v].args |-> values[values[v].args[i]].type] = <<"i1">>
    BY <1>6, <2>1 DEF WellTyped, Arithmetic
  <2>3. 1 \in DOMAIN values[v].args /\ values[v].args[1] = c
    BY <1>6
  <2> HIDE DEF f
  <2>4. [i \in DOMAIN values[v].args |-> values[values[v].args[i]].type][1] = "i1"
    BY <2>2
  <2> QED BY <2>3, <2>4
<1>8. <<c, CondKid(1)>> \in Matched
  BY <1>2 DEF DoneBy
<1>9. TypeOfNode(CondKid(1)) = "i1"
  BY <1>7, <1>8 DEF Matched, Matches
<1> QED BY <1>3, <1>9

\* The branch is the last instruction of its block: nothing is added at the
\* end of a conditional, ...
LEMMA CondEndsItself ==
  ASSUME Shape, Shape', SymbolsInv, Ends, CondDone
  PROVE  Epilogue = <<>>
<1> SUFFICES ASSUME Epilogue # <<>> PROVE FALSE
  OBVIOUS
<1> DEFINE f == currentFunction
           s == functions[f].blocks[currentBB[2]]
<1>1. /\ Walk /\ stack # <<>> /\ values' = values \o Epilogue
      /\ currentBB[2] \in 1 .. Len(functions[f].blocks)
  BY EndFacts DEF SymbolsInv
<1>2. Extended(values, values')
  BY <1>1, EpilogueIs
<1>3. PICK v \in 1 .. Len(values) : InBlock(functions, f, currentBB[2], v) /\ values[v].op = "br"
  <2>1. PICK v \in 1 .. Len(values), c \in 1 .. Len(values),
             b1 \in 1 .. Len(functions[f].blocks), b2 \in 1 .. Len(functions[f].blocks) :
          DoneBy(v, c, b1, b2)
    BY DEF CondDone
  <2> QED BY <2>1 DEF DoneBy, Branch, Instruction, Value
<1>4. values'[v].op = "br"
  BY <1>2, <1>3 DEF Extended
<1>5. PICK i \in DOMAIN s : s[i] = v
  BY <1>3 DEF InBlock
<1>6. s \in Seq(Nat) /\ \A j \in 1 .. Len(s) : values'[s[j]].op \notin Terminators
  BY <1>1, EndReturn
<1>7. i \in 1 .. Len(s)
  BY <1>5, <1>6
<1> HIDE DEF s
<1> QED BY <1>4, <1>5, <1>6, <1>7 DEF Terminators

\* ... and so main has no conditional.
LEMMA NoCondInMain ==
  ASSUME Shape, Shape', SymbolsInv, Ends, CondDone
  PROVE  Source!NameOf(program, Tree) # "main"
<1>1. stack # <<>> /\ MotifName = Source!NameOf(program, Tree) /\ values' = values \o Epilogue
  BY EndFacts DEF SymbolsInv
<1> QED BY <1>1, CondEndsItself, EpilogueIs

\* A value has a type.
LEMMA MatchedTyped ==
  ASSUME Shape, ~ Source!MixesConstants(program), NEW v, NEW n, <<v, n>> \in Matched
  PROVE  values[v].type = TypeOfNode(n) /\ TypeOfNode(n) # "none" /\ v \in 1 .. Len(values)
<1>1. v \in 1 .. Len(values) /\ values[v].type = TypeOfNode(n)
  BY DEF Matched, Matches
<1>2. values[v].type \in Types
  <2>1. values \in Seq(Value_)
    BY DEF Shape, ValuesOK
  <2>2. values[v] \in Value_
    BY <1>1, <2>1
  <2> QED BY <2>2 DEF Value_
<1> QED BY <1>1, <1>2 DEF Types

\* An expression that is a stale variable is one of the declaration before it.
LEMMA StaleIsExcused ==
  ASSUME Shape, Walk, LastNames, Entered(stack), Source!DeclaredOnce(program), StaleBody,
         Len(nodes[program.trees[Tree]].kids) = 2
  PROVE  Source!StaleVariable(program, Tree)
<1>1. Tree \in Nat /\ Tree \in DOMAIN program.trees /\ Source!IsMotif(program, Tree) /\ Begun = Tree
  BY RootFacts
<1>2. ~ Source!IsFresh(program, Tree) /\ nodes[Body].kind = "variable"
      /\ nodes[Body].name \in DOMAIN namedValues
  BY DEF StaleBody
<1>3. Source!IsExpression(program, Tree)
  BY <1>1, <1>2 DEF Source!DeclaredOnce
<1>4. FreshTrees(Tree) = { j \in 1 .. Tree - 1 : Source!IsFresh(program, j) }
  BY <1>1, <1>2 DEF FreshTrees
<1>5. nodes[Body].name \in Source!Range(Source!ParamsOf(program, Max(FreshTrees(Tree))))
  BY <1>1, <1>2 DEF LastNames
<1>6. Body = Source!Body(program, Tree) /\ Source!HasBody(program, Tree)
  BY <1>1 DEF Body, Source!Body, Source!HasBody, nodes
<1> QED BY <1>2, <1>3, <1>4, <1>5, <1>6 DEF Source!StaleVariable, Source!Max, Max, nodes

LEMMA EndHasMeaning ==
  ASSUME Shape, Shape', MeaningInv, Ends,
         Source!DeclaredOnce(program), ~ Source!MixesConstants(program)
  PROVE  Source!HasMeaning(program, Tree) \/ Source!StaleVariable(program, Tree)
<1> DEFINE root == nodes[program.trees[Tree]]
           main == Source!NameOf(program, Tree) = "main"
<1>1. /\ Walk /\ stack # <<>> /\ Len(stack) = 1 /\ Top = stack[1] /\ Entered(stack)
      /\ Len(stack[1].got) \in {0, 1} /\ Len(stack[1].got) = Len(root.kids) - 1
  BY EndFacts DEF MeaningInv, SymbolsInv
<1>2. Tracked /\ CallsInv /\ SymbolsInv /\ BodyInv /\ LastNames
  BY DEF Tracked, MeaningInv
<1>3. Good /\ IF IsCond THEN CondDone ELSE PlainLayout
  BY <1>2, EndIsGood
<1>4. Source!IsMotif(program, Tree) /\ Tree \in DOMAIN program.trees
  BY <1>1, RootFacts
<1>5. (Len(root.kids) = 1 /\ stack[1].got = <<>>) \/ (Len(root.kids) = 2 /\ stack[1].got # <<>>)
  <2>1. PICK k \in {0, 1} : k = Len(stack[1].got)
    BY <1>1
  <2>2. stack[1].got \in Seq(1 .. Len(values))
    BY <1>1, TopIs
  <2>3. Len(root.kids) \in Nat
    <3>1. program.trees[Tree] \in DOMAIN nodes
      BY <1>1, RootFacts
    <3> QED BY <3>1, NodeFacts DEF Shape
  <2>4. k = 0 => stack[1].got = <<>>
    BY <2>1, <2>2, EmptySeq
  <2>5. k = 1 => stack[1].got # <<>>
    <3>1. stack[1].got = <<>> => k = 0
      BY <2>1
    <3> QED BY <3>1
  <2>6. Len(root.kids) = k + 1
    <3> HIDE DEF root
    <3> QED BY <1>1, <2>1, <2>3
  <2> HIDE DEF root
  <2>7. k = 0 => Len(root.kids) = 1
    BY <2>6
  <2>8. k = 1 => Len(root.kids) = 2
    BY <2>6
  <2> QED BY <2>1, <2>4, <2>5, <2>7, <2>8
<1>6. /\ Source!HasBody(program, Tree) <=> Len(root.kids) = 2
      /\ Body = Source!Body(program, Tree)
      /\ \A n : TypeOfNode(n) = Source!TypesIn(program, Tree)[n]
      /\ nodes[Body] = program.nodes[Body]
      /\ IsCond <=> Len(root.kids) = 2 /\ nodes[Body].kind = "cond"
  BY <1>4 DEF Source!HasBody, Source!Body, Body, nodes, TypeOfNode, IsCond
<1>7. CASE Len(root.kids) = 1
  <2>1. ~ Source!HasBody(program, Tree) /\ ~ IsCond /\ stack[1].got = <<>>
    BY <1>5, <1>6, <1>7
  <2>2. shouldReturn
    BY <1>3, <2>1 DEF PlainLayout
  <2>3. main
    BY <1>2, <2>1, <2>2, EndReturns
  <2> QED BY <2>1, <2>3 DEF Source!HasMeaning
<1>8. CASE IsCond
  <2>1. ~ main /\ CondDone
    BY <1>2, <1>3, <1>8, NoCondInMain
  <2>2. /\ TypeOfNode(CondKid(1)) = "i1" /\ TypeOfNode(CondKid(2)) = "double"
        /\ TypeOfNode(CondKid(3)) = "double"
    BY <1>2, <2>1, CondTyped
  <2>3. [i \in 1 .. 3 |-> TypeOfNode(nodes[Body].kids[i])] = <<"i1", "double", "double">>
    BY <2>2 DEF CondKid
  <2>4. [i \in 1 .. 3 |-> Source!TypesIn(program, Tree)[program.nodes[Source!Body(program, Tree)].kids[i]]]
          = <<"i1", "double", "double">>
    BY <2>3 DEF TypeOfNode, Body, Source!Body, nodes
  <2>5. program.nodes[Source!Body(program, Tree)].kind = "cond"
    BY <1>6, <1>8
  <2> QED BY <1>4, <1>6, <1>8, <2>1, <2>4, <2>5 DEF Source!HasMeaning
<1>9. CASE Len(root.kids) = 2 /\ ~ IsCond
  <2>1. stack[1].got # <<>> /\ PlainLayout
    BY <1>3, <1>5, <1>9
  <2>2. StaleBody \/ <<stack[1].got[1], Body>> \in Matched
    BY <1>1, <2>1 DEF PlainLayout
  <2>3. CASE StaleBody
    BY <1>1, <1>2, <1>9, <2>3, StaleIsExcused
  <2>4. CASE <<stack[1].got[1], Body>> \in Matched
    <3>1. values[stack[1].got[1]].type = TypeOfNode(Body) /\ TypeOfNode(Body) # "none"
      BY <2>4, MatchedTyped
    <3>2. ~ main => TypeOfNode(Body) = "double"
      BY <1>2, <2>1, <3>1, EndReturns DEF PlainLayout
    <3> HIDE DEF root
    <3> QED BY <1>4, <1>6, <1>9, <3>1, <3>2 DEF Source!HasMeaning
  <2> QED BY <2>2, <2>3, <2>4
<1> QED BY <1>5, <1>6, <1>7, <1>8, <1>9

-----------------------------------------------------------------------------
(* The trees that are done *)

\* A tree is done when its prototype is, or its motif ends.
LEMMA Completes ==
  ASSUME Shape, [Next]_vars, NEW k \in DOMAIN program.trees, Completed(k)', ~ Completed(k)
  PROVE  k = Tree /\ (Prototype \/ Ends)
<1>1. k \in Nat /\ next \in Nat
  BY DEF Shape, Generatable
<1>2. CASE Idle
  BY <1>2 DEF Idle, Completed
<1>3. CASE BodyStep /\ ~ Idle
  <2>1. next' = next /\ stack' # <<>>
    BY <1>3, BodyFacts DEF Entered
  <2> QED BY <2>1 DEF Completed
<1>4. CASE BeginMotif \/ BeginKnownMotif
  <2>1. next' = next /\ stack' # <<>>
    BY <1>4, EnterFacts DEF Entered
  <2> QED BY <2>1 DEF Completed
<1>5. CASE BeginTree
  <2>1. next' = next + 1 /\ stack = <<>> /\ stack' # <<>>
    BY <1>5 DEF BeginTree, Between
  <2>2. k < next
    BY <1>1, <2>1 DEF Completed
  <2>3. k < next - 1 \/ k = next - 1
    BY <1>1, <2>2
  <2> QED BY <2>1, <2>3 DEF Completed
<1>6. CASE Prototype \/ Ends
  <2>1. next' = next
    BY <1>6 DEF Prototype, Ends
  <2>2. k = next - 1
    BY <1>1, <2>1 DEF Completed
  <2> QED BY <1>6, <2>2 DEF Tree
<1> QED BY <1>2, <1>3, <1>4, <1>5, <1>6, StepKinds

\* The program that is compiled has no tree left.
Finished == Compiled => next > Len(program.trees) /\ stack = <<>>

LEMMA FinishedStays == ASSUME Shape, Finished, [Next]_vars PROVE Finished'
<1> SUFFICES ASSUME Compiled' PROVE next' > Len(program'.trees) /\ stack' = <<>>
  BY DEF Finished
<1>1. CASE Compiled
  <2>1. ~ Next \/ Ended
    BY <1>1 DEF Compiled, Next, Generate, GetValue, BeginTree, Write, Between, Number, Variable,
       UnknownVariable, Operand, BinaryOperation, UnknownOperator, BeginCall, Argument, InCall,
       BuildCall, Prototype, BeginMotif, BeginKnownMotif, EndMotif, BeginIf, BeginElse,
       BeginCondition, BuildBranch, At
  <2>2. UNCHANGED vars
    BY <2>1 DEF Ended
  <2> QED BY <1>1, <2>2 DEF Finished, vars
<1>2. CASE ~ Compiled
  <2>1. control' # control
    BY <1>2 DEF Compiled
  <2>2. Write
    <3>1. ~ Halt("threw") /\ ~ Halt("aborted")
      BY DEF Halt, Compiled
    <3>2. ~ UNCHANGED control
      BY <2>1
    <3> QED BY <3>1, <3>2 DEF Next, Generate, GetValue, Ended, vars, BeginTree, Number, Variable,
       UnknownVariable, Operand, BinaryOperation, UnknownOperator, BeginCall, Argument,
       BuildCall, Prototype, BeginMotif, BeginKnownMotif, EndMotif, BeginIf, BeginElse,
       BeginCondition, BuildBranch, EmitChecked, Emit, Yield, EnterMotif, GenerateInto
  <2>3. next > Len(program.trees) /\ stack = <<>>
    BY <2>2 DEF Write, Between
  <2>4. program' = program /\ next' = next /\ stack' = stack
    BY <2>2, Zenon DEF Write, Halt
  <2> QED BY <2>3, <2>4
<1> QED BY <1>1, <1>2

\* The trees that are done have a meaning, or are a variable.
Meant ==
  (Source!DeclaredOnce(program) /\ ~ Source!MixesConstants(program)) =>
    \A k \in DOMAIN program.trees :
      Completed(k) => Source!HasMeaning(program, k) \/ Source!StaleVariable(program, k)

LEMMA MeantStays ==
  ASSUME MeaningInv, Meant, [Next]_vars
  PROVE  Meant'
<1>1. Shape /\ Shape' /\ CallsInv'
  BY CallsInvStays DEF MeaningInv
<1>2. program' = program
  BY <1>1, ProgramStays
<1> SUFFICES ASSUME Source!DeclaredOnce(program), ~ Source!MixesConstants(program),
                    NEW k \in DOMAIN program.trees, Completed(k)'
             PROVE  Source!HasMeaning(program, k) \/ Source!StaleVariable(program, k)
  BY <1>2 DEF Meant
<1>3. CASE Completed(k)
  BY <1>3 DEF Meant
<1>4. CASE ~ Completed(k)
  <2>1. k = Tree /\ (Prototype \/ Ends)
    BY <1>1, <1>4, Completes
  <2>2. CASE Prototype
    <3>1. ~ Source!IsMotif(program, Tree)
      BY <1>1, <2>2, RootIs DEF MeaningInv, SymbolsInv, Declaring
    <3> QED BY <2>1, <3>1 DEF Source!HasMeaning
  <2>3. CASE Ends
    BY <1>1, <2>1, <2>3, EndHasMeaning
  <2> QED BY <2>1, <2>2, <2>3
<1> QED BY <1>3, <1>4

(* Bitcode is produced only for a program that has a meaning, with the two *)
(* exceptions of the property: what LLVM verified was not doomed, so the   *)
(* values match and have the types of their nodes.                         *)
THEOREM MeaningIsRequired == Spec => []RejectsIllFormed
<1> DEFINE Inv == MeaningInv /\ Finished /\ Meant
<1>1. Init => Inv
  <2> SUFFICES ASSUME Init PROVE Inv
    OBVIOUS
  <2>1. control = "generating" /\ stack = <<>> /\ next = 1
    BY DEF Init, Fresh
  <2>2. Finished
    BY <2>1 DEF Finished, Compiled
  <2>3. Shape
    BY ShapeInit
  <2>4. \A k \in DOMAIN program.trees : ~ Completed(k)
    BY <2>1, <2>3 DEF Completed, Shape, Generatable
  <2> QED BY <2>2, <2>4, MeaningInit DEF Meant
<1>2. Inv /\ [Next]_vars => Inv'
  BY MeaningInvStays, MeantStays, FinishedStays DEF MeaningInv, CallsInv
<1>3. Inv => RejectsIllFormed
  <2> SUFFICES ASSUME Inv, Compiled, Source!DeclaredOnce(program), ~ Source!MixesConstants(program)
               PROVE  \A k \in DOMAIN program.trees :
                        Source!HasMeaning(program, k) \/ Source!StaleVariable(program, k)
    BY DEF RejectsIllFormed
  <2>1. next > Len(program.trees) /\ stack = <<>> /\ Shape
    BY DEF Finished, MeaningInv, CallsInv
  <2>2. \A k \in DOMAIN program.trees : Completed(k)
    <3> TAKE k \in DOMAIN program.trees
    <3>1. PICK n \in Nat : n = Len(program.trees) /\ k \in 1 .. n
      <4>1. program.trees \in Seq(DOMAIN program.nodes)
        BY <2>1 DEF Shape, Generatable
      <4> QED BY <4>1
    <3>2. next \in Nat /\ next > n
      BY <2>1, <3>1 DEF Shape
    <3>3. k < next - 1 \/ k = next - 1
      BY <3>1, <3>2
    <3> QED BY <2>1, <3>3 DEF Completed
  <2> QED BY <2>2 DEF Meant
<1> HIDE DEF Inv
<1> QED BY <1>1, <1>2, <1>3, PTL DEF Spec

-----------------------------------------------------------------------------
(* The code that is done stays *)

\* The builder does not go back before the block of the motif.
Onward == Entered(stack) => currentBB[2] <= insertion[2]

LEMMA OnwardStays ==
  ASSUME Shape, Shape', Onward, [Next]_vars
  PROVE  Onward'
<1>1. CASE Idle
  BY <1>1 DEF Idle, Onward, Entered, module, fields
<1>2. CASE BodyStep /\ ~ Idle
  <2>1. /\ stack # <<>> /\ Entered(stack) /\ currentBB' = currentBB /\ currentFunction' = currentFunction
    BY <1>2, BodyFacts
  <2>2. currentBB[2] <= insertion[2]
    BY <2>1 DEF Onward
  <2>3. /\ Len(functions[currentFunction].blocks) \in Nat
        /\ currentBB[2] \in 1 .. Len(functions[currentFunction].blocks)
    BY <1>2, <2>1, EnteredFacts, BodyBlocks DEF IsBlock
  <2>4. CASE BeginIf \/ BeginElse
    <3>1. insertion'[2] = Len(functions[currentFunction].blocks) + 1
      BY <1>2, <2>4, BodyBlocks DEF BeginIf, BeginElse, GenerateInto, LastBlock
    <3> QED BY <2>1, <2>3, <3>1 DEF Onward
  <2>5. CASE BeginCondition
    <3>1. insertion' = currentBB
      BY <2>5 DEF BeginCondition
    <3> QED BY <2>1, <2>3, <3>1 DEF Onward
  <2>6. CASE ~ (BeginIf \/ BeginElse \/ BeginCondition)
    <3>1. insertion' = insertion
      <4>1. CASE TopNode.kind # "cond"
        BY <1>2, <4>1, ConditionalSteps
      <4>2. CASE TopNode.kind = "cond"
        BY <1>2, <2>6, <4>2, CondMoves DEF Builds
      <4> QED BY <4>1, <4>2
    <3> QED BY <2>1, <2>2, <3>1 DEF Onward
  <2> QED BY <2>4, <2>5, <2>6
<1>3. CASE BeginMotif \/ BeginKnownMotif
  <2>1. insertion' = currentBB' /\ currentBB' = LastBlock(functions', currentFunction')
        /\ currentFunction' \in 1 .. Len(functions')
    BY <1>3, EnterFacts
  <2>2. Len(functions'[currentFunction'].blocks) \in Nat
    BY <2>1, FunctionFacts DEF Shape
  <2>3. currentBB'[2] \in Nat
    BY <2>1, <2>2 DEF LastBlock
  <2> QED BY <2>1, <2>3 DEF Onward
<1>4. CASE BeginTree \/ Prototype \/ Ends
  BY <1>4, NothingEntered DEF Onward
<1> QED BY <1>1, <1>2, <1>3, <1>4, StepKinds

\* The blocks of function f that are done.
DoneBlocks(f) ==
  IF f = currentFunction THEN currentBB[2] - 1 ELSE Len(functions[f].blocks)

LEMMA DoneStay ==
  ASSUME Shape, Shape', Walk, Onward, [Next]_vars,
         NEW f \in 1 .. Len(functions), NEW b \in 1 .. DoneBlocks(f)
  PROVE  /\ f \in 1 .. Len(functions') /\ functions'[f].name = functions[f].name
         /\ b \in 1 .. Len(functions[f].blocks)
         /\ b \in 1 .. DoneBlocks(f)' /\ functions'[f].blocks[b] = functions[f].blocks[b]
<1> DEFINE bs == functions[f].blocks
           cs == functions'[f].blocks
<1>1. Grown(functions, functions') /\ Len(functions) \in Nat /\ Len(functions') \in Nat
  BY Step DEF Shape
<1>2. f \in 1 .. Len(functions') /\ functions'[f].name = functions[f].name
  BY <1>1 DEF Grown
<1>3. Len(bs) \in Nat /\ Len(cs) \in Nat
  BY <1>2, FunctionFacts DEF Shape
<1>4. b \in 1 .. Len(bs)
  <2>1. CASE f = currentFunction
    <3>1. currentFunction # NoFunction
      BY <2>1 DEF NoFunction
    <3>2. Entered(stack)
      BY <3>1, CurrentIsAFunction
    <3>3. currentBB[2] \in 1 .. Len(bs)
      BY <2>1, <3>2, EnteredFacts DEF IsBlock
    <3>4. DoneBlocks(f) = currentBB[2] - 1
      BY <2>1 DEF DoneBlocks
    <3> HIDE DEF bs
    <3> QED BY <1>3, <3>3, <3>4
  <2>2. CASE f # currentFunction
    BY <2>2 DEF DoneBlocks
  <2> QED BY <2>1, <2>2
<1> SUFFICES b \in 1 .. DoneBlocks(f)' /\ cs[b] = bs[b]
  BY <1>2, <1>4
<1>5. CASE f # currentFunction /\ f # currentFunction'
  <2>1. functions'[f] = functions[f]
    <3>1. PICK c \in {currentFunction, currentFunction'} : Effect(c)
      BY StepEffect
    <3> QED BY <1>5, <3>1 DEF Effect, ModuleGrows
  <2> QED BY <1>4, <1>5, <2>1 DEF DoneBlocks
<1>6. CASE Idle
  BY <1>6 DEF Idle, module, fields, DoneBlocks
<1>7. CASE BodyStep /\ ~ Idle /\ f = currentFunction
  <2>1. Entered(stack) /\ currentBB' = currentBB /\ currentFunction' = currentFunction
    BY <1>7, BodyFacts
  <2>2. currentBB[2] <= insertion[2] /\ insertion[2] \in Nat /\ currentBB[2] \in Nat
    <3>1. IsBlock(functions, currentBB) /\ IsBlock(functions, insertion)
      BY <2>1, EnteredFacts
    <3>2. insertion[2] \in 1 .. Len(functions[insertion[1]].blocks)
          /\ currentBB[2] \in 1 .. Len(functions[currentBB[1]].blocks)
      BY <3>1, Zenon DEF IsBlock
    <3>3. \A i, j : i \in 1 .. j => i \in Nat
      OBVIOUS
    <3>4. insertion[2] \in Nat /\ currentBB[2] \in Nat
      BY <3>2, <3>3, Zenon
    <3> QED BY <2>1, <3>4 DEF Onward
  <2>3. DoneBlocks(f) = currentBB[2] - 1 /\ DoneBlocks(f)' = DoneBlocks(f)
    BY <1>7, <2>1 DEF DoneBlocks
  <2>4. b # insertion[2]
    BY <2>2, <2>3
  <2>5. cs[b] = bs[b]
    BY <1>4, <1>7, <2>4, BodyBlocks
  <2> QED BY <2>3, <2>5
<1>8. CASE Ends /\ f = currentFunction
  <2>1. Entered(stack) /\ currentBB[2] \in 1 .. Len(bs)
    BY <1>8, EndFacts
  <2>2. currentFunction' = NoFunction
    BY <1>8, NothingEntered, NotEntered DEF Shape, FieldsOK
  <2>3. DoneBlocks(f) = currentBB[2] - 1 /\ DoneBlocks(f)' = Len(cs)
    BY <1>8, <2>2 DEF DoneBlocks, NoFunction
  <2>4. b # currentBB[2]
    BY <2>1, <2>3
  <2>5. cs[b] = bs[b] /\ Len(cs) = Len(bs)
    BY <1>4, <1>8, <2>4, EndBlocks
  <2> QED BY <1>4, <2>3, <2>5
<1>9. CASE BeginKnownMotif /\ f = currentFunction'
  <2>1. functions' = AppendBlock(functions, f) /\ currentFunction = NoFunction
        /\ currentBB' = LastBlock(functions', f)
    <3>1. currentFunction = NoFunction /\ currentBB' = LastBlock(functions', currentFunction')
      BY <1>9, EnterFacts
    <3>2. functions' = AppendBlock(functions, currentFunction')
      BY <1>9 DEF BeginKnownMotif, EnterMotif
    <3> QED BY <1>9, <3>1, <3>2
  <2>2. Len(cs) = Len(bs) + 1 /\ cs[b] = bs[b]
    <3>1. Len(values) \in Nat /\ functions \in Seq(FunctionType(Len(values)))
      BY ValuesAreCounted DEF Shape
    <3> QED BY <1>4, <2>1, <3>1, Blocked
  <2>3. DoneBlocks(f)' = Len(cs) - 1
    BY <1>9, <2>1 DEF DoneBlocks, LastBlock
  <2> QED BY <1>3, <1>4, <2>2, <2>3
<1>10. CASE BeginMotif
  <2>1. currentFunction = NoFunction /\ currentFunction' = Len(functions) + 1
    <3>1. currentFunction = NoFunction
      BY <1>10, EnterFacts
    <3> QED BY <1>10, <3>1 DEF BeginMotif, EnterMotif
  <2> QED BY <1>1, <1>5, <2>1 DEF NoFunction
<1>11. CASE BeginTree \/ Prototype
  <2>1. currentFunction' = currentFunction /\ currentFunction = NoFunction
    <3>1. ~ Entered(stack)
      BY <1>11, AtRoot DEF BeginTree, Between, Entered
    <3>2. currentFunction = NoFunction
      BY <3>1, NotEntered
    <3> QED BY <1>11, <3>2 DEF BeginTree, Prototype, fields
  <2> QED BY <1>5, <2>1 DEF NoFunction
<1>12. CASE BodyStep /\ ~ Idle /\ f # currentFunction
  <2>1. currentFunction' = currentFunction
    BY <1>12, BodyFacts
  <2> QED BY <1>5, <1>12, <2>1
<1>13. CASE Ends /\ f # currentFunction
  <2>1. currentFunction' = NoFunction
    BY <1>13, NothingEntered DEF Shape, FieldsOK
  <2> QED BY <1>5, <1>13, <2>1 DEF NoFunction
<1>14. CASE BeginKnownMotif /\ f # currentFunction'
  <2>1. currentFunction = NoFunction
    BY <1>14, EnterFacts
  <2> QED BY <1>5, <1>14, <2>1 DEF NoFunction
<1> QED BY <1>6, <1>7, <1>8, <1>9, <1>10, <1>11, <1>12, <1>13, <1>14, StepKinds

-----------------------------------------------------------------------------
(* What a function returns *)

\* Block b of f is done, and ends with v.
EndsWith(f, b, v) ==
  /\ b \in 1 .. DoneBlocks(f)
  /\ LET block == functions[f].blocks[b] IN block # <<>> /\ values[Last(block)] = v

ReturnsFrom(f, b, r) == r \in 1 .. Len(values) /\ EndsWith(f, b, ReturnOf(<<r>>))

BranchesTo(f, c, b1, r1, b2, r2) ==
  /\ c \in 1 .. Len(values) /\ EndsWith(f, 1, Branch(c, <<b1, b2>>))
  /\ ReturnsFrom(f, b1, r1) /\ ReturnsFrom(f, b2, r2)

\* The code of f returns t.
Means(f, t) ==
  \/ \E r \in 1 .. Len(values) : ReturnsFrom(f, 1, r) /\ t = Terms[r]
  \/ \E c, r1, r2 \in 1 .. Len(values), b1, b2 \in 1 .. DoneBlocks(f) :
       /\ BranchesTo(f, c, b1, r1, b2, r2)
       /\ t = Source!Term("cond", <<>>, <<Terms[c], Terms[r1], Terms[r2]>>)

LEMMA ReturnsMeans ==
  ASSUME Shape, NEW f, NEW t, Means(f, t)
  PROVE  Returns(f) = t
<1> DEFINE end(b) == values[Last(functions[f].blocks[b])]
<1>1. ASSUME NEW b, NEW r, ReturnsFrom(f, b, r)
      PROVE  end(b).op = "ret" /\ end(b).args[1] = r
  BY <1>1 DEF ReturnsFrom, EndsWith, ReturnOf, Instruction, Value
<1>2. ASSUME NEW r \in 1 .. Len(values), ReturnsFrom(f, 1, r), t = Terms[r]
      PROVE  Returns(f) = t
  <2>1. end(1).op = "ret" /\ end(1).args[1] = r
    BY <1>1, <1>2
  <2>2. Returns(f) = Terms[end(1).args[1]]
    BY <2>1 DEF Returns
  <2> QED BY <1>2, <2>1, <2>2
<1>3. ASSUME NEW c, NEW b1, NEW r1, NEW b2, NEW r2, BranchesTo(f, c, b1, r1, b2, r2),
             t = Source!Term("cond", <<>>, <<Terms[c], Terms[r1], Terms[r2]>>)
      PROVE  Returns(f) = t
  <2>1. end(b1).args[1] = r1 /\ end(b2).args[1] = r2
    BY <1>1, <1>3 DEF BranchesTo
  <2>2. end(1).op = "br" /\ end(1).args[1] = c /\ end(1).of[1] = b1 /\ end(1).of[2] = b2
    BY <1>3 DEF BranchesTo, EndsWith, Branch, Instruction, Value
  <2>3. Returns(f) = Source!Term("cond", <<>>, <<Terms[end(1).args[1]],
                       Terms[end(end(1).of[1]).args[1]], Terms[end(end(1).of[2]).args[1]]>>)
    BY <2>2 DEF Returns
  <2> HIDE DEF end
  <2> QED BY <1>3, <2>1, <2>2, <2>3
<1> QED BY <1>2, <1>3 DEF Means

LEMMA EndsWithStays ==
  ASSUME Shape, Shape', Walk, Onward, [Next]_vars,
         NEW f \in 1 .. Len(functions), NEW b, NEW v, EndsWith(f, b, v)
  PROVE  EndsWith(f, b, v)' /\ b \in 1 .. DoneBlocks(f)'
<1>1. b \in 1 .. DoneBlocks(f)
  BY DEF EndsWith
<1>2. /\ b \in 1 .. Len(functions[f].blocks) /\ b \in 1 .. DoneBlocks(f)'
      /\ functions'[f].blocks[b] = functions[f].blocks[b]
  BY <1>1, DoneStay
<1> DEFINE block == functions[f].blocks[b]
<1>3. block # <<>> /\ values[Last(block)] = v
  BY DEF EndsWith
<1>4. block \in Seq(1 .. Len(values))
  BY <1>2, BlockFacts DEF Shape
<1>5. Last(block) \in 1 .. Len(values)
  <2> HIDE DEF block
  <2> QED BY <1>3, <1>4, LastOfSeq
<1>6. values'[Last(block)] = v
  BY <1>3, <1>5, Step DEF Extended
<1> QED BY <1>2, <1>3, <1>6 DEF EndsWith

LEMMA ReturnsFromStays ==
  ASSUME Shape, Shape', Walk, Onward, [Next]_vars,
         NEW f \in 1 .. Len(functions), NEW b, NEW r, ReturnsFrom(f, b, r)
  PROVE  ReturnsFrom(f, b, r)'
<1>1. r \in 1 .. Len(values')
  BY Step DEF ReturnsFrom
<1>2. EndsWith(f, b, ReturnOf(<<r>>))'
  BY EndsWithStays DEF ReturnsFrom
<1> QED BY <1>1, <1>2 DEF ReturnsFrom

LEMMA MeansStays ==
  ASSUME Shape, Shape', CallsInv, Walk, Onward, [Next]_vars,
         NEW f \in 1 .. Len(functions), NEW t, Means(f, t)
  PROVE  Means(f, t)'
<1>1. \A v \in 1 .. Len(values) : v \in 1 .. Len(values') /\ Terms'[v] = Terms[v]
  BY Step, TermsStay
<1>2. ASSUME NEW r \in 1 .. Len(values), ReturnsFrom(f, 1, r), t = Terms[r]
      PROVE  Means(f, t)'
  <2>1. ReturnsFrom(f, 1, r)'
    BY <1>2, ReturnsFromStays
  <2>2. r \in 1 .. Len(values') /\ t = Terms'[r]
    BY <1>1, <1>2
  <2> QED BY <2>1, <2>2 DEF Means
<1>3. ASSUME NEW c \in 1 .. Len(values), NEW r1 \in 1 .. Len(values), NEW r2 \in 1 .. Len(values),
             NEW b1 \in 1 .. DoneBlocks(f), NEW b2 \in 1 .. DoneBlocks(f),
             BranchesTo(f, c, b1, r1, b2, r2),
             t = Source!Term("cond", <<>>, <<Terms[c], Terms[r1], Terms[r2]>>)
      PROVE  Means(f, t)'
  <2>1. ReturnsFrom(f, b1, r1)' /\ ReturnsFrom(f, b2, r2)' /\ EndsWith(f, 1, Branch(c, <<b1, b2>>))'
    BY <1>3, ReturnsFromStays, EndsWithStays DEF BranchesTo
  <2>2. b1 \in 1 .. DoneBlocks(f)' /\ b2 \in 1 .. DoneBlocks(f)'
    BY <2>1 DEF ReturnsFrom, EndsWith
  <2>3. c \in 1 .. Len(values') /\ r1 \in 1 .. Len(values') /\ r2 \in 1 .. Len(values')
        /\ t = Source!Term("cond", <<>>, <<Terms'[c], Terms'[r1], Terms'[r2]>>)
    BY <1>1, <1>3
  <2>4. BranchesTo(f, c, b1, r1, b2, r2)'
    BY <2>1, <2>3 DEF BranchesTo
  <2> QED BY <2>2, <2>3, <2>4 DEF Means
<1> QED BY <1>2, <1>3 DEF Means

-----------------------------------------------------------------------------
(* What a motif that ends returns *)

\* A terminator is the last of its block.
LEMMA TerminatorIsLast ==
  ASSUME NEW fs, NEW vs, NEW f, Verified(fs, vs, f), NEW b \in DOMAIN fs[f].blocks,
         fs[f].blocks[b] \in Seq(Nat), NEW v, InBlock(fs, f, b, v), vs[v].op \in Terminators
  PROVE  fs[f].blocks[b] # <<>> /\ Last(fs[f].blocks[b]) = v
<1> DEFINE s == fs[f].blocks[b]
<1>1. BlockVerified(fs, vs, f, s)
  BY DEF Verified
<1>2. PICK i \in DOMAIN s : s[i] = v
  BY DEF InBlock
<1> HIDE DEF s
<1>3. s # <<>> /\ i = Len(s)
  BY <1>1, <1>2 DEF BlockVerified
<1>4. s \in Seq(Nat)
  BY DEF s
<1> QED BY <1>2, <1>3, <1>4, LastOfSeq DEF s

\* The blocks of the function, once a motif has ended.
LEMMA AfterEnd ==
  ASSUME Shape, Shape', SymbolsInv, Ends, NEW f, f = currentFunction
  PROVE  /\ f \in 1 .. Len(functions) /\ f \in 1 .. Len(functions')
         /\ functions'[f].name = functions[f].name
         /\ Len(functions[f].blocks) \in Nat
         /\ DoneBlocks(f)' = Len(functions[f].blocks)
         /\ \A b \in 1 .. Len(functions[f].blocks) :
              functions'[f].blocks[b] \in Seq(Nat) /\ b \in DOMAIN functions'[f].blocks
<1>1. Walk /\ f \in 1 .. Len(functions)
  BY EndFacts DEF SymbolsInv
<1>2. ~ Entered(stack')
  BY NothingEntered
<1>3. currentFunction' = NoFunction
  BY <1>2 DEF Shape, FieldsOK
<1>4. Grown(functions, functions') /\ Len(functions'[f].blocks) = Len(functions[f].blocks)
      /\ Len(functions[f].blocks) \in Nat
      /\ DOMAIN functions'[f].blocks = 1 .. Len(functions[f].blocks)
  BY <1>1, EndBlocks
<1>5. f \in 1 .. Len(functions') /\ functions'[f].name = functions[f].name
  BY <1>1, <1>4 DEF Grown
<1>6. f # NoFunction
  BY <1>1 DEF NoFunction
<1>7. DoneBlocks(f)' = Len(functions'[f].blocks)
  BY <1>3, <1>6 DEF DoneBlocks
<1>8. \A b \in 1 .. Len(functions[f].blocks) : functions'[f].blocks[b] \in Seq(Nat)
  BY <1>4, <1>5, BlockFacts DEF Shape
<1> QED BY <1>1, <1>4, <1>5, <1>7, <1>8

-----------------------------------------------------------------------------
(* What a motif that ends returns is what its body means *)

\* A motif whose body is no conditional.
LEMMA PlainMeans ==
  ASSUME Shape, Shape', MeaningInv, Ends, Source!IsFresh(program, Tree),
         Source!NameOf(program, Tree) # "main", ~ IsCond,
         NEW f, f = currentFunction, NEW t, t = MeaningOf(Body)
  PROVE  Means(f, t)'
<1> DEFINE n == Len(values')
           s == functions[f].blocks[1]
<1> PICK r : r = stack[1].got[1]
  OBVIOUS
<1>1. /\ SymbolsInv /\ CallsInv /\ BodyInv /\ Walk /\ Tracked
      /\ stack # <<>> /\ Len(stack) = 1 /\ Top = stack[1] /\ Entered(stack)
      /\ Len(stack[1].got) \in {0, 1} /\ values' = values \o Epilogue
      /\ MotifName = Source!NameOf(program, Tree)
      /\ currentBB[2] \in 1 .. Len(functions[f].blocks)
  BY EndFacts DEF MeaningInv, SymbolsInv, Tracked
<1>2. /\ f \in 1 .. Len(functions) /\ f \in 1 .. Len(functions')
      /\ Len(functions[f].blocks) \in Nat /\ DoneBlocks(f)' = Len(functions[f].blocks)
  BY <1>1, AfterEnd
<1>3. PlainLayout
  BY <1>1, EndIsGood
<1>4. currentBB[2] = 1 /\ ~ StaleBody
  BY <1>1 DEF SymbolsInv, Bound, StaleBody
<1>5. stack[1].got # <<>> /\ r \in 1 .. Len(values) /\ shouldReturn
  BY <1>1, <1>3, EndReturns DEF PlainLayout
<1>6. <<r, Body>> \in Matched
  BY <1>1, <1>3, <1>4, <1>5 DEF PlainLayout
<1>7. /\ Epilogue # <<>> /\ n = Len(values) + 1 /\ values'[n] = ReturnOf(stack[1].got)
      /\ Extended(values, values') /\ Len(values) \in Nat
  BY <1>1, <1>5, EpilogueIs
<1>8. stack[1].got = <<r>>
  <2>1. stack[1].got \in Seq(1 .. Len(values))
    BY <1>1, TopIs
  <2>2. Len(stack[1].got) = 1
    BY <1>1, <1>5, <2>1
  <2> QED BY <2>1, <2>2
<1>9. Last(functions'[f].blocks[1]) = n /\ functions'[f].blocks[1] # <<>>
  <2>1. s \in Seq(Nat) /\ functions'[f].blocks[1] = Append(s, n) /\ n \in Nat
    BY <1>1, <1>4, <1>7, EndReturn
  <2> HIDE DEF s, n
  <2>2. Append(s, n) \in Seq(Nat) /\ Append(s, n) # <<>> /\ Append(s, n)[Len(Append(s, n))] = n
    BY <2>1
  <2> QED BY <2>1, <2>2, LastOfSeq
<1>10. EndsWith(f, 1, ReturnOf(<<r>>))'
  <2>1. 1 \in 1 .. DoneBlocks(f)'
    BY <1>1, <1>2, <1>4
  <2>2. values'[Last(functions'[f].blocks[1])] = ReturnOf(<<stack[1].got[1]>>)
    BY <1>7, <1>8, <1>9
  <2> QED BY <1>9, <2>1, <2>2 DEF EndsWith
<1>11. Terms'[r] = Terms[r] /\ r \in 1 .. Len(values')
  <2>1. [Next]_vars
    BY DEF Ends, Next, GetValue
  <2>2. Terms'[r] = Terms[r]
    BY <1>1, <1>5, <2>1, TermsStay
  <2>3. r \in 1 .. Len(values')
    BY <1>5, <1>7
  <2> QED BY <2>2, <2>3
<1>12. Terms[r] = t
  BY <1>6 DEF Matched, Matches
<1>13. ReturnsFrom(f, 1, r)'
  BY <1>10, <1>11 DEF ReturnsFrom
<1> QED BY <1>11, <1>12, <1>13 DEF Means

\* The return of a branch, once the motif has ended.
LEMMA EndOfBranch ==
  ASSUME Shape, Shape', SymbolsInv, Ends, Epilogue = <<>>, values' = values,
         NEW f, f = currentFunction, NEW b, b \in 1 .. Len(functions[f].blocks),
         NEW r, r \in 1 .. Len(values), NEW v, v \in 1 .. Len(values),
         InBlock(functions, f, b, v), values[v] = ReturnOf(<<r>>)
  PROVE  ReturnsFrom(f, b, r)'
<1>1. /\ Walk /\ functions' = functions /\ Verified(functions', values', f)
  BY EndFacts DEF SymbolsInv
<1>2. /\ Len(functions[f].blocks) \in Nat /\ DoneBlocks(f)' = Len(functions[f].blocks)
      /\ functions'[f].blocks[b] \in Seq(Nat) /\ b \in DOMAIN functions'[f].blocks
  BY AfterEnd
<1>3. InBlock(functions', f, b, v)
  BY <1>1
<1>4. values'[v].op \in Terminators
  BY DEF ReturnOf, Instruction, Value, Terminators
<1>5. functions'[f].blocks[b] # <<>> /\ Last(functions'[f].blocks[b]) = v
  BY <1>1, <1>2, <1>3, <1>4, TerminatorIsLast
<1>6. EndsWith(f, b, ReturnOf(<<r>>))'
  BY <1>2, <1>5 DEF EndsWith
<1>7. r \in 1 .. Len(values')
  OBVIOUS
<1> QED BY <1>6, <1>7 DEF ReturnsFrom

\* A motif whose body is a conditional.
LEMMA CondMeans ==
  ASSUME Shape, Shape', MeaningInv, Ends, Source!IsFresh(program, Tree),
         Source!NameOf(program, Tree) # "main", IsCond,
         NEW f, f = currentFunction, NEW t, t = MeaningOf(Body)
  PROVE  Means(f, t)'
<1>1. /\ SymbolsInv /\ CallsInv /\ BodyInv /\ Walk /\ Tracked
      /\ stack # <<>> /\ Entered(stack) /\ values' = values \o Epilogue
      /\ MotifName = Source!NameOf(program, Tree)
      /\ currentBB[2] \in 1 .. Len(functions[f].blocks)
      /\ Verified(functions', values', f)
  BY EndFacts DEF MeaningInv, SymbolsInv, Tracked
<1>2. /\ f \in 1 .. Len(functions) /\ f \in 1 .. Len(functions')
      /\ Len(functions[f].blocks) \in Nat /\ DoneBlocks(f)' = Len(functions[f].blocks)
      /\ functions'[f].blocks[1] \in Seq(Nat) /\ 1 \in DOMAIN functions'[f].blocks
  BY <1>1, AfterEnd DEF SymbolsInv, Bound
<1>3. CondDone
  BY <1>1, EndIsGood
<1>4. currentBB[2] = 1
  BY <1>1 DEF SymbolsInv, Bound
<1>5. Epilogue = <<>> /\ functions' = functions /\ values' = values
  <2>1. Epilogue = <<>>
    BY <1>1, <1>3, CondEndsItself
  <2>2. ~ shouldReturn
    BY <1>1, <2>1, EpilogueIs
  <2>3. values' = values
    BY <1>1, <2>2, EpilogueIs
  <2> QED BY <1>1, <2>1, <2>3, EndFacts
<1>6. PICK v \in 1 .. Len(values), c \in 1 .. Len(values),
           b1 \in 1 .. Len(functions[f].blocks), b2 \in 1 .. Len(functions[f].blocks) :
        DoneBy(v, c, b1, b2)
  BY <1>3 DEF CondDone
<1>7. PICK v1 \in 1 .. Len(values), r1 \in 1 .. Len(values) :
        /\ InBlock(functions, f, b1, v1) /\ values[v1] = ReturnOf(<<r1>>)
        /\ <<r1, CondKid(2)>> \in Matched
  BY <1>6 DEF DoneBy, Returning, RetIn
<1>8. PICK v2 \in 1 .. Len(values), r2 \in 1 .. Len(values) :
        /\ InBlock(functions, f, b2, v2) /\ values[v2] = ReturnOf(<<r2>>)
        /\ <<r2, CondKid(3)>> \in Matched
  BY <1>6 DEF DoneBy, Returning, RetIn
<1>9. ReturnsFrom(f, b1, r1)' /\ ReturnsFrom(f, b2, r2)'
  BY <1>1, <1>5, <1>7, <1>8, EndOfBranch
<1>10. EndsWith(f, 1, Branch(c, <<b1, b2>>))'
  <2>1. InBlock(functions', f, 1, v) /\ values'[v] = Branch(c, <<b1, b2>>)
    BY <1>4, <1>5, <1>6 DEF DoneBy
  <2>2. values'[v].op \in Terminators
    BY <2>1 DEF Branch, Instruction, Value, Terminators
  <2>3. functions'[f].blocks[1] # <<>> /\ Last(functions'[f].blocks[1]) = v
    BY <1>1, <1>2, <2>1, <2>2, TerminatorIsLast
  <2>4. 1 \in 1 .. DoneBlocks(f)'
    BY <1>1, <1>2, <1>4
  <2> QED BY <2>1, <2>3, <2>4 DEF EndsWith
<1>11. BranchesTo(f, c, b1, r1, b2, r2)'
  BY <1>5, <1>9, <1>10 DEF BranchesTo
<1>12. t = Source!Term("cond", <<>>, <<Terms[c], Terms[r1], Terms[r2]>>)
  <2>1. /\ Terms[c] = MeaningOf(CondKid(1)) /\ Terms[r1] = MeaningOf(CondKid(2))
        /\ Terms[r2] = MeaningOf(CondKid(3))
    BY <1>6, <1>7, <1>8 DEF DoneBy, Matched, Matches
  <2>2. Body \in DOMAIN nodes /\ nodes[Body].kind = "cond"
    <3>1. program.trees[Tree] \in DOMAIN nodes /\ Generatable(program)
      BY <1>1, RootFacts DEF Shape
    <3>2. \A i \in 1 .. Len(nodes[program.trees[Tree]].kids) :
            nodes[program.trees[Tree]].kids[i] \in DOMAIN nodes
      BY <3>1, NodeFacts
    <3>3. 2 \in 1 .. Len(nodes[program.trees[Tree]].kids) /\ nodes[Body].kind = "cond"
      BY DEF IsCond
    <3> QED BY <3>2, <3>3 DEF Body
  <2>3. Len(KidsAt(Body)) = 3 /\ KidsAt(Body) \in Seq(Nat)
    BY <2>2, NodeFacts DEF KidsAt, Shape
  <2>4. t = Source!TermOf(program, Tree, Body, [i \in DOMAIN KidsAt(Body) |-> MeaningOf(KidsAt(Body)[i])])
    BY <2>2, TreesSolve DEF Shape
  <2>5. t = Source!Term("cond", <<>>, [i \in DOMAIN KidsAt(Body) |-> MeaningOf(KidsAt(Body)[i])])
    BY <2>2, <2>4 DEF Source!TermOf, nodes
  <2>6. [i \in DOMAIN KidsAt(Body) |-> MeaningOf(KidsAt(Body)[i])] =
          <<MeaningOf(KidsAt(Body)[1]), MeaningOf(KidsAt(Body)[2]), MeaningOf(KidsAt(Body)[3])>>
    <3> HIDE DEF KidsAt, MeaningOf
    <3> QED BY <2>3
  <2> QED BY <2>1, <2>5, <2>6 DEF CondKid, KidsAt
<1>13. \A w \in 1 .. Len(values) : Terms'[w] = Terms[w]
  <2>1. [Next]_vars
    BY DEF Ends, Next, GetValue
  <2> QED BY <1>1, <2>1, TermsStay
<1>14. b1 \in 1 .. DoneBlocks(f)' /\ b2 \in 1 .. DoneBlocks(f)'
  BY <1>2
<1>15. t = Source!Term("cond", <<>>, <<Terms'[c], Terms'[r1], Terms'[r2]>>)
  BY <1>12, <1>13
<1> QED BY <1>5, <1>11, <1>14, <1>15 DEF Means

-----------------------------------------------------------------------------
(* The motifs that are done *)

\* The motifs whose code the property is about, and what their bodies mean.
OwnMotif(k) ==
  /\ Completed(k) /\ Source!IsMotif(program, k) /\ Source!IsFresh(program, k)
  /\ Source!NameOf(program, k) # "main"

BodyMeans(k, t) == t = Source!TermsIn(program, k)[Source!Body(program, k)]

CodeMeans(name, t) ==
  \E f \in 1 .. Len(functions) : functions[f].name = name /\ Means(f, t)

Kept ==
  \A k \in DOMAIN program.trees : OwnMotif(k) =>
    \A t : BodyMeans(k, t) => CodeMeans(Source!NameOf(program, k), t)

LEMMA CodeMeansStays ==
  ASSUME Shape, Shape', CallsInv, Walk, Onward, [Next]_vars, NEW name, NEW t, CodeMeans(name, t)
  PROVE  CodeMeans(name, t)'
<1>1. PICK f \in 1 .. Len(functions) : functions[f].name = name /\ Means(f, t)
  BY DEF CodeMeans
<1>2. Means(f, t)'
  BY <1>1, MeansStays
<1>3. f \in 1 .. Len(functions') /\ functions'[f].name = name
  <2>1. Grown(functions, functions') /\ Len(functions) \in Nat /\ Len(functions') \in Nat
    BY Step DEF Shape
  <2> QED BY <1>1, <2>1 DEF Grown
<1> QED BY <1>2, <1>3 DEF CodeMeans

LEMMA EndMeans ==
  ASSUME Shape, Shape', MeaningInv, Ends, Source!IsFresh(program, Tree),
         Source!NameOf(program, Tree) # "main", NEW t, BodyMeans(Tree, t),
         NEW name, name = Source!NameOf(program, Tree)
  PROVE  CodeMeans(name, t)'
<1>1. Walk /\ Entered(stack) /\ SymbolsInv
  BY EndFacts DEF MeaningInv, SymbolsInv
<1>2. PICK f : f = currentFunction
  OBVIOUS
<1>3. t = MeaningOf(Body)
  BY DEF BodyMeans, MeaningOf, Body, Source!Body, nodes
<1>4. Means(f, t)'
  BY <1>2, <1>3, PlainMeans, CondMeans
<1>5. f \in 1 .. Len(functions') /\ functions'[f].name = functions[f].name
  BY <1>1, <1>2, AfterEnd
<1>6. functions[f].name = name
  BY <1>1, <1>2 DEF SymbolsInv, Bound
<1> QED BY <1>4, <1>5, <1>6 DEF CodeMeans

LEMMA KeptStays ==
  ASSUME MeaningInv, Onward, Kept, [Next]_vars
  PROVE  Kept'
<1>1. Shape /\ Shape' /\ CallsInv'
  BY CallsInvStays DEF MeaningInv
<1>2. program' = program
  BY <1>1, ProgramStays
<1>3. ASSUME NEW k \in DOMAIN program.trees, OwnMotif(k)', NEW t, BodyMeans(k, t),
             NEW name, name = Source!NameOf(program, k)
      PROVE  CodeMeans(name, t)'
  <2>1. /\ Completed(k)' /\ Source!IsMotif(program, k) /\ Source!IsFresh(program, k)
        /\ name # "main"
    BY <1>2, <1>3 DEF OwnMotif
  <2>2. CASE Completed(k)
    <3>1. CodeMeans(name, t)
      BY <1>3, <2>1, <2>2 DEF Kept, OwnMotif
    <3> QED BY <1>1, <3>1, CodeMeansStays DEF MeaningInv, SymbolsInv
  <2>3. CASE ~ Completed(k)
    <3>1. k = Tree /\ (Prototype \/ Ends)
      BY <1>1, <1>3, <2>1, <2>3, Completes
    <3>2. ~ Prototype
      BY <1>1, <2>1, <3>1, RootIs DEF MeaningInv, SymbolsInv, Declaring
    <3> QED BY <1>1, <1>3, <2>1, <3>1, <3>2, EndMeans
  <2> QED BY <2>2, <2>3
<1>4. ASSUME NEW k \in DOMAIN program'.trees, OwnMotif(k)', NEW t, BodyMeans(k, t)'
      PROVE  CodeMeans(Source!NameOf(program, k), t)'
  <2>1. PICK name : name = Source!NameOf(program, k)
    OBVIOUS
  <2>2. BodyMeans(k, t) /\ k \in DOMAIN program.trees
    BY <1>2, <1>4 DEF BodyMeans
  <2>3. CodeMeans(name, t)'
    BY <1>3, <1>4, <2>1, <2>2
  <2>4. Source!NameOf(program', k) = name
    BY <1>2, <2>1
  <2> QED BY <2>3, <2>4
<1> QED BY <1>4 DEF Kept

(* The code of a motif that declares its name returns what its body says:  *)
(* it did when the motif ended, and blocks that are done stay.             *)
THEOREM BodiesKeepTheirMeaning == Spec => []MeaningPreserved
<1> DEFINE Inv == MeaningInv /\ Onward /\ Kept
<1>1. Init => Inv
  <2> SUFFICES ASSUME Init PROVE Inv
    OBVIOUS
  <2>1. stack = <<>> /\ next = 1 /\ Shape
    BY ShapeInit DEF Init, Fresh
  <2>2. Onward
    BY <2>1 DEF Onward, Entered
  <2>3. \A k \in DOMAIN program.trees : ~ Completed(k)
    BY <2>1 DEF Completed, Shape, Generatable
  <2> QED BY <2>2, <2>3, MeaningInit DEF Kept, OwnMotif
<1>2. Inv /\ [Next]_vars => Inv'
  <2> SUFFICES ASSUME Inv, [Next]_vars PROVE Inv'
    OBVIOUS
  <2>1. Shape /\ Shape'
    BY CallsInvStays DEF MeaningInv
  <2> QED BY <2>1, MeaningInvStays, OnwardStays, KeptStays
<1>3. Inv => MeaningPreserved
  <2> SUFFICES ASSUME Inv, NEW k \in DOMAIN program.trees, OwnMotif(k)
               PROVE  Returns(Named(functions, Source!NameOf(program, k)))
                        = Source!TermsIn(program, k)[Source!Body(program, k)]
    BY DEF MeaningPreserved, OwnMotif
  <2> DEFINE name == Source!NameOf(program, k)
  <2>1. PICK t : BodyMeans(k, t)
    BY DEF BodyMeans
  <2>2. PICK f \in 1 .. Len(functions) : functions[f].name = name /\ Means(f, t)
    BY <2>1 DEF Kept, CodeMeans
  <2>3. Shape /\ Symbols
    BY DEF MeaningInv, CallsInv, SymbolsInv
  <2>4. name # Renamed
    <3>1. program.trees[k] \in DOMAIN nodes /\ nodes[program.trees[k]].kind = "motif"
      BY <2>3 DEF Shape, Generatable, nodes, OwnMotif, Source!IsMotif
    <3>2. nodes[program.trees[k]].kids[1] \in DOMAIN nodes
      BY <2>3, <3>1, NodeFacts DEF Shape
    <3>3. name = nodes[nodes[program.trees[k]].kids[1]].name
      BY DEF Source!NameOf, Source!Proto, nodes, OwnMotif
    <3> QED BY <2>3, <3>2, <3>3, NamesArePlain DEF Shape
  <2>5. Named(functions, name) = f
    BY <2>2, <2>3, <2>4, NamedIs
  <2>6. Returns(f) = t
    BY <2>2, <2>3, ReturnsMeans
  <2> QED BY <2>1, <2>5, <2>6 DEF BodyMeans
<1> HIDE DEF Inv
<1> QED BY <1>1, <1>2, <1>3, PTL DEF Spec

-----------------------------------------------------------------------------
(* Sequences of sequences *)

\* A sequence, of whatever elements.
IsSeq(s) == \E S : s \in Seq(S)

IsSeqs(ss) == IsSeq(ss) /\ \A i \in DOMAIN ss : IsSeq(ss[i])

LEMMA SeqFacts ==
  ASSUME NEW s, IsSeq(s)
  PROVE  Len(s) \in Nat /\ DOMAIN s = 1 .. Len(s) /\ s = [i \in 1 .. Len(s) |-> s[i]]
<1>1. PICK S : s \in Seq(S)
  BY DEF IsSeq
<1> QED BY <1>1

LEMMA IsSeqOf ==
  ASSUME NEW n \in Nat, NEW f, f = [i \in 1 .. n |-> f[i]]
  PROVE  IsSeq(f) /\ Len(f) = n /\ DOMAIN f = 1 .. n
<1> DEFINE S == { f[i] : i \in 1 .. n }
<1>1. f \in [1 .. n -> S]
  <2>1. \A i \in 1 .. n : f[i] \in S
    OBVIOUS
  <2> HIDE DEF S
  <2> QED BY <2>1
<1>2. f \in Seq(S)
  <2> HIDE DEF S
  <2> QED BY <1>1, SeqDef
<1>3. Len(f) = n
  <2> HIDE DEF S
  <2> QED BY <1>1, <1>2
<1> QED BY <1>1, <1>2, <1>3 DEF IsSeq

LEMMA SeqSame ==
  ASSUME NEW s, NEW t, IsSeq(s), IsSeq(t), Len(s) = Len(t), \A i \in 1 .. Len(s) : s[i] = t[i]
  PROVE  s = t
<1>1. PICK n \in Nat : n = Len(s)
  BY SeqFacts
<1>2. s = [i \in 1 .. n |-> s[i]] /\ t = [i \in 1 .. n |-> t[i]]
  BY <1>1, SeqFacts
<1>3. [i \in 1 .. n |-> s[i]] = [i \in 1 .. n |-> t[i]]
  BY <1>1
<1> QED BY <1>2, <1>3

LEMMA SeqConcat ==
  ASSUME NEW s, NEW t, IsSeq(s), IsSeq(t)
  PROVE  /\ IsSeq(s \o t) /\ s \o <<>> = s /\ <<>> \o s = s /\ IsSeq(<<>>)
         /\ \A x : IsSeq(<<x>>)
<1>1. PICK S : s \in Seq(S)
  BY DEF IsSeq
<1>2. PICK T : t \in Seq(T)
  BY DEF IsSeq
<1>3. s \in Seq(S \cup T) /\ t \in Seq(S \cup T)
  BY <1>1, <1>2, SeqMonotonic
<1>4. s \o t \in Seq(S \cup T)
  BY <1>3, ConcatProperties
<1>5. s \o <<>> = s /\ <<>> \o s = s
  BY <1>1, ConcatEmptySeq
<1>6. IsSeq(<<>>)
  BY DEF IsSeq
<1>7. \A x : IsSeq(<<x>>)
  <2>1. ASSUME NEW x PROVE <<x>> \in Seq({x})
    OBVIOUS
  <2> QED BY <2>1 DEF IsSeq
<1> QED BY <1>4, <1>5, <1>6, <1>7 DEF IsSeq

LEMMA SeqAssociative ==
  ASSUME NEW s, NEW t, NEW u, IsSeq(s), IsSeq(t), IsSeq(u)
  PROVE  (s \o t) \o u = s \o (t \o u)
<1>1. PICK S : s \in Seq(S)
  BY DEF IsSeq
<1>2. PICK T : t \in Seq(T)
  BY DEF IsSeq
<1>3. PICK U : u \in Seq(U)
  BY DEF IsSeq
<1> DEFINE A == S \cup T \cup U
<1>4. s \in Seq(A) /\ t \in Seq(A) /\ u \in Seq(A)
  BY <1>1, <1>2, <1>3, SeqMonotonic
<1> HIDE DEF A
<1> QED BY <1>4, ConcatAssociative

LEMMA SeqRegroup ==
  ASSUME NEW a, NEW b, NEW c, NEW d, IsSeq(a), IsSeq(b), IsSeq(c), IsSeq(d)
  PROVE  a \o (b \o (c \o d)) = ((a \o b) \o c) \o d
<1>1. IsSeq(a \o b) /\ IsSeq(c \o d)
  BY SeqConcat
<1>2. PICK e : e = c \o d
  OBVIOUS
<1>3. PICK f : f = a \o b
  OBVIOUS
<1>4. IsSeq(e) /\ IsSeq(f)
  BY <1>1, <1>2, <1>3
<1>5. (a \o b) \o e = a \o (b \o e)
  BY <1>4, SeqAssociative, SMTT(30)
<1>6. (f \o c) \o d = f \o (c \o d)
  BY <1>4, SeqAssociative, SMTT(30)
<1> QED BY <1>2, <1>3, <1>5, <1>6

LEMMA SeqRegrouped ==
  ASSUME NEW a, NEW b, NEW c, NEW d, IsSeq(a), IsSeq(b), IsSeq(c), IsSeq(d)
  PROVE  \A l, r : l = a \o (b \o (c \o d)) /\ r = ((a \o b) \o c) \o d => l = r
<1>1. a \o (b \o (c \o d)) = ((a \o b) \o c) \o d
  BY SeqRegroup, SMTT(30)
<1> QED BY <1>1

\* Append, to a sequence of whatever elements.
LEMMA SeqAppend ==
  ASSUME NEW s, IsSeq(s), NEW x
  PROVE  LET t == Append(s, x) IN
         /\ IsSeq(t) /\ Len(s) \in Nat /\ Len(t) = Len(s) + 1
         /\ \A i \in 1 .. Len(s) : t[i] = s[i]
         /\ t[Len(s) + 1] = x
<1>1. PICK S : s \in Seq(S)
  BY DEF IsSeq
<1>2. s \in Seq(S \cup {x}) /\ x \in S \cup {x}
  BY <1>1, SeqMonotonic
<1>3. Append(s, x) \in Seq(S \cup {x}) /\ Len(Append(s, x)) = Len(s) + 1 /\ Len(s) \in Nat
  BY <1>2
<1>4. /\ \A i \in 1 .. Len(s) : Append(s, x)[i] = s[i]
      /\ Append(s, x)[Len(s) + 1] = x
  BY <1>2
<1> QED BY <1>3, <1>4 DEF IsSeq

\* What FlattenSeq has put together after i of the sequences.
Joined(ss, f, n) == f = [i \in 1 .. n |-> IF i = 1 THEN ss[i] ELSE f[i - 1] \o ss[i]]

LEMMA JoinedExists ==
  ASSUME NEW ss, NEW n \in Nat
  PROVE  \E f : Joined(ss, f, n)
<1> DEFINE Bad == { m \in 0 .. n : ~ \E f : Joined(ss, f, m) }
<1>1. SUFFICES ASSUME Bad # {} PROVE FALSE
  OBVIOUS
<1>2. PICK m \in Bad : \A y \in Bad : m <= y
  <2>1. Bad \in SUBSET Nat
    OBVIOUS
  <2> HIDE DEF Bad
  <2> QED BY <1>1, <2>1, ValueTerms!Least
<1>3. m \in 0 .. n /\ ~ \E f : Joined(ss, f, m)
  BY <1>2
<1>4. m # 0
  <2>1. ASSUME m = 0 PROVE FALSE
    <3> DEFINE e == [v \in {} |-> v]
    <3>1. Joined(ss, e, m)
      BY <2>1 DEF Joined
    <3> QED BY <3>1, <1>3
  <2> QED BY <2>1
<1>5. PICK g : Joined(ss, g, m - 1)
  <2>1. m - 1 \in 0 .. n /\ m - 1 \notin Bad
    BY <1>2, <1>3, <1>4
  <2> QED BY <2>1
<1> HIDE DEF Bad
<1> DEFINE last == IF m = 1 THEN ss[m] ELSE g[m - 1] \o ss[m]
           h    == [i \in 1 .. m |-> IF i < m THEN g[i] ELSE last]
<1>6. \A i \in 1 .. m - 1 : g[i] = IF i = 1 THEN ss[i] ELSE g[i - 1] \o ss[i]
  BY <1>5 DEF Joined
<1>7. \A i \in 1 .. m : h[i] = IF i = 1 THEN ss[i] ELSE h[i - 1] \o ss[i]
  <2>1. ASSUME NEW i \in 1 .. m PROVE h[i] = IF i = 1 THEN ss[i] ELSE h[i - 1] \o ss[i]
    <3>1. i # 1 => i - 1 \in 1 .. m /\ i - 1 < m
      BY <1>3, <1>4
    <3>2. i # 1 => h[i - 1] = g[i - 1]
      BY <3>1
    <3>3. CASE i < m
      <4>1. i \in 1 .. m - 1 /\ h[i] = g[i]
        BY <3>3, <1>3
      <4> QED BY <4>1, <3>2, <1>6
    <3>4. CASE i = m
      <4>1. h[i] = last
        BY <3>4, <1>3
      <4> QED BY <4>1, <3>2, <3>4
    <3> QED BY <3>3, <3>4, <1>3
  <2> QED BY <2>1
<1>8. h = [i \in 1 .. m |-> h[i]]
  OBVIOUS
<1> HIDE DEF h, last
<1>9. Joined(ss, h, m)
  BY <1>7, <1>8 DEF Joined
<1> QED BY <1>9, <1>3

\* Those of a longer sequence of sequences begin in the same way.
LEMMA JoinedSame ==
  ASSUME NEW ss, NEW tt, NEW n \in Nat, NEW m \in Nat, n <= m, NEW f, NEW g,
         Joined(ss, f, n), Joined(tt, g, m), \A i \in 1 .. n : ss[i] = tt[i]
  PROVE  \A i \in 1 .. n : f[i] = g[i]
<1> DEFINE Bad == { i \in 1 .. n : f[i] # g[i] }
<1>1. SUFFICES ASSUME Bad # {} PROVE FALSE
  OBVIOUS
<1>2. PICK x \in Bad : \A y \in Bad : x <= y
  <2>1. Bad \in SUBSET Nat
    OBVIOUS
  <2> HIDE DEF Bad
  <2> QED BY <1>1, <2>1, ValueTerms!Least
<1>3. x \in 1 .. n /\ x \in 1 .. m /\ f[x] # g[x]
  BY <1>2
<1>4. /\ f[x] = IF x = 1 THEN ss[x] ELSE f[x - 1] \o ss[x]
      /\ g[x] = IF x = 1 THEN tt[x] ELSE g[x - 1] \o tt[x]
  BY <1>3 DEF Joined
<1>5. x # 1 => f[x - 1] = g[x - 1]
  <2>1. x # 1 => x - 1 \in 1 .. n /\ x - 1 \notin Bad
    BY <1>2, <1>3
  <2> QED BY <2>1
<1> QED BY <1>3, <1>4, <1>5

\* What FlattenSeq is, ...
LEMMA FlattenIs ==
  ASSUME NEW ss, IsSeq(ss), NEW f, Joined(ss, f, Len(ss))
  PROVE  FlattenSeq(ss) = IF Len(ss) = 0 THEN ss ELSE f[Len(ss)]
<1>1. Len(ss) \in Nat
  BY SeqFacts
<1> DEFINE g == CHOOSE g : g = [i \in 1 .. Len(ss) |-> IF i = 1 THEN ss[i] ELSE g[i - 1] \o ss[i]]
<1>2. FlattenSeq(ss) = IF Len(ss) = 0 THEN ss ELSE g[Len(ss)]
  BY DEF FlattenSeq
<1>3. Joined(ss, g, Len(ss))
  BY DEF Joined
<1> HIDE DEF g
<1>4. \A i \in 1 .. Len(ss) : f[i] = g[i]
  BY <1>1, <1>3, JoinedSame
<1>5. Len(ss) # 0 => Len(ss) \in 1 .. Len(ss)
  BY <1>1
<1> QED BY <1>2, <1>4, <1>5

\* ... of no sequence, and of one more.
LEMMA FlattenEmpty == FlattenSeq(<<>>) = <<>>
  BY DEF FlattenSeq

LEMMA FlattenAppend ==
  ASSUME NEW ss, IsSeq(ss), NEW s, IsSeq(s)
  PROVE  FlattenSeq(Append(ss, s)) = FlattenSeq(ss) \o s
<1> DEFINE tt == Append(ss, s)
<1>1. PICK n \in Nat : n = Len(ss)
  BY SeqFacts
<1>2. /\ IsSeq(tt) /\ Len(tt) = n + 1 /\ \A i \in 1 .. n : tt[i] = ss[i]
      /\ tt[n + 1] = s
  BY <1>1, SeqAppend
<1> HIDE DEF tt
<1>3. PICK f : Joined(ss, f, n)
  BY JoinedExists
<1>4. PICK g : Joined(tt, g, n + 1)
  BY JoinedExists
<1>5. FlattenSeq(tt) = g[n + 1]
  BY <1>2, <1>4, FlattenIs
<1>6. g[n + 1] = IF n + 1 = 1 THEN tt[n + 1] ELSE g[n + 1 - 1] \o tt[n + 1]
  <2>1. n + 1 \in 1 .. n + 1
    OBVIOUS
  <2>2. \A i \in 1 .. n + 1 : g[i] = IF i = 1 THEN tt[i] ELSE g[i - 1] \o tt[i]
    BY <1>4 DEF Joined
  <2> QED BY <2>1, <2>2
<1>7. FlattenSeq(ss) = IF n = 0 THEN ss ELSE f[n]
  BY <1>1, <1>3, FlattenIs
<1>8. CASE n = 0
  <2>1. ss = <<>>
    <3>1. PICK S : ss \in Seq(S)
      BY DEF IsSeq
    <3> QED BY <3>1, <1>1, <1>8, EmptySeq
  <2>2. <<>> \o s = s
    BY SeqConcat
  <2> QED BY <1>2, <1>5, <1>6, <1>7, <1>8, <2>1, <2>2 DEF tt
<1>9. CASE n # 0
  <2>1. f[n] = g[n]
    <3>1. n \in 1 .. n /\ n <= n + 1 /\ n + 1 \in Nat
      BY <1>9
    <3> QED BY <3>1, <1>2, <1>3, <1>4, JoinedSame
  <2>2. n + 1 - 1 = n /\ n + 1 # 1
    BY <1>9
  <2> QED BY <1>2, <1>5, <1>6, <1>7, <1>9, <2>1, <2>2 DEF tt
<1> QED BY <1>8, <1>9

LEMMA FlattenIsSeq ==
  ASSUME NEW ss, IsSeqs(ss)
  PROVE  IsSeq(FlattenSeq(ss))
<1>1. PICK n \in Nat : n = Len(ss)
  BY SeqFacts DEF IsSeqs
<1>2. PICK f : Joined(ss, f, n)
  BY JoinedExists
<1>3. \A i \in 1 .. n : IsSeq(ss[i])
  BY <1>1, SeqFacts DEF IsSeqs
<1> DEFINE Bad == { i \in 1 .. n : ~ IsSeq(f[i]) }
<1>4. Bad = {}
  <2>1. SUFFICES ASSUME Bad # {} PROVE FALSE
    OBVIOUS
  <2>2. PICK x \in Bad : \A y \in Bad : x <= y
    <3>1. Bad \in SUBSET Nat
      OBVIOUS
    <3> HIDE DEF Bad
    <3> QED BY <2>1, <3>1, ValueTerms!Least
  <2>3. x \in 1 .. n /\ ~ IsSeq(f[x])
    BY <2>2
  <2>4. f[x] = IF x = 1 THEN ss[x] ELSE f[x - 1] \o ss[x]
    BY <1>2, <2>3 DEF Joined
  <2>5. x # 1 => IsSeq(f[x - 1])
    <3>1. x # 1 => x - 1 \in 1 .. n /\ x - 1 \notin Bad
      BY <2>2, <2>3
    <3> QED BY <3>1
  <2> QED BY <1>3, <2>3, <2>4, <2>5, SeqConcat
<1>5. n # 0 => IsSeq(f[n])
  <2>1. n # 0 => n \in 1 .. n
    OBVIOUS
  <2> QED BY <1>4, <2>1
<1> QED BY <1>1, <1>2, <1>5, FlattenIs DEF IsSeqs

\* One sequence more.
LEMMA FlattenMore ==
  ASSUME NEW n \in Nat, NEW f, f = [i \in 1 .. n |-> f[i]],
         NEW g, g = [i \in 1 .. n + 1 |-> g[i]], \A i \in 1 .. n : g[i] = f[i], IsSeq(g[n + 1])
  PROVE  FlattenSeq(g) = FlattenSeq(f) \o g[n + 1]
<1>1. IsSeq(f) /\ Len(f) = n
  BY IsSeqOf
<1>2. n + 1 \in Nat
  OBVIOUS
<1>3. IsSeq(g) /\ Len(g) = n + 1
  BY <1>2, IsSeqOf
<1> DEFINE h == Append(f, g[n + 1])
<1>4. /\ IsSeq(h) /\ Len(h) = n + 1 /\ \A i \in 1 .. n : h[i] = f[i]
      /\ h[n + 1] = g[n + 1]
  BY <1>1, SeqAppend
<1>5. FlattenSeq(h) = FlattenSeq(f) \o g[n + 1]
  BY <1>1, FlattenAppend
<1> HIDE DEF h
<1>6. \A i \in 1 .. n + 1 : h[i] = g[i]
  <2>1. \A i \in 1 .. n + 1 : i \in 1 .. n \/ i = n + 1
    OBVIOUS
  <2> QED BY <1>4, <2>1
<1>7. h = g
  BY <1>3, <1>4, <1>6, SeqSame
<1> QED BY <1>5, <1>7

-----------------------------------------------------------------------------
(* The calls below a node *)

CallsBelow(n) == Source!CallsIn(program, Tree)[n]

CallStep(f, n) ==
  FlattenSeq([i \in DOMAIN KidsAt(n) |-> f[KidsAt(n)[i]]])
  \o IF nodes[n].kind = "call" THEN <<MeaningOf(n)>> ELSE <<>>

TreeCalls == INSTANCE Recursion WITH Step <- CallStep

LEMMA CallsLook ==
  ASSUME Generatable(program)
  PROVE  TreeCalls!Looks(Len(nodes))
<1>1. SUFFICES ASSUME NEW n \in 1 .. Len(nodes), NEW g, NEW h, \A u \in 1 .. n - 1 : g[u] = h[u]
               PROVE  CallStep(g, n) = CallStep(h, n)
  BY DEF TreeCalls!Looks
<1>2. [i \in DOMAIN KidsAt(n) |-> g[KidsAt(n)[i]]] = [i \in DOMAIN KidsAt(n) |-> h[KidsAt(n)[i]]]
  BY <1>1, KidsAreOlder
<1> QED BY <1>2 DEF CallStep

\* Those of its children, and its own.
LEMMA CallsSolve ==
  ASSUME Generatable(program), NEW n \in DOMAIN nodes
  PROVE  CallsBelow(n) =
           FlattenSeq([i \in DOMAIN KidsAt(n) |-> CallsBelow(KidsAt(n)[i])])
           \o IF nodes[n].kind = "call" THEN <<MeaningOf(n)>> ELSE <<>>
<1>1. Len(nodes) \in Nat /\ DOMAIN nodes = 1 .. Len(nodes) /\ nodes = program.nodes
  BY KidsAreOlder DEF nodes
<1> DEFINE F == Source!CallsIn(program, Tree)
<1>2. F = CHOOSE g : g = [m \in 1 .. Len(nodes) |-> CallStep(g, m)]
  <2>1. DOMAIN program.nodes = 1 .. Len(nodes)
    BY <1>1
  <2> QED BY <2>1, Zenon DEF Source!CallsIn, CallStep, KidsAt, nodes, MeaningOf,
                            FlattenSeq, Source!FlattenSeq
<1> HIDE DEF F
<1>3. F = [m \in 1 .. Len(nodes) |-> CallStep(F, m)]
  BY <1>1, <1>2, CallsLook, TreeCalls!Solves
<1>4. F[n] = CallStep(F, n)
  BY <1>1, <1>3
<1> QED BY <1>4 DEF CallStep, CallsBelow, F

\* They are a sequence.
LEMMA CallsAreSeq ==
  ASSUME Generatable(program), NEW n \in DOMAIN nodes
  PROVE  IsSeq(CallsBelow(n))
<1> DEFINE Bad == { m \in DOMAIN nodes : ~ IsSeq(CallsBelow(m)) }
<1>1. SUFFICES ASSUME Bad # {} PROVE FALSE
  OBVIOUS
<1>2. PICK x \in Bad : \A y \in Bad : x <= y
  <2>1. Bad \in SUBSET Nat
    BY KidsAreOlder
  <2> HIDE DEF Bad
  <2> QED BY <1>1, <2>1, ValueTerms!Least
<1>3. x \in DOMAIN nodes /\ x \in 1 .. Len(nodes) /\ ~ IsSeq(CallsBelow(x)) /\ Len(nodes) \in Nat
  BY <1>2, KidsAreOlder
<1>4. KidsAt(x) \in Seq(Nat)
  BY <1>3, NodeFacts DEF KidsAt
<1>5. PICK k \in Nat : k = Len(KidsAt(x)) /\ DOMAIN KidsAt(x) = 1 .. k
  BY <1>4
<1>6. \A i \in 1 .. k : KidsAt(x)[i] \in DOMAIN nodes /\ KidsAt(x)[i] \in 1 .. x - 1
  BY <1>3, <1>5, KidsAreOlder
<1>7. \A i \in 1 .. k : IsSeq(CallsBelow(KidsAt(x)[i]))
  BY <1>2, <1>3, <1>6
<1> DEFINE cs == [i \in 1 .. k |-> CallsBelow(KidsAt(x)[i])]
<1>8. IsSeqs(cs)
  <2>1. cs = [i \in 1 .. k |-> cs[i]]
    OBVIOUS
  <2>2. IsSeq(cs) /\ DOMAIN cs = 1 .. k
    <3> HIDE DEF cs
    <3> QED BY <2>1, IsSeqOf
  <2> QED BY <1>7, <2>2 DEF IsSeqs
<1>9. IsSeq(FlattenSeq(cs))
  <2> HIDE DEF cs
  <2> QED BY <1>8, FlattenIsSeq
<1>10. IsSeq(IF nodes[x].kind = "call" THEN <<MeaningOf(x)>> ELSE <<>>)
  BY <1>9, SeqConcat
<1>11. CallsBelow(x) = FlattenSeq(cs) \o IF nodes[x].kind = "call" THEN <<MeaningOf(x)>> ELSE <<>>
  BY <1>3, <1>5, CallsSolve
<1> QED BY <1>3, <1>9, <1>10, <1>11, SeqConcat

-----------------------------------------------------------------------------
(* The calls of a block *)

CallAmong(vs, ts, v) == IF vs[v].op = "call" THEN <<ts[v]>> ELSE <<>>

CallsAmong(vs, ts, block) == FlattenSeq([i \in DOMAIN block |-> CallAmong(vs, ts, block[i])])

LEMMA CallsOfAre ==
  ASSUME NEW f, NEW b
  PROVE  /\ CallsOf(f, b) = CallsAmong(values, Terms, functions[f].blocks[b])
         /\ CallsOf(f, b)' = CallsAmong(values', Terms', functions'[f].blocks[b])
<1>1. CallsOf(f, b) = CallsAmong(values, Terms, functions[f].blocks[b])
  BY Zenon DEF CallsOf, CallsAmong, CallAmong
<1>2. CallsOf(f, b)' = CallsAmong(values', Terms', functions'[f].blocks[b])
  BY Zenon DEF CallsOf, CallsAmong, CallAmong
<1> QED BY <1>1, <1>2

LEMMA SeqLiterals == IsSeq(<<>>) /\ \A x : IsSeq(<<x>>)
<1>1. <<>> \in Seq(Nat)
  OBVIOUS
<1>2. IsSeq(<<>>)
  BY <1>1 DEF IsSeq
<1> QED BY <1>2, SeqConcat

\* An instruction more.
LEMMA CallsLonger ==
  ASSUME NEW vs, NEW ts, NEW block \in Seq(Nat), NEW v \in Nat
  PROVE  CallsAmong(vs, ts, Append(block, v)) = CallsAmong(vs, ts, block) \o CallAmong(vs, ts, v)
<1>1. PICK n \in Nat : n = Len(block) /\ DOMAIN block = 1 .. n
  OBVIOUS
<1> DEFINE f == [i \in 1 .. n |-> CallAmong(vs, ts, block[i])]
           g == [i \in 1 .. n + 1 |-> CallAmong(vs, ts, Append(block, v)[i])]
<1>2. /\ DOMAIN Append(block, v) = 1 .. n + 1 /\ Append(block, v)[n + 1] = v
      /\ \A i \in 1 .. n : Append(block, v)[i] = block[i]
  BY <1>1, AppendProperties
<1>3. \A i \in 1 .. n : g[i] = f[i]
  <2>1. \A i \in 1 .. n : i \in 1 .. n + 1
    OBVIOUS
  <2> QED BY <1>2, <2>1
<1>4. g[n + 1] = CallAmong(vs, ts, v)
  <2>1. n + 1 \in 1 .. n + 1
    OBVIOUS
  <2> QED BY <1>2, <2>1
<1>5. IsSeq(g[n + 1])
  BY <1>4, SeqLiterals DEF CallAmong
<1>6. f = [i \in 1 .. n |-> f[i]] /\ g = [i \in 1 .. n + 1 |-> g[i]]
  OBVIOUS
<1>7. CallsAmong(vs, ts, block) = FlattenSeq(f)
  BY <1>1 DEF CallsAmong
<1>8. CallsAmong(vs, ts, Append(block, v)) = FlattenSeq(g)
  BY <1>2 DEF CallsAmong
<1> HIDE DEF f, g
<1>9. FlattenSeq(g) = FlattenSeq(f) \o g[n + 1]
  BY <1>3, <1>5, <1>6, FlattenMore
<1> QED BY <1>4, <1>7, <1>8, <1>9

\* No instruction.
LEMMA CallsNone ==
  ASSUME NEW vs, NEW ts
  PROVE  CallsAmong(vs, ts, <<>>) = <<>>
<1>1. [i \in DOMAIN <<>> |-> CallAmong(vs, ts, <<>>[i])] = <<>>
  OBVIOUS
<1> QED BY <1>1, FlattenEmpty DEF CallsAmong

LEMMA CallsAmongIsSeq ==
  ASSUME NEW vs, NEW ts, NEW block \in Seq(Nat)
  PROVE  IsSeq(CallsAmong(vs, ts, block))
<1>1. PICK n \in Nat : n = Len(block) /\ DOMAIN block = 1 .. n
  OBVIOUS
<1> DEFINE f == [i \in 1 .. n |-> CallAmong(vs, ts, block[i])]
<1>2. f = [i \in 1 .. n |-> f[i]] /\ CallsAmong(vs, ts, block) = FlattenSeq(f)
  BY <1>1 DEF CallsAmong
<1>3. \A i \in 1 .. n : IsSeq(f[i])
  BY SeqLiterals DEF CallAmong
<1> HIDE DEF f
<1>4. IsSeq(f) /\ DOMAIN f = 1 .. n
  BY <1>2, IsSeqOf
<1> QED BY <1>2, <1>3, <1>4, FlattenIsSeq DEF IsSeqs

\* The calls of a block stay.
LEMMA CallsAmongSame ==
  ASSUME NEW S, NEW block \in Seq(S), NEW vs, NEW ts, NEW ws, NEW us,
         \A v \in S : ws[v] = vs[v] /\ us[v] = ts[v]
  PROVE  CallsAmong(ws, us, block) = CallsAmong(vs, ts, block)
<1>1. \A i \in DOMAIN block : CallAmong(ws, us, block[i]) = CallAmong(vs, ts, block[i])
  <2>1. \A v \in S : CallAmong(ws, us, v) = CallAmong(vs, ts, v)
    BY DEF CallAmong
  <2>2. \A i \in DOMAIN block : block[i] \in S
    OBVIOUS
  <2> QED BY <2>1, <2>2
<1>2. [i \in DOMAIN block |-> CallAmong(ws, us, block[i])] =
      [i \in DOMAIN block |-> CallAmong(vs, ts, block[i])]
  BY <1>1
<1> QED BY <1>2 DEF CallsAmong

LEMMA CallsOfSame ==
  ASSUME Shape, Shape', CallsInv, [Next]_vars, NEW f \in 1 .. Len(functions),
         NEW b \in 1 .. Len(functions[f].blocks), functions'[f].blocks[b] = functions[f].blocks[b]
  PROVE  CallsOf(f, b)' = CallsOf(f, b)
<1>1. Extended(values, values') /\ \A v \in 1 .. Len(values) : Terms'[v] = Terms[v]
  BY Step, TermsStay
<1>2. functions[f].blocks[b] \in Seq(1 .. Len(values))
  BY BlockFacts DEF Shape
<1>3. CallsAmong(values', Terms', functions[f].blocks[b]) =
      CallsAmong(values, Terms, functions[f].blocks[b])
  <2>1. PICK S : S = 1 .. Len(values)
    OBVIOUS
  <2>2. PICK block : block = functions[f].blocks[b]
    OBVIOUS
  <2>3. block \in Seq(S) /\ \A v \in S : values'[v] = values[v] /\ Terms'[v] = Terms[v]
    BY <1>1, <1>2, <2>1, <2>2 DEF Extended
  <2>4. CallsAmong(values', Terms', block) = CallsAmong(values, Terms, block)
    BY <2>3, CallsAmongSame
  <2> QED BY <2>2, <2>4
<1> QED BY <1>3, CallsOfAre

\* What a step between the beginning of a motif and its end does to them.
LEMMA BodyCalls ==
  ASSUME Shape, Shape', CallsInv, BodyStep, ~ Idle, NEW c, c = currentFunction,
         NEW b \in 1 .. Len(functions[c].blocks)
  PROVE  CallsOf(c, b)' =
           IF b = insertion[2] /\ BuildCall
             THEN CallsOf(c, b) \o <<Terms'[Len(values) + 1]>> ELSE CallsOf(c, b)
<1> DEFINE bs == functions[c].blocks
           cs == functions'[c].blocks
<1>1. /\ c \in 1 .. Len(functions) /\ Len(bs) \in Nat
      /\ \A d \in 1 .. Len(bs) :
           cs[d] = IF d = insertion[2] /\ Inserts THEN Append(bs[d], Len(values) + 1) ELSE bs[d]
  BY BodyBlocks
<1>2. [Next]_vars
  BY BodyKeeps
<1>3. PICK n \in Nat : n = Len(values)
  BY ValuesAreCounted
<1>4. PICK block : block = bs[b]
  OBVIOUS
<1>5. block \in Seq(1 .. n) /\ block \in Seq(Nat)
  <2>1. block \in Seq(1 .. n)
    BY <1>1, <1>3, <1>4, BlockFacts DEF Shape
  <2> QED BY <1>3, <2>1, ValuesAreCounted, OperandFacts
<1>6. Inserts =>
        /\ values' = Append(values, values'[n + 1])
        /\ BuildCall <=> values'[n + 1].op = "call"
  <2> SUFFICES ASSUME Inserts PROVE /\ values' = Append(values, values'[n + 1])
                                    /\ BuildCall <=> values'[n + 1].op = "call"
    OBVIOUS
  <2>1. \A w : values' = Append(values, w) => values'[n + 1] = w
    BY <1>3, Appended
  <2>2. CASE BeginElse \/ BeginCondition
    <3>1. ~ BuildCall
      BY <2>2 DEF BeginElse, BeginCondition, BuildCall, InCall, At
    <3>2. PICK r : values' = Append(values, ReturnOf(r))
      BY <2>2 DEF BeginElse, BeginCondition, WithReturn
    <3>3. values'[n + 1] = ReturnOf(r) /\ ReturnOf(r).op # "call"
      BY <2>1, <3>2 DEF ReturnOf, Instruction, Value
    <3> QED BY <3>1, <3>2, <3>3
  <2>3. CASE ValueSteps
    <3>1. values' = Append(values, Built) /\ Ready
      BY <2>3, ValuesBuild DEF Builds
    <3>2. BuildCall <=> TopNode.kind = "call"
      BY <2>3 DEF ValueSteps, Number, BinaryOperation, BuildCall, BuildBranch, InCall, At
    <3>3. TopNode.kind = "call" <=> Built.op = "call"
      BY <3>1 DEF Ready, Built, Constant, Operation, CallOf, Branch, Instruction, Value, Arithmetic
    <3> QED BY <2>1, <3>1, <3>2, <3>3
  <2> QED BY <2>2, <2>3 DEF Inserts
<1>7. BuildCall => Inserts
  <2> SUFFICES ASSUME BuildCall PROVE Inserts
    OBVIOUS
  <2>1. TopNode.kind = "call"
    BY DEF BuildCall, InCall, At
  <2>2. ~ Built.constant
    BY <2>1 DEF Built, CallOf, Instruction, Value
  <2> QED BY <2>2 DEF Inserts, ValueSteps
<1>8. Extended(values, values') /\ \A v \in 1 .. n : Terms'[v] = Terms[v]
  BY <1>2, <1>3, Step, TermsStay
<1>9. CallsAmong(values', Terms', block) = CallsAmong(values, Terms, block)
  <2>1. PICK S : S = 1 .. n
    OBVIOUS
  <2>2. block \in Seq(S) /\ \A v \in S : values'[v] = values[v] /\ Terms'[v] = Terms[v]
    BY <1>3, <1>5, <1>8, <2>1 DEF Extended
  <2> QED BY <2>2, CallsAmongSame
<1>10. CallsOf(c, b) = CallsAmong(values, Terms, block)
  BY <1>4, CallsOfAre
<1>11. CallsOf(c, b)' = CallsAmong(values', Terms', cs[b])
  BY CallsOfAre
<1>12. CASE b = insertion[2] /\ Inserts
  <2>1. cs[b] = Append(block, n + 1)
    BY <1>1, <1>3, <1>4, <1>12
  <2>2. CallsOf(c, b)' = CallsAmong(values', Terms', block) \o CallAmong(values', Terms', n + 1)
    <3>1. n + 1 \in Nat
      OBVIOUS
    <3> HIDE DEF cs
    <3> QED BY <1>5, <1>11, <2>1, <3>1, CallsLonger
  <2>3. CASE BuildCall
    BY <1>3, <1>6, <1>9, <1>10, <1>12, <2>2, <2>3 DEF CallAmong
  <2>4. CASE ~ BuildCall
    <3>1. CallAmong(values', Terms', n + 1) = <<>>
      BY <1>6, <1>12, <2>4 DEF CallAmong
    <3>2. IsSeq(CallsAmong(values, Terms, block))
      BY <1>5, CallsAmongIsSeq
    <3>3. CallsAmong(values, Terms, block) \o <<>> = CallsAmong(values, Terms, block)
      BY <3>2, SeqConcat
    <3> QED BY <1>9, <1>10, <2>2, <2>4, <3>1, <3>3
  <2> QED BY <2>3, <2>4
<1>13. CASE ~ (b = insertion[2] /\ Inserts)
  <2>1. cs[b] = block
    BY <1>1, <1>4, <1>13
  <2> HIDE DEF cs
  <2> QED BY <1>7, <1>9, <1>10, <1>11, <1>13, <2>1
<1> QED BY <1>12, <1>13

\* A block for a branch is the last, and nothing is in it.
LEMMA NewBlock ==
  ASSUME Shape, Shape', BodyStep, BeginIf \/ BeginElse, NEW c, c = currentFunction,
         NEW k, k = Len(functions[c].blocks) + 1
  PROVE  Len(functions'[c].blocks) = k /\ CallsOf(c, k)' = <<>>
<1> DEFINE n == Len(values)
           fs == IF BeginIf THEN functions ELSE InsertInto(functions, insertion, n + 1)
<1>1. c \in 1 .. Len(functions) /\ Len(functions'[c].blocks) = Len(functions[c].blocks) + 1
  BY BodyBlocks
<1>2. IsBlock(functions, insertion) /\ functions \in Seq(FunctionType(n)) /\ n \in Nat
  BY ValuesAreCounted DEF Shape
<1>3. n + 1 \in Nat /\ n <= n + 1 /\ n + 1 \in 1 .. n + 1
  BY <1>2
<1>4. functions \in Seq(FunctionType(n + 1))
  BY <1>2, <1>3, MoreValues
<1>5. fs \in Seq(FunctionType(n + 1)) /\ Len(fs) = Len(functions)
      /\ Len(fs[c].blocks) = Len(functions[c].blocks)
  BY <1>1, <1>2, <1>3, <1>4, Inserted
<1>6. functions' = AppendBlock(fs, c)
  BY DEF BeginIf, BeginElse, GenerateInto
<1> HIDE DEF fs
<1>7. functions'[c].blocks[Len(functions[c].blocks) + 1] = <<>>
  <2> DEFINE gs == AppendBlock(fs, c)
  <2>1. gs[c].blocks[Len(fs[c].blocks) + 1] = <<>>
    BY <1>1, <1>3, <1>5, Blocked, SMTT(30)
  <2> HIDE DEF gs
  <2> QED BY <1>5, <1>6, <2>1 DEF gs
<1>8. CallsOf(c, k)' = <<>>
  BY <1>7, CallsOfAre, CallsNone
<1> QED BY <1>1, <1>8

-----------------------------------------------------------------------------
(* The calls that are due *)

\* Those that the j-th call in progress has made, by its children.
DueOf(s, j) ==
  IF nodes[s[j].node].kind = "cond"
    THEN IF j = Len(s) /\ s[j].got # <<>> THEN CallsBelow(KidOf(s[j], Len(s[j].got))) ELSE <<>>
    ELSE FlattenSeq([i \in 1 .. Len(s[j].got) |-> CallsBelow(KidOf(s[j], i))])

DueUpTo(s, n) == FlattenSeq([j \in 1 .. n |-> DueOf(s, j)])

Due(s) == DueUpTo(s, Len(s))

\* What a call in progress has got is for a child of its node.
KidsIn(s) ==
  \A j \in 1 .. Len(s) : \A i \in DOMAIN s[j].got :
    Unspent(s, j, i) => KidOf(s[j], i) \in DOMAIN nodes

LEMMA DueIsSeq ==
  ASSUME Shape, KidsIn(stack), NEW j \in 1 .. Len(stack)
  PROVE  IsSeq(DueOf(stack, j))
<1>1. PICK n \in Nat : n = Len(stack[j].got) /\ DOMAIN stack[j].got = 1 .. n
  BY FrameFacts
<1>2. stack[j].got \in Seq(1 .. Len(values)) /\ Generatable(program)
  BY FrameFacts DEF Shape
<1>3. CASE nodes[stack[j].node].kind = "cond"
  <2>1. CASE j = Len(stack) /\ stack[j].got # <<>>
    <3>1. n \in DOMAIN stack[j].got
      BY <1>1, <1>2, <2>1
    <3>2. KidOf(stack[j], n) \in DOMAIN nodes
      BY <1>1, <2>1, <3>1 DEF KidsIn, Unspent
    <3>3. IsSeq(CallsBelow(KidOf(stack[j], n)))
      BY <1>2, <3>2, CallsAreSeq
    <3> QED BY <1>1, <1>3, <2>1, <3>3 DEF DueOf
  <2>2. CASE ~ (j = Len(stack) /\ stack[j].got # <<>>)
    BY <1>3, <2>2, SeqLiterals DEF DueOf
  <2> QED BY <2>1, <2>2
<1>4. CASE nodes[stack[j].node].kind # "cond"
  <2> DEFINE f == [i \in 1 .. n |-> CallsBelow(KidOf(stack[j], i))]
  <2>1. f = [i \in 1 .. n |-> f[i]] /\ DueOf(stack, j) = FlattenSeq(f)
    BY <1>1, <1>4 DEF DueOf
  <2>2. \A i \in 1 .. n : IsSeq(f[i])
    <3>1. \A i \in 1 .. n : KidOf(stack[j], i) \in DOMAIN nodes
      BY <1>1, <1>4 DEF KidsIn, Unspent
    <3> QED BY <1>2, <3>1, CallsAreSeq
  <2> HIDE DEF f
  <2>3. IsSeq(f) /\ DOMAIN f = 1 .. n
    BY <2>1, IsSeqOf
  <2> QED BY <2>1, <2>2, <2>3, FlattenIsSeq DEF IsSeqs
<1> QED BY <1>3, <1>4

LEMMA DueMore ==
  ASSUME NEW s, NEW n \in Nat, IsSeq(DueOf(s, n + 1))
  PROVE  DueUpTo(s, n + 1) = DueUpTo(s, n) \o DueOf(s, n + 1)
<1> DEFINE f == [j \in 1 .. n |-> DueOf(s, j)]
           g == [j \in 1 .. n + 1 |-> DueOf(s, j)]
<1>1. f = [j \in 1 .. n |-> f[j]] /\ g = [j \in 1 .. n + 1 |-> g[j]]
  OBVIOUS
<1>2. \A j \in 1 .. n : j \in 1 .. n + 1 /\ g[j] = f[j]
  OBVIOUS
<1>3. g[n + 1] = DueOf(s, n + 1)
  OBVIOUS
<1>4. DueUpTo(s, n) = FlattenSeq(f) /\ DueUpTo(s, n + 1) = FlattenSeq(g)
  BY DEF DueUpTo
<1> HIDE DEF f, g
<1>5. FlattenSeq(g) = FlattenSeq(f) \o g[n + 1]
  BY <1>1, <1>2, <1>3, FlattenMore
<1> QED BY <1>3, <1>4, <1>5

LEMMA DueUpToIsSeq ==
  ASSUME NEW s, NEW n \in Nat, \A j \in 1 .. n : IsSeq(DueOf(s, j))
  PROVE  IsSeq(DueUpTo(s, n))
<1> DEFINE f == [j \in 1 .. n |-> DueOf(s, j)]
<1>1. f = [j \in 1 .. n |-> f[j]] /\ DueUpTo(s, n) = FlattenSeq(f) /\ \A j \in 1 .. n : IsSeq(f[j])
  BY DEF DueUpTo
<1> HIDE DEF f
<1>2. IsSeq(f) /\ DOMAIN f = 1 .. n
  BY <1>1, IsSeqOf
<1> QED BY <1>1, <1>2, FlattenIsSeq DEF IsSeqs

LEMMA DueSame ==
  ASSUME NEW s, NEW t, NEW n, \A j \in 1 .. n : DueOf(t, j) = DueOf(s, j)
  PROVE  DueUpTo(t, n) = DueUpTo(s, n)
<1>1. [j \in 1 .. n |-> DueOf(t, j)] = [j \in 1 .. n |-> DueOf(s, j)]
  OBVIOUS
<1> QED BY <1>1 DEF DueUpTo

LEMMA DueFrame ==
  ASSUME NEW s, NEW t, NEW j, t[j].node = s[j].node, t[j].got = s[j].got,
         nodes[s[j].node].kind = "cond" => (j = Len(s) <=> j = Len(t))
  PROVE  DueOf(t, j) = DueOf(s, j)
<1>1. \A i : KidOf(t[j], i) = KidOf(s[j], i)
  BY KidsStay
<1>2. [i \in 1 .. Len(t[j].got) |-> CallsBelow(KidOf(t[j], i))] =
      [i \in 1 .. Len(s[j].got) |-> CallsBelow(KidOf(s[j], i))]
  BY <1>1
<1>3. CASE nodes[s[j].node].kind = "cond"
  BY <1>1, <1>3 DEF DueOf
<1>4. CASE nodes[s[j].node].kind # "cond"
  BY <1>2, <1>4 DEF DueOf
<1> QED BY <1>3, <1>4

\* A call that has got nothing has made none.
LEMMA DueNothing ==
  ASSUME NEW s, NEW j, s[j].got = <<>>
  PROVE  DueOf(s, j) = <<>>
<1>1. [i \in 1 .. Len(s[j].got) |-> CallsBelow(KidOf(s[j], i))] = <<>>
  <2>1. 1 .. Len(s[j].got) = {}
    OBVIOUS
  <2> QED BY <2>1
<1> QED BY <1>1, FlattenEmpty DEF DueOf

LEMMA DueMarks ==
  ASSUME Shape, stack # <<>>, Marks
  PROVE  Due(stack') = Due(stack)
<1>1. PICK m \in Nat : m = Len(stack) /\ m > 0
  BY TopIs
<1>2. /\ Len(stack') = m /\ stack'[m].node = stack[m].node /\ stack'[m].got = stack[m].got
      /\ \A j \in 1 .. m - 1 : stack'[j] = stack[j]
  BY <1>1 DEF Marks, Below
<1>3. \A j \in 1 .. m : DueOf(stack', j) = DueOf(stack, j)
  <2> SUFFICES ASSUME NEW j \in 1 .. m PROVE DueOf(stack', j) = DueOf(stack, j)
    OBVIOUS
  <2>1. j \in 1 .. m - 1 \/ j = m
    BY <1>1
  <2>2. stack'[j].node = stack[j].node /\ stack'[j].got = stack[j].got
    BY <1>2, <2>1
  <2> QED BY <1>1, <1>2, <2>2, DueFrame
<1> QED BY <1>1, <1>2, <1>3, DueSame DEF Due

\* A child that is begun has made none, and takes those of a branch that is
\* done off the list.
LEMMA DuePushes ==
  ASSUME Shape, stack # <<>>, KidsIn(stack), Pushes
  PROVE  Due(stack') =
           IF TopNode.kind = "cond" THEN DueUpTo(stack, Len(stack) - 1) ELSE Due(stack)
<1>1. PICK m \in Nat : m = Len(stack) /\ m > 0 /\ TopNode = nodes[stack[m].node]
  BY TopIs
<1>2. PICK k \in Nat : k = m - 1
  BY <1>1
<1>3. /\ Len(stack') = m + 1 /\ stack'[m].node = stack[m].node /\ stack'[m].got = stack[m].got
      /\ stack'[m + 1].got = <<>> /\ \A j \in 1 .. k : stack'[j] = stack[j]
  BY <1>1, <1>2 DEF Pushes, Below
<1>4. \A j \in 1 .. k : DueOf(stack', j) = DueOf(stack, j)
  <2> SUFFICES ASSUME NEW j \in 1 .. k PROVE DueOf(stack', j) = DueOf(stack, j)
    OBVIOUS
  <2>1. j # Len(stack) /\ j # Len(stack')
    BY <1>1, <1>2, <1>3
  <2> QED BY <1>3, <2>1, DueFrame
<1>5. DueUpTo(stack', k) = DueUpTo(stack, k)
  BY <1>4, DueSame
<1>6. DueOf(stack', m + 1) = <<>>
  BY <1>3, DueNothing
<1>7. \A j \in 1 .. k : IsSeq(DueOf(stack, j)) /\ IsSeq(DueOf(stack, m))
  <2>1. m \in 1 .. Len(stack) /\ \A j \in 1 .. k : j \in 1 .. Len(stack)
    BY <1>1, <1>2
  <2> QED BY <2>1, DueIsSeq
<1>8. IsSeq(DueUpTo(stack, k)) /\ IsSeq(DueOf(stack, m))
  <2>1. m \in 1 .. Len(stack)
    BY <1>1
  <2> QED BY <1>7, <2>1, DueUpToIsSeq, DueIsSeq
<1>9. IsSeq(DueOf(stack', m)) /\
      DueOf(stack', m) = IF TopNode.kind = "cond" THEN <<>> ELSE DueOf(stack, m)
  <2>1. CASE TopNode.kind = "cond"
    <3>1. m # Len(stack') /\ nodes[stack'[m].node].kind = "cond"
      BY <1>1, <1>3, <2>1
    <3> QED BY <2>1, <3>1, SeqLiterals DEF DueOf
  <2>2. CASE TopNode.kind # "cond"
    BY <1>1, <1>3, <1>8, <2>2, DueFrame
  <2> QED BY <2>1, <2>2
<1>10. DueUpTo(stack', m) = DueUpTo(stack, k) \o DueOf(stack', m)
  <2>1. m = k + 1
    BY <1>2
  <2>2. DueUpTo(stack', k + 1) = DueUpTo(stack', k) \o DueOf(stack', k + 1)
    BY <1>9, <2>1, DueMore
  <2> QED BY <1>5, <2>1, <2>2
<1>11. DueUpTo(stack', m + 1) = DueUpTo(stack', m)
  <2>1. DueUpTo(stack', m + 1) = DueUpTo(stack', m) \o DueOf(stack', m + 1)
    BY <1>6, SeqLiterals, DueMore
  <2>2. IsSeq(DueUpTo(stack', m))
    BY <1>8, <1>9, <1>10, SeqConcat
  <2> QED BY <1>6, <2>1, <2>2, SeqConcat
<1>12. DueUpTo(stack, m) = DueUpTo(stack, k) \o DueOf(stack, m)
  <2>1. m = k + 1
    BY <1>2
  <2> QED BY <1>8, <2>1, DueMore
<1>13. DueUpTo(stack, k) \o <<>> = DueUpTo(stack, k)
  BY <1>8, SeqConcat
<1> QED BY <1>1, <1>2, <1>3, <1>9, <1>10, <1>11, <1>12, <1>13 DEF Due

\* An expression that is done has made the calls below its node.
LEMMA DuePops ==
  ASSUME Shape, stack # <<>>, Walk, KidsIn(stack), NEW v \in Nat, Pops(v),
         TopNode.kind \notin {"cond", "motif"}, Len(Top.got) = Len(KidsAt(Top.node))
  PROVE  Due(stack') =
           Due(stack) \o IF TopNode.kind = "call" THEN <<MeaningOf(Top.node)>> ELSE <<>>
<1> DEFINE own == IF TopNode.kind = "call" THEN <<MeaningOf(Top.node)>> ELSE <<>>
<1>1. PICK m \in Nat : /\ m = Len(stack) /\ m > 0
                       /\ TopNode = nodes[stack[m].node] /\ Top = stack[m]
  BY TopIs
<1>2. PICK k \in Nat : k = m - 1 /\ k > 0
  BY <1>1 DEF Pops
<1>3. PICK h \in Nat : h = k - 1
  BY <1>2
<1>4. /\ Len(stack') = k /\ stack'[k].node = stack[k].node
      /\ stack'[k].got = Append(stack[k].got, v) /\ \A j \in 1 .. h : stack'[j] = stack[j]
  BY <1>1, <1>2, <1>3 DEF Pops, Below
<1>5. PICK g \in Nat : g = Len(stack[k].got) /\ stack[k].got \in Seq(Nat)
  <2>1. k \in 1 .. Len(stack)
    BY <1>1, <1>2
  <2> QED BY <2>1, FrameFacts, ValuesAreCounted, OperandFacts
<1>6. PICK n : n = stack[m].node
  OBVIOUS
<1>7. n = KidOf(stack[k], g + 1)
  <2>1. k \in 1 .. Len(stack) - 1 /\ k + 1 = m
    BY <1>1, <1>2
  <2> QED BY <1>5, <1>6, <2>1 DEF Walk
<1>8. n \in DOMAIN nodes /\ Generatable(program) /\ n = Top.node
  <2>1. m \in 1 .. Len(stack)
    BY <1>1
  <2> QED BY <1>1, <1>6, <2>1, FrameFacts DEF Shape
<1>9. IsSeq(DueOf(stack, k)) /\ IsSeq(DueOf(stack, m)) /\ \A j \in 1 .. h : IsSeq(DueOf(stack, j))
  <2>1. k \in 1 .. Len(stack) /\ m \in 1 .. Len(stack) /\ \A j \in 1 .. h : j \in 1 .. Len(stack)
    BY <1>1, <1>2, <1>3
  <2> QED BY <2>1, DueIsSeq
<1>10. IsSeq(CallsBelow(n))
  BY <1>8, CallsAreSeq
<1>11. CallsBelow(n) = DueOf(stack, m) \o own
  <2>1. PICK c \in Nat : c = Len(KidsAt(n)) /\ DOMAIN KidsAt(n) = 1 .. c
    BY <1>8, NodeFacts DEF KidsAt
  <2>2. Len(stack[m].got) = c
    BY <1>1, <1>8, <2>1
  <2>3. \A i : KidOf(stack[m], i) = KidsAt(n)[i]
    BY <1>1, <1>6 DEF KidOf, KidAt, KidsAt
  <2>4. [i \in 1 .. c |-> CallsBelow(KidOf(stack[m], i))] =
        [i \in 1 .. c |-> CallsBelow(KidsAt(n)[i])]
    BY <2>3
  <2>5. DueOf(stack, m) = FlattenSeq([i \in 1 .. c |-> CallsBelow(KidOf(stack[m], i))])
    BY <1>1, <2>2 DEF DueOf
  <2>6. CallsBelow(n) = FlattenSeq([i \in 1 .. c |-> CallsBelow(KidsAt(n)[i])]) \o own
    BY <1>1, <1>8, <2>1, CallsSolve
  <2> HIDE DEF own
  <2> QED BY <2>4, <2>5, <2>6
<1>12. IsSeq(own)
  BY SeqLiterals
<1> HIDE DEF own
<1>13. DueOf(stack', k) = DueOf(stack, k) \o CallsBelow(n) /\ IsSeq(DueOf(stack', k))
  <2>1. /\ Len(stack'[k].got) = g + 1 /\ stack'[k].got # <<>>
        /\ \A i : KidOf(stack'[k], i) = KidOf(stack[k], i)
    <3>1. Len(stack'[k].got) = g + 1
      BY <1>4, <1>5, AppendProperties
    <3>2. stack'[k].got # <<>>
      BY <1>4, <1>5, AppendProperties
    <3> QED BY <1>4, <3>1, <3>2, KidsStay
  <2>2. CASE nodes[stack[k].node].kind = "cond"
    <3>1. k # Len(stack) /\ k = Len(stack')
      BY <1>1, <1>2, <1>4
    <3>2. DueOf(stack, k) = <<>>
      BY <2>2, <3>1 DEF DueOf
    <3>3. DueOf(stack', k) = CallsBelow(n)
      BY <1>4, <1>7, <2>1, <2>2, <3>1 DEF DueOf
    <3> QED BY <1>10, <3>2, <3>3, SeqConcat
  <2>3. CASE nodes[stack[k].node].kind # "cond"
    <3> DEFINE f == [i \in 1 .. g |-> CallsBelow(KidOf(stack[k], i))]
               e == [i \in 1 .. g + 1 |-> CallsBelow(KidOf(stack'[k], i))]
    <3>1. f = [i \in 1 .. g |-> f[i]] /\ e = [i \in 1 .. g + 1 |-> e[i]]
      OBVIOUS
    <3>2. \A i \in 1 .. g : e[i] = f[i]
      <4>1. \A i \in 1 .. g : i \in 1 .. g + 1
        OBVIOUS
      <4> QED BY <2>1, <4>1
    <3>3. e[g + 1] = CallsBelow(n)
      <4>1. g + 1 \in 1 .. g + 1
        OBVIOUS
      <4> QED BY <1>7, <2>1, <4>1
    <3>4. DueOf(stack, k) = FlattenSeq(f) /\ DueOf(stack', k) = FlattenSeq(e)
      BY <1>4, <1>5, <2>1, <2>3 DEF DueOf
    <3> HIDE DEF e, f
    <3>5. FlattenSeq(e) = FlattenSeq(f) \o e[g + 1]
      BY <1>10, <3>1, <3>2, <3>3, FlattenMore
    <3> QED BY <1>9, <1>10, <3>3, <3>4, <3>5, SeqConcat
  <2> QED BY <2>2, <2>3
<1>14. DueUpTo(stack', h) = DueUpTo(stack, h)
  <2>1. \A j \in 1 .. h : DueOf(stack', j) = DueOf(stack, j)
    <3> SUFFICES ASSUME NEW j \in 1 .. h PROVE DueOf(stack', j) = DueOf(stack, j)
      OBVIOUS
    <3>1. j # Len(stack) /\ j # Len(stack')
      BY <1>1, <1>2, <1>3, <1>4
    <3> QED BY <1>4, <3>1, DueFrame
  <2> QED BY <2>1, DueSame
<1>15. IsSeq(DueUpTo(stack, h))
  BY <1>9, DueUpToIsSeq
<1>16. k = h + 1 /\ m = k + 1
  BY <1>2, <1>3
<1>17. DueUpTo(stack', k) = DueUpTo(stack, h) \o DueOf(stack', k)
  <2>1. DueUpTo(stack', h + 1) = DueUpTo(stack', h) \o DueOf(stack', h + 1)
    BY <1>13, <1>16, DueMore
  <2> QED BY <1>14, <1>16, <2>1
<1>18. DueUpTo(stack, k) = DueUpTo(stack, h) \o DueOf(stack, k)
  BY <1>9, <1>16, DueMore
<1>19. DueUpTo(stack, m) = DueUpTo(stack, k) \o DueOf(stack, m)
  BY <1>9, <1>16, DueMore
<1>20. DueUpTo(stack, h) \o (DueOf(stack, k) \o (DueOf(stack, m) \o own)) =
       ((DueUpTo(stack, h) \o DueOf(stack, k)) \o DueOf(stack, m)) \o own
  <2>1. PICK a : a = DueUpTo(stack, h)
    OBVIOUS
  <2>2. PICK b : b = DueOf(stack, k)
    OBVIOUS
  <2>3. PICK c : c = DueOf(stack, m)
    OBVIOUS
  <2>4. PICK d : d = own
    OBVIOUS
  <2>5. IsSeq(a) /\ IsSeq(b) /\ IsSeq(c) /\ IsSeq(d)
    BY <1>9, <1>12, <1>15, <2>1, <2>2, <2>3, <2>4
  <2>6. PICK l : l = a \o (b \o (c \o d))
    OBVIOUS
  <2>7. PICK r : r = ((a \o b) \o c) \o d
    OBVIOUS
  <2>8. l = r
    BY <2>5, <2>6, <2>7, SeqRegrouped, SMTT(30)
  <2> QED BY <2>1, <2>2, <2>3, <2>4, <2>6, <2>7, <2>8
<1>21. Due(stack') = Due(stack) \o own
  BY <1>1, <1>4, <1>11, <1>13, <1>17, <1>18, <1>19, <1>20 DEF Due
<1> QED BY <1>21 DEF own

LEMMA DueAtFirst ==
  ASSUME NEW s, s[1].got = <<>>
  PROVE  DueUpTo(s, 1) = <<>> /\ (Len(s) = 1 => Due(s) = <<>>)
<1>1. DueOf(s, 1) = <<>> /\ IsSeq(<<>>)
  BY DueNothing, SeqLiterals
<1>2. 0 \in Nat /\ 0 + 1 = 1
  OBVIOUS
<1>3. DueUpTo(s, 1) = DueUpTo(s, 0) \o <<>>
  BY <1>1, <1>2, DueMore
<1>4. DueUpTo(s, 0) = <<>>
  <2>1. [j \in 1 .. 0 |-> DueOf(s, j)] = <<>>
    OBVIOUS
  <2> QED BY <2>1, FlattenEmpty DEF DueUpTo
<1>5. <<>> \o <<>> = <<>>
  BY <1>1, SeqConcat
<1> QED BY <1>3, <1>4, <1>5 DEF Due

LEMMA DueNext ==
  ASSUME program' = program, next' = next
  PROVE  /\ \A n : CallsBelow(n)' = CallsBelow(n)
         /\ Due(stack)' = Due(stack')
<1>1. nodes' = nodes /\ Tree' = Tree
  BY DEF nodes, Tree
<1>2. Source!CallsIn(program', Tree') = Source!CallsIn(program, Tree)
  BY <1>1
<1>3. \A n : CallsBelow(n)' = CallsBelow(n)
  BY <1>2, Zenon DEF CallsBelow
<1> HIDE DEF nodes, Tree
<1>4. ASSUME NEW j PROVE DueOf(stack, j)' = DueOf(stack', j)
  <2>1. ASSUME NEW i PROVE CallsBelow(KidOf(stack[j], i))' = CallsBelow(KidOf(stack'[j], i))
    <3>1. PICK n : n = KidOf(stack'[j], i)
      OBVIOUS
    <3>2. KidOf(stack[j], i)' = n
      BY <1>1, <3>1 DEF KidOf
    <3>3. CallsBelow(KidOf(stack[j], i))' = CallsBelow(n)'
      BY <3>2 DEF CallsBelow
    <3> QED BY <1>3, <3>1, <3>3
  <2>2. [i \in 1 .. Len(stack'[j].got) |-> CallsBelow(KidOf(stack[j], i))'] =
        [i \in 1 .. Len(stack'[j].got) |-> CallsBelow(KidOf(stack'[j], i))]
    BY <2>1
  <2>3. PICK g : g = Len(stack'[j].got)
    OBVIOUS
  <2>4. CallsBelow(KidOf(stack[j], Len(stack[j].got)))' = CallsBelow(KidOf(stack'[j], Len(stack'[j].got)))
    <3>1. PICK n : n = KidOf(stack'[j], g)
      OBVIOUS
    <3>2. KidOf(stack[j], Len(stack[j].got))' = n
      BY <1>1, <2>3, <3>1 DEF KidOf
    <3>3. CallsBelow(KidOf(stack[j], Len(stack[j].got)))' = CallsBelow(n)'
      BY <3>2 DEF CallsBelow
    <3> QED BY <1>3, <2>3, <3>1, <3>3
  <2>5. CASE nodes[stack'[j].node].kind = "cond"
    BY <1>1, <2>4, <2>5 DEF DueOf
  <2>6. CASE nodes[stack'[j].node].kind # "cond"
    BY <1>1, <2>2, <2>6 DEF DueOf
  <2> QED BY <2>5, <2>6
<1>5. [j \in 1 .. Len(stack') |-> DueOf(stack, j)'] = [j \in 1 .. Len(stack') |-> DueOf(stack', j)]
  BY <1>4
<1>6. Due(stack)' = Due(stack')
  BY <1>5 DEF Due, DueUpTo
<1> QED BY <1>3, <1>6

LEMMA StackKids ==
  ASSUME Shape, Rooted, Len(stack) >= 2, PairsIn(stack, Matched)
  PROVE  KidsIn(stack)
<1> SUFFICES ASSUME NEW j \in 1 .. Len(stack), NEW i \in DOMAIN stack[j].got, Unspent(stack, j, i)
             PROVE  KidOf(stack[j], i) \in DOMAIN nodes
  BY DEF KidsIn
<1>1. Len(stack) \in Nat
  BY FrameFacts
<1>2. j # 1
  <2>1. stack[1].got = <<>>
    BY DEF Rooted
  <2> QED BY <2>1
<1>3. j \in 2 .. Len(stack)
  BY <1>1, <1>2
<1>4. <<stack[j].got[i], KidOf(stack[j], i)>> \in Matched
  BY <1>3 DEF PairsIn
<1> QED BY <1>4 DEF Matched

\* A leaf has no children, and an operation has two.
LEMMA TopKids ==
  ASSUME Shape, stack # <<>>
  PROVE  /\ TopNode.kind \in {"number", "variable"} => Len(KidsAt(Top.node)) = 0
         /\ TopNode.kind = "binary" => Len(KidsAt(Top.node)) = 2
         /\ KidsAt(Top.node) = TopNode.kids
<1>1. PICK m \in Nat : m = Len(stack) /\ m \in 1 .. Len(stack)
  BY TopIs
<1>2. stack[m].node \in DOMAIN nodes /\ Top = stack[m] /\ TopNode = nodes[stack[m].node]
  BY <1>1, FrameFacts, TopIs
<1>3. PICK n \in DOMAIN nodes : n = Top.node /\ TopNode = nodes[n]
  BY <1>2
<1>4. IsComplete(nodes, nodes[n]) /\ nodes[n].kids \in Seq(Nat)
  <2>1. Generatable(program)
    BY DEF Shape
  <2>2. CompleteTrees(program.nodes, program.trees)
    BY <2>1 DEF Generatable
  <2>3. IsComplete(nodes, nodes[n])
    BY <2>2 DEF CompleteTrees, nodes
  <2>4. nodes[n].kids \in Seq(Nat)
    BY <2>1, NodeFacts
  <2> QED BY <2>3, <2>4
<1>5. Len(nodes[n].kids) \in Nat /\ DOMAIN nodes[n].kids = 1 .. Len(nodes[n].kids)
  BY <1>4
<1>6. nodes[n].kind \in {"number", "variable"} => Len(nodes[n].kids) = 0
  <2> SUFFICES ASSUME nodes[n].kind \in {"number", "variable"}, Len(nodes[n].kids) # 0 PROVE FALSE
    OBVIOUS
  <2>1. 1 \in DOMAIN nodes[n].kids
    BY <1>5
  <2>2. KidsOf(nodes[n].kind) = {}
    BY DEF KidsOf
  <2> QED BY <1>4, <2>1, <2>2 DEF IsComplete
<1> QED BY <1>3, <1>4, <1>6 DEF KidsAt, IsComplete

\* While the innermost call is not of a conditional, the calls that are made
\* are those that are due.
LEMMA ExpressionDue ==
  ASSUME Shape, Shape', CallsInv, SymbolsInv, Rooted, Callees, BodyStep, ~ Idle,
         PairsIn(stack, Matched), TopNode.kind # "cond"
  PROVE  Due(stack') = IF BuildCall THEN Due(stack) \o <<Terms'[Len(values) + 1]>> ELSE Due(stack)
<1>1. stack # <<>> /\ Len(stack) >= 2 /\ TopNode.kind \in ExpressionKinds /\ Walk
  BY BodyFacts DEF SymbolsInv
<1>2. KidsIn(stack)
  BY <1>1, StackKids
<1>3. IsSeq(Due(stack)) /\ Due(stack) \o <<>> = Due(stack)
  <2>1. Len(stack) \in Nat /\ \A j \in 1 .. Len(stack) : IsSeq(DueOf(stack, j))
    BY <1>1, <1>2, TopIs, DueIsSeq
  <2>2. IsSeq(Due(stack))
    BY <2>1, DueUpToIsSeq DEF Due
  <2> QED BY <2>2, SeqConcat
<1>4. TopNode.kind \notin {"cond", "motif"}
  BY <1>1 DEF ExpressionKinds
<1>5. CASE VisitSteps /\ Pushes
  <2>1. ~ BuildCall
    BY <1>4, <1>5 DEF VisitSteps, Operand, Argument, BeginIf, BeginElse, BeginCondition, BuildCall,
                      InCall, At
  <2>2. Due(stack') = Due(stack)
    BY <1>1, <1>2, <1>4, <1>5, DuePushes
  <2> QED BY <2>1, <2>2
<1>6. CASE BeginCall /\ Marks
  <2>1. ~ BuildCall
    BY <1>6 DEF BeginCall, BuildCall, InCall
  <2> QED BY <1>1, <1>6, <2>1, DueMarks
<1>7. CASE ValueSteps /\ Ready /\ Builds(Built) /\ Pops(Len(values) + 1)
  <2>1. Len(Top.got) = Len(KidsAt(Top.node))
    BY <1>1, <1>4, <1>7, TopKids DEF Ready
  <2>2. BuildCall <=> TopNode.kind = "call"
    BY <1>7 DEF ValueSteps, Number, BinaryOperation, BuildCall, BuildBranch, InCall, At
  <2>3. PICK v \in Nat : v = Len(values) + 1
    BY ValuesAreCounted
  <2>4. Terms'[v] = MeaningOf(Top.node)
    <3>1. ArgsMatch
      BY <1>1, <1>4, ArgsAreMatched
    <3> QED BY <1>4, <1>7, <2>3, <3>1, BuiltTerm
  <2>5. Pops(v)
    BY <1>7, <2>3
  <2>6. Due(stack') = Due(stack) \o IF TopNode.kind = "call" THEN <<MeaningOf(Top.node)>> ELSE <<>>
    BY <1>1, <1>2, <1>4, <2>1, <2>5, DuePops
  <2> QED BY <1>3, <2>2, <2>3, <2>4, <2>6
<1>8. CASE /\ Variable /\ TopNode.kind = "variable" /\ Top.got = <<>>
           /\ Pops(namedValues[TopNode.name]) /\ namedValues[TopNode.name] \in 1 .. Len(values)
  <2>1. ~ BuildCall
    BY <1>8 DEF BuildCall, InCall, At
  <2>2. PICK v \in Nat : v = namedValues[TopNode.name] /\ Pops(v)
    BY <1>8, ValuesAreCounted
  <2>3. Len(Top.got) = Len(KidsAt(Top.node))
    BY <1>1, <1>8, TopKids
  <2>4. Due(stack') = Due(stack) \o IF TopNode.kind = "call" THEN <<MeaningOf(Top.node)>> ELSE <<>>
    BY <1>1, <1>2, <1>4, <2>2, <2>3, DuePops
  <2> QED BY <1>3, <1>8, <2>1, <2>4
<1> QED BY <1>5, <1>6, <1>7, <1>8, StepMoves

-----------------------------------------------------------------------------
(* Where the calls of the body are *)

CallsHere(b) == CallsOf(currentFunction, b)

PlainCalls ==
  /\ CallsHere(currentBB[2]) = Due(stack)
  /\ Len(functions[currentFunction].blocks) = currentBB[2]

\* While a conditional is in progress: those that are due are where the
\* builder stands, and those of a branch that is done in its block.
CondCallsOpen ==
  LET of == stack[2].of IN
  /\ CallsHere(insertion[2]) = Due(stack)
  /\ Turn < 3 => CallsHere(currentBB[2]) = <<>>
  /\ Turn >= 2 => CallsHere(of[1]) = CallsBelow(CondKid(2))
  /\ Turn = 3 => CallsHere(of[2]) = CallsBelow(CondKid(3))
  /\ Len(of) >= 1 => currentBB[2] < of[1]
  /\ Len(of) = 2 => of[1] < of[2]

CondCallsDone ==
  LET branch == values[stack[1].got[1]] IN
  /\ CallsHere(currentBB[2]) = CallsBelow(CondKid(1))
  /\ CallsHere(branch.of[1]) = CallsBelow(CondKid(2))
  /\ CallsHere(branch.of[2]) = CallsBelow(CondKid(3))

Ordered ==
  IF IsCond THEN IF Len(stack) >= 2 THEN CondCallsOpen ELSE CondCallsDone ELSE PlainCalls

\* A motif that may still be verified has made the calls that are due.
OrderInv == Entered(stack) /\ Tracked => Doomed \/ Ordered

LEMMA HereNext ==
  ASSUME NEW c, currentFunction' = c, NEW b
  PROVE  CallsHere(b)' = CallsOf(c, b)'
<1>1. CallsHere(b)' = CallsAmong(values', Terms', functions'[c].blocks[b])
  BY DEF CallsHere, CallsOf, CallsAmong, CallAmong
<1> QED BY <1>1, CallsOfAre

LEMMA HereStay ==
  ASSUME Shape, Shape', CallsInv, BodyStep, ~ Idle,
         NEW b \in 1 .. Len(functions[currentFunction].blocks)
  PROVE  CallsHere(b)' =
           IF b = insertion[2] /\ BuildCall
             THEN CallsHere(b) \o <<Terms'[Len(values) + 1]>> ELSE CallsHere(b)
<1>1. PICK c : c = currentFunction
  OBVIOUS
<1>2. currentFunction' = c
  BY <1>1, BodyFacts
<1>3. CallsOf(c, b)' =
        IF b = insertion[2] /\ BuildCall
          THEN CallsOf(c, b) \o <<Terms'[Len(values) + 1]>> ELSE CallsOf(c, b)
  BY <1>1, BodyCalls
<1>4. CallsHere(b) = CallsOf(c, b) /\ CallsHere(b)' = CallsOf(c, b)'
  BY <1>1, <1>2, HereNext DEF CallsHere
<1> QED BY <1>3, <1>4

\* The calls where the builder stands stay those that are due.
LEMMA HereIsDue ==
  ASSUME Shape, Shape', CallsInv, SymbolsInv, Rooted, Callees, BodyStep, ~ Idle,
         PairsIn(stack, Matched), TopNode.kind # "cond",
         NEW b, b = insertion[2], CallsHere(b) = Due(stack)
  PROVE  CallsHere(b)' = Due(stack)'
<1>1. b \in 1 .. Len(functions[currentFunction].blocks)
  BY BodyBlocks
<1>2. program' = program /\ next' = next
  BY BodyFacts
<1>3. Due(stack)' = Due(stack')
  BY <1>2, DueNext
<1>4. Due(stack') = IF BuildCall THEN Due(stack) \o <<Terms'[Len(values) + 1]>> ELSE Due(stack)
  BY ExpressionDue
<1>5. CallsHere(b)' =
        IF BuildCall THEN CallsHere(b) \o <<Terms'[Len(values) + 1]>> ELSE CallsHere(b)
  BY <1>1, HereStay
<1> QED BY <1>3, <1>4, <1>5

LEMMA PlainCallsStay ==
  ASSUME Shape, Shape', CallsInv, SymbolsInv, Rooted, Callees, BodyStep, ~ Idle, Tracked,
         ~ Doomed', PairsIn(stack, Matched), ~ IsCond, PlainLayout, PlainCalls
  PROVE  PlainCalls'
<1>1. /\ stack # <<>> /\ Entered(stack) /\ program' = program /\ next' = next
      /\ currentFunction' = currentFunction /\ currentBB' = currentBB /\ Len(stack) >= 2
  BY BodyFacts
<1>2. PICK m \in Nat : m = Len(stack) /\ m >= 2
  BY <1>1, TopIs
<1>3. ~ Nested
  BY DoomedStays DEF Doomed
<1>4. TopNode.kind # "cond"
  <2>1. TopNode = nodes[stack[m].node]
    BY <1>1, <1>2, TopIs
  <2>2. nodes[stack[2].node].kind # "cond"
    BY <1>1, BodyIs DEF SymbolsInv
  <2>3. m > 2 => nodes[stack[m].node].kind # "cond"
    BY <1>2, <1>3 DEF Nested
  <2>4. m = 2 \/ m > 2
    BY <1>2
  <2> QED BY <2>1, <2>2, <2>3, <2>4
<1>5. PICK b : b = currentBB[2] /\ b = insertion[2]
  BY DEF PlainLayout
<1>6. CallsHere(b)' = Due(stack)'
  BY <1>4, <1>5, HereIsDue DEF PlainCalls
<1>7. Len(functions'[currentFunction].blocks) = Len(functions[currentFunction].blocks)
  <2>1. ~ BeginIf /\ ~ BeginElse
    BY <1>4 DEF BeginIf, BeginElse, At
  <2> QED BY <2>1, BodyBlocks
<1>8. currentBB'[2] = b
  BY <1>1, <1>5
<1> HIDE DEF PlainLayout
<1>9. CallsHere(currentBB[2])' = Due(stack)'
  BY <1>6, <1>8 DEF CallsHere
<1> QED BY <1>1, <1>5, <1>7, <1>9 DEF PlainCalls

LEMMA HomeBlock ==
  ASSUME Shape, Entered(stack)
  PROVE  /\ currentBB[2] \in 1 .. Len(functions[currentFunction].blocks)
         /\ currentBB[1] = currentFunction
         /\ Len(functions[currentFunction].blocks) \in Nat
         /\ currentFunction \in 1 .. Len(functions)
<1>1. IsBlock(functions, currentBB) /\ currentBB[1] = currentFunction
  BY EnteredFacts
<1>2. currentFunction \in 1 .. Len(functions)
  BY <1>1 DEF IsBlock
<1>3. functions[currentFunction].blocks \in Seq(Seq(1 .. Len(values)))
  BY <1>2, FunctionFacts DEF Shape
<1> QED BY <1>1, <1>2, <1>3, LenProperties DEF IsBlock

\* A step within a branch or the condition.
LEMMA CondCallsBelow ==
  ASSUME Shape, Shape', CallsInv, SymbolsInv, Rooted, Callees, BodyStep, ~ Idle,
         ~ Nested, PairsIn(stack, Matched), IsCond, CondOpen, CondCallsOpen,
         NEW m \in Nat, m = Len(stack), m > 2
  PROVE  Len(stack') >= 2 /\ CondCallsOpen'
<1> DEFINE of == stack[2].of
<1>1. /\ stack # <<>> /\ Entered(stack) /\ program' = program /\ next' = next /\ Moves
      /\ currentFunction' = currentFunction /\ currentBB' = currentBB
  BY BodyFacts
<1>2. TopNode.kind # "cond"
  <2>1. TopNode = nodes[stack[m].node]
    BY <1>1, TopIs
  <2>2. m \in 2 .. Len(stack)
    OBVIOUS
  <2> QED BY <2>1, <2>2 DEF Nested
<1>3. insertion' = insertion
  BY <1>2, ConditionalSteps
<1>4. Len(stack') >= 2 /\ Turn' = Turn /\ stack'[2].of = of
  BY <1>1, TurnStays
<1>5. /\ Turn \in 1 .. 3 /\ Len(of) = (IF Turn < 2 THEN Turn ELSE 2)
      /\ insertion = IF Turn = 3 THEN currentBB ELSE <<currentFunction, of[Turn]>>
      /\ \A i \in 1 .. Len(of) : of[i] \in 1 .. Len(functions[currentFunction].blocks)
  <2>1. Turn # 0
    <3>1. Len(stack[2].got) \in Nat
      <4>1. 2 \in 1 .. Len(stack)
        OBVIOUS
      <4> QED BY <4>1, FrameFacts
    <3> QED BY <3>1 DEF Turn
  <2> QED BY <2>1 DEF CondOpen
<1>6. currentBB[2] \in 1 .. Len(functions[currentFunction].blocks)
  BY <1>1, HomeBlock
<1>7. PICK b : b = insertion[2]
  OBVIOUS
<1>8. CallsHere(insertion[2])' = Due(stack)'
  <2>1. CallsHere(b)' = Due(stack)'
    BY <1>2, <1>7, HereIsDue DEF CondCallsOpen
  <2>2. insertion'[2] = b
    BY <1>3, <1>7
  <2> QED BY <2>1, <2>2 DEF CallsHere
<1>9. ASSUME NEW d \in 1 .. Len(functions[currentFunction].blocks), d # b
      PROVE  CallsHere(d)' = CallsHere(d)
  BY <1>7, <1>9, HereStay
<1>10. CondKid(2)' = CondKid(2) /\ CondKid(3)' = CondKid(3)
  BY <1>1, BodyStays
<1>11. \A n : CallsBelow(n)' = CallsBelow(n)
  BY <1>1, DueNext
<1>12. CallsBelow(CondKid(2))' = CallsBelow(CondKid(2)) /\ CallsBelow(CondKid(3))' = CallsBelow(CondKid(3))
  <2>1. PICK k2, k3 : k2 = CondKid(2) /\ k3 = CondKid(3)
    OBVIOUS
  <2>2. CallsBelow(k2)' = CallsBelow(k2) /\ CallsBelow(k3)' = CallsBelow(k3)
    BY <1>11
  <2> QED BY <1>10, <2>1, <2>2 DEF CallsBelow
<1> HIDE DEF Turn, CondKid, IsCond, of
<1>13. /\ Len(of) >= 1 => currentBB[2] < of[1]
       /\ Len(of) = 2 => of[1] < of[2]
       /\ Turn < 3 => CallsHere(currentBB[2]) = <<>>
       /\ Turn >= 2 => CallsHere(of[1]) = CallsBelow(CondKid(2))
       /\ Turn = 3 => CallsHere(of[2]) = CallsBelow(CondKid(3))
  BY DEF CondCallsOpen, of
<1>14. Turn < 3 => CallsHere(currentBB[2])' = <<>>
  <2> SUFFICES ASSUME Turn < 3 PROVE CallsHere(currentBB[2])' = <<>>
    OBVIOUS
  <2>1. PICK d : d = currentBB[2]
    OBVIOUS
  <2>2. d # b
    <3>1. Turn = 1 \/ Turn = 2
      BY <1>5
    <3>2. 1 \in 1 .. Len(of) /\ Turn \in 1 .. Len(of) /\ b = of[Turn]
      BY <1>5, <1>7, <3>1
    <3>3. of[1] \in Nat /\ of[Turn] \in Nat /\ d \in Nat
      BY <1>5, <1>6, <2>1, <3>2
    <3>4. d < of[1] /\ (Turn = 2 => of[1] < of[Turn])
      BY <1>5, <1>13, <2>1, <3>1
    <3> QED BY <3>1, <3>2, <3>3, <3>4
  <2>3. CallsHere(d)' = <<>>
    BY <1>6, <1>9, <1>13, <2>1, <2>2
  <2> QED BY <1>1, <2>1, <2>3 DEF CallsHere
<1>15. Turn >= 2 => CallsHere(of[1])' = CallsBelow(CondKid(2))
  <2> SUFFICES ASSUME Turn >= 2 PROVE CallsHere(of[1])' = CallsBelow(CondKid(2))
    OBVIOUS
  <2>1. PICK d : d = of[1]
    OBVIOUS
  <2>2. Len(of) = 2 /\ d \in 1 .. Len(functions[currentFunction].blocks)
    BY <1>5, <2>1
  <2>3. d # b
    <3>1. Turn = 2 \/ Turn = 3
      BY <1>5
    <3>2. of[1] \in Nat /\ of[2] \in Nat /\ currentBB[2] \in Nat
      BY <1>5, <1>6, <2>2
    <3>3. b = of[2] \/ b = currentBB[2]
      BY <1>5, <1>7, <3>1
    <3> QED BY <1>13, <2>1, <2>2, <3>2, <3>3
  <2>4. CallsHere(d)' = CallsBelow(CondKid(2))
    BY <1>9, <1>13, <2>1, <2>2, <2>3
  <2>5. stack'[2].of[1] = d
    BY <1>4, <2>1
  <2> QED BY <1>4, <2>1, <2>4, <2>5 DEF CallsHere, of
<1>16. Turn = 3 => CallsHere(of[2])' = CallsBelow(CondKid(3))
  <2> SUFFICES ASSUME Turn = 3 PROVE CallsHere(of[2])' = CallsBelow(CondKid(3))
    OBVIOUS
  <2>1. PICK d : d = of[2]
    OBVIOUS
  <2>2. Len(of) = 2 /\ d \in 1 .. Len(functions[currentFunction].blocks)
    BY <1>5, <2>1
  <2>3. d # b
    <3>1. of[1] \in Nat /\ of[2] \in Nat /\ currentBB[2] \in Nat
      BY <1>5, <1>6, <2>2
    <3>2. b = currentBB[2]
      BY <1>5, <1>7
    <3> QED BY <1>13, <2>1, <2>2, <3>1, <3>2
  <2>4. CallsHere(d)' = CallsBelow(CondKid(3))
    BY <1>9, <1>13, <2>1, <2>2, <2>3
  <2>5. stack'[2].of[2] = d
    BY <1>4, <2>1
  <2> QED BY <1>4, <2>1, <2>4, <2>5 DEF CallsHere, of
<1>17. CondCallsOpen'
  BY <1>1, <1>4, <1>8, <1>12, <1>13, <1>14, <1>15, <1>16, Zenon DEF CondCallsOpen, of
<1> QED BY <1>4, <1>17

\* Between its children, a conditional has made the calls of the last.
LEMMA CondDue ==
  ASSUME Shape, Walk, Rooted, Entered(stack), IsCond, PairsIn(stack, Matched), Len(stack) = 2,
         NEW k \in Nat, k = Len(stack[2].got), k > 0
  PROVE  Due(stack) = CallsBelow(CondKid(IF k = 3 THEN 1 ELSE k + 1))
<1>1. /\ stack[2].node = Body /\ nodes[stack[2].node].kind = "cond" /\ stack[1].got = <<>>
      /\ stack # <<>> /\ Len(stack) >= 2
  BY BodyIs DEF Entered
<1>2. KidsIn(stack)
  BY <1>1, StackKids
<1>3. 1 \in 1 .. Len(stack) /\ 2 \in 1 .. Len(stack) /\ 1 \in Nat /\ 1 + 1 = 2
  OBVIOUS
<1>4. DueUpTo(stack, 1) = <<>>
  BY <1>1, DueAtFirst
<1>5. IsSeq(DueOf(stack, 2))
  BY <1>2, <1>3, DueIsSeq
<1>6. DueUpTo(stack, 2) = DueUpTo(stack, 1) \o DueOf(stack, 2)
  BY <1>3, <1>5, DueMore
<1>7. DueUpTo(stack, 2) = DueOf(stack, 2)
  BY <1>4, <1>5, <1>6, SeqConcat
<1>8. stack[2].got # <<>>
  OBVIOUS
<1>9. DueOf(stack, 2) = CallsBelow(KidOf(stack[2], k))
  BY <1>1, <1>8 DEF DueOf
<1>10. KidOf(stack[2], k) = CondKid(IF k = 3 THEN 1 ELSE k + 1)
  BY <1>1 DEF KidOf, KidAt, CondKid
<1> QED BY <1>7, <1>9, <1>10 DEF Due

\* A step of the conditional itself.
LEMMA CondCallsTurn ==
  ASSUME Shape, Shape', CallsInv, SymbolsInv, Rooted, BodyStep, ~ Idle,
         PairsIn(stack, Matched), IsCond, CondOpen, CondCallsOpen, Len(stack) = 2, ~ BuildBranch
  PROVE  Len(stack') >= 2 /\ CondCallsOpen'
<1> DEFINE of == stack[2].of
           c  == currentFunction
<1>1. /\ stack # <<>> /\ Entered(stack) /\ program' = program /\ next' = next
      /\ currentFunction' = c /\ currentBB' = currentBB /\ Walk
  BY BodyFacts DEF SymbolsInv
<1>2. Top = stack[2] /\ TopNode.kind = "cond" /\ stack[1].got = <<>>
  BY <1>1, TopIs, BodyIs
<1>3. /\ Turn = Len(stack[2].got) /\ of \in Seq(Nat) /\ Len(stack[2].got) \in Nat
  <2>1. Len(stack[2].got) \in Nat /\ of \in Seq(Nat)
    <3>1. 2 \in 1 .. Len(stack)
      OBVIOUS
    <3> QED BY <3>1, FrameFacts
  <2> QED BY <2>1 DEF Turn
<1>4. /\ Len(functions[c].blocks) \in Nat
      /\ currentBB[2] \in 1 .. Len(functions[c].blocks)
  BY <1>1, HomeBlock
<1>5. VisitSteps /\ ~ BuildCall
  BY <1>2, CondMoves DEF VisitSteps, BuildCall, InCall, At
<1>6. PICK k \in Nat : k = Len(functions[c].blocks) + 1
  BY <1>4
<1>7. BeginIf \/ BeginElse => Len(functions'[c].blocks) = k /\ CallsHere(k)' = <<>>
  BY <1>1, <1>6, NewBlock, HereNext
<1>8. /\ Pushes /\ Len(stack') = 3
      /\ BeginIf \/ BeginElse => stack'[2].of = Append(of, k) /\ insertion' = <<c, k>>
      /\ BeginCondition => stack'[2].of = of /\ insertion' = currentBB
  <2>1. /\ Pushes
        /\ BeginIf \/ BeginElse => stack'[2].of = Append(Top.of, LastBlock(functions', c)[2])
        /\ BeginCondition => stack'[2] = stack[2]
    BY <1>1, <1>5, VisitsPush
  <2>2. BeginIf \/ BeginElse => insertion' = LastBlock(functions', c)
    BY DEF BeginIf, BeginElse, GenerateInto
  <2>3. BeginCondition => insertion' = currentBB
    BY DEF BeginCondition
  <2>4. BeginIf \/ BeginElse => LastBlock(functions', c) = <<c, k>>
    BY <1>7 DEF LastBlock
  <2> QED BY <1>2, <2>1, <2>2, <2>3, <2>4 DEF Pushes
<1>9. Turn' = Turn + 1
  <2>1. stack'[2].got = stack[2].got
    BY <1>8 DEF Pushes
  <2> QED BY <1>3, <1>8, <2>1 DEF Turn
<1>10. CondKid(2)' = CondKid(2) /\ CondKid(3)' = CondKid(3)
  BY <1>1, BodyStays
<1>11. \A n : CallsBelow(n)' = CallsBelow(n)
  BY <1>1, DueNext
<1>12. CallsBelow(CondKid(2))' = CallsBelow(CondKid(2)) /\ CallsBelow(CondKid(3))' = CallsBelow(CondKid(3))
  <2>1. PICK k2, k3 : k2 = CondKid(2) /\ k3 = CondKid(3)
    OBVIOUS
  <2>2. CallsBelow(k2)' = CallsBelow(k2) /\ CallsBelow(k3)' = CallsBelow(k3)
    BY <1>11
  <2> QED BY <1>10, <2>1, <2>2 DEF CallsBelow
<1>13. Due(stack)' = <<>>
  <2>1. Due(stack)' = Due(stack')
    BY <1>1, DueNext
  <2>2. KidsIn(stack)
    BY StackKids
  <2>3. Due(stack') = DueUpTo(stack, Len(stack) - 1)
    BY <1>1, <1>2, <1>8, <2>2, DuePushes
  <2>4. Len(stack) - 1 = 1
    OBVIOUS
  <2> QED BY <1>2, <2>1, <2>3, <2>4, DueAtFirst
<1>14. Turn > 0 => Due(stack) = CallsBelow(CondKid(IF Turn = 3 THEN 1 ELSE Turn + 1))
  BY <1>1, <1>3, CondDue
<1>15. \A d \in 1 .. Len(functions[c].blocks) : CallsHere(d)' = CallsHere(d)
  BY <1>5, HereStay
<1>16. CallsHere(currentBB[2])' = CallsHere(currentBB[2])
  <2>1. PICK d : d = currentBB[2]
    OBVIOUS
  <2>2. CallsHere(d)' = CallsHere(d)
    BY <1>4, <1>15, <2>1
  <2> QED BY <1>1, <2>1, <2>2 DEF CallsHere
<1> HIDE DEF Turn, CondKid, IsCond
<1>17. CASE BeginIf /\ Turn = 0
  <2>1. Len(of) = 0 /\ CallsHere(currentBB[2]) = <<>>
    BY <1>3, <1>17 DEF CondOpen, CondCallsOpen
  <2> HIDE DEF of
  <2>2. of = <<>>
    BY <1>3, <2>1
  <2>3. stack'[2].of = <<k>> /\ insertion' = <<c, k>>
    BY <1>8, <1>17, <2>2
  <2>4. Turn' = 1
    BY <1>9, <1>17
  <2>5. CallsHere(insertion[2])' = <<>>
    BY <1>7, <1>17, <2>3 DEF CallsHere
  <2>6. currentBB'[2] < k
    BY <1>1, <1>4, <1>6
  <2>7. Len(stack'[2].of) = 1 /\ stack'[2].of[1] = k
    BY <2>3
  <2>8. CallsHere(currentBB[2])' = <<>>
    BY <1>16, <2>1
  <2>9. CondCallsOpen'
    BY <1>13, <2>4, <2>5, <2>6, <2>7, <2>8 DEF CondCallsOpen
  <2> QED BY <1>8, <2>9
<1>18. CASE BeginElse /\ Turn = 1
  <2>1. /\ Len(of) = 1 /\ of[1] \in 1 .. Len(functions[c].blocks) /\ insertion = <<c, of[1]>>
        /\ CallsHere(currentBB[2]) = <<>> /\ currentBB[2] < of[1]
        /\ CallsHere(insertion[2]) = Due(stack)
    BY <1>3, <1>18 DEF CondOpen, CondCallsOpen
  <2>2. PICK d : d = of[1]
    OBVIOUS
  <2>3. CallsHere(d)' = CallsBelow(CondKid(2))
    <3>1. CallsHere(d) = Due(stack)
      BY <2>1, <2>2
    <3>2. CallsHere(d)' = CallsHere(d)
      BY <1>15, <2>1, <2>2
    <3>3. Due(stack) = CallsBelow(CondKid(2))
      <4>1. Turn > 0 /\ (IF Turn = 3 THEN 1 ELSE Turn + 1) = 2
        BY <1>18
      <4> QED BY <1>14, <4>1
    <3> QED BY <3>1, <3>2, <3>3
  <2> HIDE DEF of
  <2>4. Len(stack'[2].of) = 2 /\ stack'[2].of[1] = d /\ stack'[2].of[2] = k
    <3>1. stack'[2].of = Append(of, k) /\ of \in Seq(Nat)
      BY <1>3, <1>8, <1>18
    <3>2. /\ Len(Append(of, k)) = Len(of) + 1 /\ Append(of, k)[Len(of) + 1] = k
          /\ \A i \in 1 .. Len(of) : Append(of, k)[i] = of[i]
      BY <3>1, AppendProperties
    <3>3. Len(Append(of, k)) = 2 /\ Append(of, k)[2] = k
      BY <2>1, <3>2
    <3>4. Append(of, k)[1] = of[1]
      BY <2>1, <3>2
    <3> QED BY <2>2, <3>1, <3>3, <3>4
  <2>5. Turn' = 2
    BY <1>9, <1>18
  <2>6. insertion'[2] = k
    BY <1>8, <1>18
  <2>7. CallsHere(insertion[2])' = <<>>
    BY <1>7, <1>18, <2>6 DEF CallsHere
  <2>8. d < k /\ currentBB'[2] < d
    BY <1>1, <1>4, <1>6, <2>1, <2>2
  <2>9. CallsHere(stack[2].of[1])' = CallsBelow(CondKid(2))'
    BY <1>12, <2>3, <2>4 DEF CallsHere
  <2>10. CallsHere(currentBB[2])' = <<>>
    BY <1>16, <2>1
  <2>11. CondCallsOpen'
    BY <1>13, <2>4, <2>5, <2>7, <2>8, <2>9, <2>10 DEF CondCallsOpen
  <2> QED BY <1>8, <2>11
<1>19. CASE BeginCondition /\ Turn = 2
  <2>1. /\ Len(of) = 2 /\ of[1] \in 1 .. Len(functions[c].blocks)
        /\ of[2] \in 1 .. Len(functions[c].blocks) /\ insertion = <<c, of[2]>>
        /\ CallsHere(currentBB[2]) = <<>> /\ currentBB[2] < of[1] /\ of[1] < of[2]
        /\ CallsHere(insertion[2]) = Due(stack) /\ CallsHere(of[1]) = CallsBelow(CondKid(2))
    BY <1>3, <1>19 DEF CondOpen, CondCallsOpen
  <2>2. PICK d1, d2 : d1 = of[1] /\ d2 = of[2]
    OBVIOUS
  <2>3. CallsHere(d2)' = CallsBelow(CondKid(3))
    <3>1. CallsHere(d2) = Due(stack)
      BY <2>1, <2>2
    <3>2. CallsHere(d2)' = CallsHere(d2)
      BY <1>15, <2>1, <2>2
    <3>3. Due(stack) = CallsBelow(CondKid(3))
      <4>1. Turn > 0 /\ (IF Turn = 3 THEN 1 ELSE Turn + 1) = 3
        BY <1>19
      <4> QED BY <1>14, <4>1
    <3> QED BY <3>1, <3>2, <3>3
  <2>4. CallsHere(d1)' = CallsBelow(CondKid(2))
    BY <1>15, <2>1, <2>2
  <2> HIDE DEF of
  <2>5. stack'[2].of = of /\ insertion' = currentBB
    BY <1>8, <1>19
  <2>6. Turn' = 3
    BY <1>9, <1>19
  <2>7. CallsHere(insertion[2])' = <<>>
    BY <1>1, <1>16, <2>1, <2>5 DEF CallsHere
  <2>8. CallsHere(stack[2].of[1])' = CallsBelow(CondKid(2))'
    BY <1>12, <2>2, <2>4, <2>5 DEF CallsHere
  <2>9. CallsHere(stack[2].of[2])' = CallsBelow(CondKid(3))'
    BY <1>12, <2>2, <2>3, <2>5 DEF CallsHere
  <2>10. currentBB'[2] < stack'[2].of[1] /\ stack'[2].of[1] < stack'[2].of[2]
    BY <1>1, <2>1, <2>5
  <2>11. CondCallsOpen'
    BY <1>13, <2>6, <2>7, <2>8, <2>9, <2>10 DEF CondCallsOpen
  <2> QED BY <1>8, <2>11
<1> QED BY <1>2, <1>3, <1>17, <1>18, <1>19, CondMoves

\* The branch that a conditional ends with.
LEMMA CondCallsEnd ==
  ASSUME Shape, Shape', CallsInv, SymbolsInv, Rooted, BodyStep, ~ Idle,
         PairsIn(stack, Matched), IsCond, CondOpen, CondCallsOpen, Len(stack) = 2, BuildBranch
  PROVE  Len(stack') = 1 /\ CondCallsDone'
<1> DEFINE of == stack[2].of
           c  == currentFunction
<1>1. /\ stack # <<>> /\ Entered(stack) /\ program' = program /\ next' = next
      /\ currentFunction' = c /\ currentBB' = currentBB /\ Walk
  BY BodyFacts DEF SymbolsInv
<1>2. Top = stack[2] /\ TopNode.kind = "cond" /\ stack[1].got = <<>>
  BY <1>1, TopIs, BodyIs
<1>3. PICK v \in Nat : v = Len(values) + 1
  BY ValuesAreCounted
<1>4. /\ ~ BeginIf /\ ~ BeginElse /\ ~ BeginCondition
  <2>1. ~ VisitSteps
    BY DEF BuildBranch, VisitSteps, BeginIf, BeginElse, BeginCondition, Operand, Argument, InCall, At
  <2> QED BY <2>1 DEF VisitSteps
<1>5. Len(Top.got) = 3 /\ Builds(Branch(Got(3), Top.of)) /\ Pops(v)
  BY <1>2, <1>3, <1>4, CondMoves
<1>6. Turn = 3 /\ Len(stack[2].got) = 3
  BY <1>2, <1>5 DEF Turn
<1>7. ~ BuildCall
  BY <1>2 DEF BuildCall, InCall, At
<1>8. currentBB[2] \in 1 .. Len(functions[c].blocks)
  BY <1>1, HomeBlock
<1>9. /\ of[1] \in 1 .. Len(functions[c].blocks) /\ of[2] \in 1 .. Len(functions[c].blocks)
      /\ insertion = currentBB
  BY <1>6 DEF CondOpen
<1>10. \A d \in 1 .. Len(functions[c].blocks) : CallsHere(d)' = CallsHere(d)
  BY <1>7, HereStay
<1>11. values'[v].of = of
  <2>1. values' = Append(values, Branch(Got(3), of))
    BY <1>2, <1>5 DEF Builds
  <2>2. values'[v] = Branch(Got(3), of)
    BY <1>3, <2>1, Appended
  <2> QED BY <2>2 DEF Branch, Instruction, Value
<1>12. Len(stack') = 1 /\ stack'[1].got = <<v>>
  <2>1. Len(stack') = 1 /\ stack'[1].got = Append(stack[1].got, v)
    BY <1>5 DEF Pops
  <2> QED BY <1>2, <2>1
<1>13. values'[stack'[1].got[1]].of = of
  BY <1>11, <1>12
<1>14. CondKid(1)' = CondKid(1) /\ CondKid(2)' = CondKid(2) /\ CondKid(3)' = CondKid(3)
  BY <1>1, BodyStays
<1>15. \A n : CallsBelow(n)' = CallsBelow(n)
  BY <1>1, DueNext
<1>16. /\ CallsBelow(CondKid(1))' = CallsBelow(CondKid(1))
       /\ CallsBelow(CondKid(2))' = CallsBelow(CondKid(2))
       /\ CallsBelow(CondKid(3))' = CallsBelow(CondKid(3))
  <2>1. PICK k1, k2, k3 : k1 = CondKid(1) /\ k2 = CondKid(2) /\ k3 = CondKid(3)
    OBVIOUS
  <2>2. /\ CallsBelow(k1)' = CallsBelow(k1) /\ CallsBelow(k2)' = CallsBelow(k2)
        /\ CallsBelow(k3)' = CallsBelow(k3)
    BY <1>15
  <2> QED BY <1>14, <2>1, <2>2 DEF CallsBelow
<1>17. Due(stack) = CallsBelow(CondKid(1))
  <2>1. 3 > 0 /\ 3 \in Nat /\ (IF 3 = 3 THEN 1 ELSE 3 + 1) = 1
    OBVIOUS
  <2> QED BY <1>1, <1>6, <2>1, CondDue
<1> HIDE DEF CondKid
<1>18. PICK d0, d1, d2 : d0 = currentBB[2] /\ d1 = of[1] /\ d2 = of[2]
  OBVIOUS
<1>19. /\ CallsHere(d0) = CallsBelow(CondKid(1)) /\ CallsHere(d1) = CallsBelow(CondKid(2))
       /\ CallsHere(d2) = CallsBelow(CondKid(3))
  <2>1. /\ CallsHere(insertion[2]) = Due(stack) /\ CallsHere(of[1]) = CallsBelow(CondKid(2))
        /\ CallsHere(of[2]) = CallsBelow(CondKid(3))
    BY <1>6 DEF CondCallsOpen
  <2> HIDE DEF of
  <2> QED BY <1>9, <1>17, <1>18, <2>1
<1>20. /\ CallsHere(d0)' = CallsBelow(CondKid(1)) /\ CallsHere(d1)' = CallsBelow(CondKid(2))
       /\ CallsHere(d2)' = CallsBelow(CondKid(3))
  BY <1>8, <1>9, <1>10, <1>18, <1>19
<1>21. /\ currentBB'[2] = d0 /\ values'[stack'[1].got[1]].of[1] = d1
       /\ values'[stack'[1].got[1]].of[2] = d2
  BY <1>1, <1>13, <1>18
<1> HIDE DEF of
<1>22. CondCallsDone'
  BY <1>16, <1>20, <1>21 DEF CondCallsDone, CallsHere
<1> QED BY <1>12, <1>22

LEMMA OrderedStays ==
  ASSUME Shape, Shape', CallsInv, SymbolsInv, Rooted, Callees, BodyStep, ~ Idle, Tracked,
         ~ Doomed', Good, Ordered
  PROVE  Ordered'
<1>1. program' = program /\ next' = next
  BY BodyFacts
<1>2. IsCond' = IsCond
  BY <1>1, BodyStays
<1>3. PICK m \in Nat : m = Len(stack) /\ m >= 2
  BY BodyFacts, TopIs
<1>4. ~ Nested
  BY DoomedStays DEF Doomed
<1>5. PairsIn(stack, Matched)
  BY DEF Good
<1>6. CASE ~ IsCond
  BY <1>2, <1>5, <1>6, PlainCallsStay DEF Good, Ordered
<1>7. CASE IsCond
  <2>1. CondOpen /\ CondCallsOpen
    BY <1>3, <1>7 DEF Good, CondLayout, Ordered
  <2>2. CASE m > 2
    BY <1>2, <1>3, <1>4, <1>5, <1>7, <2>1, <2>2, CondCallsBelow DEF Ordered
  <2>3. CASE m = 2 /\ ~ BuildBranch
    BY <1>2, <1>3, <1>5, <1>7, <2>1, <2>3, CondCallsTurn DEF Ordered
  <2>4. CASE m = 2 /\ BuildBranch
    <3>1. Len(stack') = 1 /\ CondCallsDone'
      BY <1>3, <1>5, <1>7, <2>1, <2>4, CondCallsEnd
    <3> QED BY <1>2, <1>7, <3>1 DEF Ordered
  <2> QED BY <1>3, <2>2, <2>3, <2>4
<1> QED BY <1>6, <1>7

\* Entering a motif of a name that is taken, ...
LEMMA EnteredKnown ==
  ASSUME Shape, BeginKnownMotif, NEW f, f = Named(functions, MotifName)
  PROVE  /\ f \in 1 .. Len(functions) /\ functions[f].name = MotifName
         /\ currentFunction' = f /\ Len(functions') = Len(functions)
         /\ Len(functions[f].blocks) \in Nat
         /\ Len(functions'[f].blocks) = Len(functions[f].blocks) + 1
         /\ functions'[f].blocks[Len(functions[f].blocks) + 1] = <<>>
         /\ functions'[f].name = functions[f].name
         /\ \A g \in 1 .. Len(functions) : g # f => functions'[g] = functions[g]
<1>1. f # NoFunction /\ functions' = AppendBlock(functions, f) /\ currentFunction' = f
  BY DEF BeginKnownMotif, EnterMotif
<1>2. functions \in Seq(FunctionType(Len(values))) /\ Len(values) \in Nat
      /\ Len(functions) \in Nat /\ DOMAIN functions = 1 .. Len(functions)
  <2>1. functions \in Seq(FunctionType(Len(values)))
    BY DEF Shape
  <2> QED BY <2>1, ValuesAreCounted, LenProperties
<1>3. f \in 1 .. Len(functions) /\ functions[f].name = MotifName
  BY <1>1, <1>2, NamedFacts DEF NoFunction
<1>4. functions[f].blocks \in Seq(Seq(1 .. Len(values)))
  BY <1>2, <1>3, FunctionFacts
<1>5. Len(functions[f].blocks) \in Nat
  BY <1>4, LenProperties
<1> DEFINE gs == AppendBlock(functions, f)
<1>6. /\ Len(gs) = Len(functions) /\ Grown(functions, gs)
      /\ Len(gs[f].blocks) = Len(functions[f].blocks) + 1
      /\ gs[f].blocks[Len(functions[f].blocks) + 1] = <<>>
      /\ \A g \in 1 .. Len(functions) : g # f => gs[g] = functions[g]
  <2>1. PICK n \in Nat : n = Len(values)
    BY <1>2
  <2>2. functions \in Seq(FunctionType(n))
    BY <1>2, <2>1
  <2> HIDE DEF gs
  <2> QED BY <1>3, <2>2, Blocked DEF gs
<1>7. gs = functions'
  BY <1>1
<1> HIDE DEF gs
<1>8. functions'[f].name = functions[f].name
  BY <1>3, <1>6, <1>7 DEF Grown
<1> QED BY <1>1, <1>3, <1>5, <1>6, <1>7, <1>8

\* ... or of a new one.
LEMMA EnteredNew ==
  ASSUME Shape, Walk, BeginMotif, NEW f, f = Len(functions) + 1
  PROVE  /\ currentFunction' = f /\ Len(functions') = f /\ functions'[f].blocks = << <<>> >>
         /\ functions'[f].name = UniqueName(functions, Source!NameOf(program, Tree))
         /\ \A g \in 1 .. Len(functions) : functions'[g] = functions[g]
<1>1. currentFunction' = f /\ ~ Prototype
  BY DEF BeginMotif, EnterMotif, Prototype, At
<1>2. /\ Len(functions') = f /\ \A g \in 1 .. Len(functions) : functions'[g] = functions[g]
      /\ functions'[f].name = UniqueName(functions, Source!NameOf(program, Tree))
      /\ functions'[f].blocks = IF Prototype THEN <<>> ELSE << <<>> >>
  BY NewFunction DEF Declaring
<1> QED BY <1>1, <1>2

\* The block of a motif that is entered is the last, and nothing is in it.
LEMMA OwnBlockIsNew ==
  ASSUME Shape, Walk, BeginMotif \/ BeginKnownMotif
  PROVE  /\ Len(functions'[currentFunction'].blocks) = currentBB'[2]
         /\ CallsHere(currentBB[2])' = <<>>
<1>1. currentBB' = LastBlock(functions', currentFunction')
  BY EnterFacts
<1>2. PICK c, k : c = currentFunction' /\ k = Len(functions'[c].blocks)
  OBVIOUS
<1>3. currentBB'[2] = k
  BY <1>1, <1>2 DEF LastBlock
<1>4. functions'[c].blocks[k] = <<>>
  <2>1. CASE BeginMotif
    <3>1. functions'[c].blocks = << <<>> >>
      BY <1>2, <2>1, EnteredNew
    <3> QED BY <1>2, <3>1
  <2>2. CASE BeginKnownMotif
    BY <1>2, <2>2, EnteredKnown
  <2> QED BY <2>1, <2>2
<1>5. CallsOf(c, k)' = <<>>
  BY <1>4, CallsOfAre, CallsNone
<1>6. CallsHere(k)' = CallsOf(c, k)'
  BY <1>2, HereNext
<1>7. CallsHere(currentBB[2])' = CallsHere(k)'
  BY <1>3 DEF CallsHere
<1> QED BY <1>2, <1>3, <1>5, <1>6, <1>7

LEMMA OrderedAtFirst ==
  ASSUME Shape, Walk, BeginMotif \/ BeginKnownMotif
  PROVE  Ordered'
<1> DEFINE root == nodes[program.trees[Tree]]
<1>1. /\ stack # <<>> /\ TopNode = root /\ program' = program /\ next' = next
      /\ insertion' = currentBB' /\ stack'[1].got = <<>>
      /\ IF Len(TopNode.kids) = 1
           THEN Len(stack') = 1
           ELSE Len(stack') = 2 /\ stack'[2].got = <<>> /\ stack'[2].of = <<>>
  BY EnterFacts DEF Walk, TopNode
<1>2. Len(functions'[currentFunction'].blocks) = currentBB'[2]
      /\ CallsHere(currentBB[2])' = <<>>
  BY OwnBlockIsNew
<1>3. Due(stack)' = <<>>
  <2>1. PICK s : s = stack'
    OBVIOUS
  <2>2. s[1].got = <<>> /\ (Len(s) = 1 \/ (Len(s) = 2 /\ s[2].got = <<>>))
    BY <1>1, <2>1
  <2>3. DueUpTo(s, 1) = <<>> /\ (Len(s) = 1 => Due(s) = <<>>)
    BY <2>2, DueAtFirst
  <2>4. Len(s) = 2 => Due(s) = <<>>
    <3> SUFFICES ASSUME Len(s) = 2 PROVE DueUpTo(s, 2) = <<>>
      BY DEF Due
    <3>1. DueOf(s, 2) = <<>>
      BY <2>2, DueNothing
    <3>2. IsSeq(DueOf(s, 2)) /\ 1 \in Nat /\ 1 + 1 = 2
      BY <3>1, SeqLiterals
    <3>3. DueUpTo(s, 2) = DueUpTo(s, 1) \o DueOf(s, 2)
      BY <3>2, DueMore
    <3> QED BY <2>3, <3>1, <3>3
  <2>5. Due(stack)' = Due(s)
    BY <1>1, <2>1, DueNext
  <2> QED BY <2>2, <2>3, <2>4, <2>5
<1>4. IsCond' = IsCond
  BY <1>1, BodyStays
<1>5. CASE IsCond
  <2>1. Len(stack') = 2 /\ stack'[2].got = <<>> /\ stack'[2].of = <<>>
    <3>1. Len(root.kids) # 1
      BY <1>5 DEF IsCond
    <3> HIDE DEF root
    <3> QED BY <1>1, <3>1
  <2>2. Turn' = 0
    BY <2>1 DEF Turn
  <2>3. CallsHere(insertion[2])' = <<>>
    BY <1>1, <1>2 DEF CallsHere
  <2>4. CondCallsOpen'
    BY <1>2, <1>3, <2>1, <2>2, <2>3 DEF CondCallsOpen
  <2> QED BY <1>4, <1>5, <2>1, <2>4 DEF Ordered
<1>6. CASE ~ IsCond
  BY <1>2, <1>3, <1>4, <1>6 DEF Ordered, PlainCalls
<1> QED BY <1>5, <1>6

LEMMA TermsIdle ==
  ASSUME values' = values, functions' = functions
  PROVE  Terms' = Terms
  BY DEF Terms, TermOf

LEMMA OrderInvIdles ==
  ASSUME Shape, UNCHANGED <<program, next, stack, module, fields>>, BodyInv, OrderInv
  PROVE  OrderInv'
<1>1. /\ program' = program /\ next' = next /\ stack' = stack /\ values' = values
      /\ functions' = functions /\ insertion' = insertion /\ namedValues' = namedValues
      /\ currentFunction' = currentFunction /\ currentBB' = currentBB
      /\ shouldReturn' = shouldReturn
  BY DEF module, fields
<1>2. nodes' = nodes /\ Tree' = Tree /\ Body' = Body /\ IsCond' = IsCond
      /\ CondKid(1)' = CondKid(1) /\ CondKid(2)' = CondKid(2) /\ CondKid(3)' = CondKid(3)
  BY <1>1, BodyStays
<1>3. Terms' = Terms
  BY <1>1, TermsIdle
<1>4. \A n : CallsBelow(n)' = CallsBelow(n)
  BY <1>1, DueNext
<1>5. Due(stack)' = Due(stack)
  BY <1>1, DueNext
<1>6. ASSUME NEW b PROVE CallsHere(b)' = CallsHere(b')
  BY <1>1, <1>3 DEF CallsHere, CallsOf
<1>7. CallsBelow(CondKid(1))' = CallsBelow(CondKid(1)) /\ CallsBelow(CondKid(2))' = CallsBelow(CondKid(2))
      /\ CallsBelow(CondKid(3))' = CallsBelow(CondKid(3))
  <2>1. PICK k1, k2, k3 : k1 = CondKid(1) /\ k2 = CondKid(2) /\ k3 = CondKid(3)
    OBVIOUS
  <2>2. /\ CallsBelow(k1)' = CallsBelow(k1) /\ CallsBelow(k2)' = CallsBelow(k2)
        /\ CallsBelow(k3)' = CallsBelow(k3)
    BY <1>4
  <2> QED BY <1>2, <2>1, <2>2 DEF CallsBelow
<1>8. Turn' = Turn
  BY <1>1 DEF Turn
<1> HIDE DEF nodes, Tree, Body, IsCond, CondKid, Turn
<1>9. PlainCalls => PlainCalls'
  BY <1>1, <1>3, <1>5 DEF PlainCalls, CallsHere, CallsOf
<1>10. CondCallsOpen => CondCallsOpen'
  BY <1>1, <1>3, <1>5, <1>7, <1>8, Zenon DEF CondCallsOpen, CallsHere, CallsOf
<1>11. CondCallsDone => CondCallsDone'
  BY <1>1, <1>3, <1>7, Zenon DEF CondCallsDone, CallsHere, CallsOf
<1>12. Ordered => Ordered'
  BY <1>1, <1>2, <1>9, <1>10, <1>11 DEF Ordered
<1>13. Tracked' = Tracked /\ (Entered(stack)' <=> Entered(stack))
  BY <1>1, TrackedStays
<1>14. Doomed => Doomed'
  <2>1. Broken' = Broken
    BY <1>1 DEF Broken
  <2>2. Nested' = Nested
    BY <1>1, <1>2 DEF Nested, Unspent, Foreign
  <2> QED BY <2>1, <2>2 DEF Doomed
<1> QED BY <1>12, <1>13, <1>14 DEF OrderInv

LEMMA OrderInvStays ==
  ASSUME Shape, Shape', CallsInv, SymbolsInv, Rooted, Callees, BodyInv, OrderInv, [Next]_vars
  PROVE  OrderInv'
<1>1. CASE Idle
  BY <1>1, OrderInvIdles DEF Idle
<1>2. CASE BodyStep /\ ~ Idle
  <2> SUFFICES ASSUME Tracked', ~ Doomed' PROVE Ordered'
    BY DEF OrderInv
  <2>1. Entered(stack) /\ program' = program /\ next' = next
    BY <1>2, BodyFacts
  <2>2. Tracked
    BY <2>1, TrackedStays
  <2>3. ~ Doomed
    BY <1>2, <2>2, DoomedStays
  <2>4. Good /\ Ordered
    BY <2>1, <2>2, <2>3 DEF BodyInv, OrderInv
  <2> QED BY <1>2, <2>2, <2>4, OrderedStays
<1>3. CASE BeginMotif \/ BeginKnownMotif
  BY <1>3, OrderedAtFirst DEF OrderInv, SymbolsInv
<1>4. CASE BeginTree \/ Prototype \/ Ends
  BY <1>4, NothingEntered DEF OrderInv
<1> QED BY <1>1, <1>2, <1>3, <1>4, StepKinds

-----------------------------------------------------------------------------
(* The calls of a motif that ends *)

LEMMA EndIsOrdered ==
  ASSUME Shape, Shape', CallsInv, SymbolsInv, BodyInv, OrderInv, Tracked, Ends
  PROVE  IF IsCond THEN CondCallsDone ELSE PlainCalls
<1>1. Entered(stack) /\ Len(stack) = 1 /\ Walk
  BY EndFacts DEF SymbolsInv
<1>2. ~ Broken
  BY <1>1, EndVerified DEF Broken
<1>3. ~ Nested
  BY <1>1 DEF Nested
<1>4. Ordered
  BY <1>1, <1>2, <1>3 DEF OrderInv, Doomed
<1> QED BY <1>1, <1>4 DEF Ordered

-----------------------------------------------------------------------------
(* The blocks of main *)

MainsUpTo(n) ==
  { j \in 1 .. n : Source!IsMotif(program, j) /\ Source!NameOf(program, j) = "main" }

LEMMA MainsAre ==
  ASSUME NEW n \in Nat
  PROVE  LET isMain == Source!IsMotif(program, n + 1) /\ Source!NameOf(program, n + 1) = "main"
         IN  /\ IsFiniteSet(MainsUpTo(n)) /\ Cardinality(MainsUpTo(n)) \in Nat
             /\ Cardinality(MainsUpTo(n + 1)) =
                  Cardinality(MainsUpTo(n)) + (IF isMain THEN 1 ELSE 0)
<1>1. IsFiniteSet(MainsUpTo(n))
  <2>1. IsFiniteSet(1 .. n)
    BY FS_Interval
  <2>2. MainsUpTo(n) \in SUBSET (1 .. n)
    BY DEF MainsUpTo
  <2> QED BY <2>1, <2>2, FS_Subset
<1>2. Cardinality(MainsUpTo(n)) \in Nat
  BY <1>1, FS_CardinalityType
<1>3. CASE Source!IsMotif(program, n + 1) /\ Source!NameOf(program, n + 1) = "main"
  <2>1. MainsUpTo(n + 1) = MainsUpTo(n) \cup {n + 1} /\ n + 1 \notin MainsUpTo(n)
    BY <1>3 DEF MainsUpTo
  <2>2. Cardinality(MainsUpTo(n) \cup {n + 1}) = Cardinality(MainsUpTo(n)) + 1
    BY <1>1, <2>1, FS_AddElement
  <2> QED BY <1>1, <1>2, <1>3, <2>1, <2>2
<1>4. CASE ~ (Source!IsMotif(program, n + 1) /\ Source!NameOf(program, n + 1) = "main")
  <2>1. MainsUpTo(n + 1) = MainsUpTo(n)
    BY <1>4 DEF MainsUpTo
  <2> QED BY <1>1, <1>2, <1>4, <2>1
<1> QED BY <1>3, <1>4

\* A declaration of main is the first.
LEMMA NoMainBefore ==
  ASSUME NEW k \in Nat, Source!IsFresh(program, k), Source!NameOf(program, k) = "main"
  PROVE  Cardinality(MainsUpTo(k - 1)) = 0
<1>1. MainsUpTo(k - 1) = {}
  BY DEF MainsUpTo, Source!IsFresh
<1> QED BY <1>1, FS_EmptySet

\* How many blocks of function f belong to a motif, once no conditional is in
\* main.
BlocksOf(f) == IF f = currentFunction THEN currentBB[2] ELSE Len(functions[f].blocks)

\* If every name is declared once, main has a block for each motif of its name.
Numbered ==
  Source!DeclaredOnce(program) =>
    \A f \in 1 .. Len(functions) : functions[f].name = "main" =>
      Cardinality(MainsUpTo(Begun)) = BlocksOf(f)

\* What the steps do that declare nothing and enter nothing.
LEMMA NumberedKept ==
  ASSUME Shape, Shape', CallsInv, SymbolsInv, BodyInv, OrderInv, [Next]_vars,
         ~ Declaring, ~ BeginKnownMotif, Source!DeclaredOnce(program),
         NEW f \in 1 .. Len(functions'), functions'[f].name = "main"
  PROVE  f \in 1 .. Len(functions) /\ functions[f].name = "main" /\ BlocksOf(f)' = BlocksOf(f)
<1>1. CASE Idle
  BY <1>1 DEF Idle, BlocksOf, module, fields
<1>2. CASE BodyStep /\ ~ Idle
  <2>1. currentFunction' = currentFunction /\ currentBB' = currentBB
    BY <1>2, BodyFacts
  <2>2. f \in 1 .. Len(functions) /\ functions'[f].name = functions[f].name
    BY <1>2, BodyKeeps
  <2>3. f # currentFunction => functions'[f] = functions[f]
    <3>1. PICK c \in {currentFunction, currentFunction'} : Effect(c)
      BY StepEffect
    <3> QED BY <2>1, <2>2, <3>1 DEF Effect, ModuleGrows
  <2> QED BY <2>1, <2>2, <2>3 DEF BlocksOf
<1>3. CASE BeginTree
  <2>1. functions' = functions /\ currentFunction' = currentFunction /\ currentBB' = currentBB
    BY <1>3 DEF BeginTree, module, fields
  <2> QED BY <2>1 DEF BlocksOf
<1>4. CASE Ends
  <2>1. currentFunction' = NoFunction
    BY <1>4, NothingEntered DEF Shape, FieldsOK
  <2>2. Walk /\ Entered(stack) /\ currentFunction \in 1 .. Len(functions)
    BY <1>4, EndFacts DEF SymbolsInv
  <2>3. PICK c \in {currentFunction, currentFunction'} : Effect(c)
    BY StepEffect
  <2>4. Len(functions') = Len(functions)
    BY OneDeclares DEF Declaring
  <2>5. CASE f = currentFunction
    <3>1. functions'[f].name = functions[f].name /\ BlocksOf(f)' = Len(functions[f].blocks)
      <4>1. functions'[f].name = functions[f].name /\ Len(functions'[f].blocks) = Len(functions[f].blocks)
        BY <1>4, <2>2, <2>5, EndBlocks DEF Grown
      <4> QED BY <2>1, <2>2, <2>5, <4>1 DEF BlocksOf, NoFunction
    <3>2. Tracked /\ Source!NameOf(program, Tree) = "main"
      BY <2>2, <2>5, <3>1 DEF Tracked, SymbolsInv, Bound
    <3>3. ~ IsCond
      BY <1>4, <3>2, EndIsGood, NoCondInMain
    <3>4. Len(functions[f].blocks) = currentBB[2]
      BY <1>4, <2>5, <3>2, <3>3, EndIsOrdered DEF PlainCalls
    <3> QED BY <2>2, <2>5, <3>1, <3>4 DEF BlocksOf
  <2>6. CASE f # currentFunction
    <3>1. functions'[f] = functions[f]
      BY <2>1, <2>3, <2>4, <2>6 DEF Effect, ModuleGrows, NoFunction
    <3> QED BY <2>1, <2>4, <2>6, <3>1 DEF BlocksOf, NoFunction
  <2> QED BY <2>5, <2>6
<1> QED BY <1>1, <1>2, <1>3, <1>4, StepKinds DEF Declaring

\* A function that a tree adds.
LEMMA NumberedNew ==
  ASSUME Shape, Shape', SymbolsInv, Numbered, [Next]_vars, Declaring,
         Source!DeclaredOnce(program), NEW f \in 1 .. Len(functions'), functions'[f].name = "main",
         NEW n \in Nat, n + 1 = Tree
  PROVE  Cardinality(MainsUpTo(n + 1)) = BlocksOf(f)'
<1>1. /\ Walk /\ Begun = n /\ currentFunction = NoFunction
  <2>1. Begun = n
    BY BegunIs DEF Tree
  <2>2. ~ Entered(stack)
    BY EnterFacts, AtRoot DEF Declaring, Entered
  <2> QED BY <2>1, <2>2, NotEntered DEF SymbolsInv
<1>2. PICK k : k = Len(functions) + 1
  OBVIOUS
<1>3. /\ k \in Nat /\ Len(functions') = k
      /\ \A g \in 1 .. Len(functions) : functions'[g] = functions[g]
      /\ functions'[k].name = UniqueName(functions, Source!NameOf(program, Tree))
      /\ functions'[k].blocks = IF Prototype THEN <<>> ELSE << <<>> >>
  BY <1>1, <1>2, NewFunction
<1>4. Source!IsMotif(program, n + 1) <=> ~ Prototype
  BY <1>1, RootIs
<1>5. Named(functions, Source!NameOf(program, n + 1)) = NoFunction
      <=> Source!IsFresh(program, n + 1)
  BY <1>1, FreshNames DEF SymbolsInv
<1>6. Prototype => currentFunction' = NoFunction
  BY <1>1 DEF Prototype
<1>7. ~ Prototype => BeginMotif /\ currentFunction' = k /\ currentBB'[2] = 1
  <2> SUFFICES ASSUME BeginMotif PROVE currentFunction' = k /\ currentBB'[2] = 1
    BY DEF Declaring
  <2>1. currentFunction' = k /\ functions'[k].blocks = << <<>> >>
    BY <1>1, <1>2, EnteredNew
  <2>2. Len(functions'[k].blocks) = 1
    BY <2>1
  <2>3. Len(functions'[currentFunction'].blocks) = currentBB'[2]
    BY <1>1, OwnBlockIsNew
  <2> QED BY <2>1, <2>2, <2>3
<1>8. CASE f = k
  <2>1. Source!NameOf(program, n + 1) = "main" /\ Source!IsFresh(program, n + 1)
    BY <1>3, <1>5, <1>8 DEF UniqueName, Renamed
  <2>2. Cardinality(MainsUpTo(n)) = 0
    <3>1. n + 1 \in Nat /\ (n + 1) - 1 = n
      OBVIOUS
    <3>2. Cardinality(MainsUpTo((n + 1) - 1)) = 0
      BY <2>1, <3>1, NoMainBefore
    <3> QED BY <3>1, <3>2
  <2>3. Cardinality(MainsUpTo(n + 1)) = IF Prototype THEN 0 ELSE 1
    <3>2. CASE Prototype
      <4>1. Cardinality(MainsUpTo(n + 1)) = Cardinality(MainsUpTo(n)) + 0
        BY <1>4, <3>2, MainsAre
      <4> QED BY <2>2, <3>2, <4>1
    <3>3. CASE ~ Prototype
      <4>1. Cardinality(MainsUpTo(n + 1)) = Cardinality(MainsUpTo(n)) + 1
        BY <1>4, <2>1, <3>3, MainsAre
      <4> QED BY <2>2, <3>3, <4>1
    <3> QED BY <3>2, <3>3
  <2>4. BlocksOf(f)' = IF Prototype THEN 0 ELSE 1
    <3>1. CASE Prototype
      <4>1. BlocksOf(f)' = Len(functions'[k].blocks)
        BY <1>3, <1>6, <1>8, <3>1 DEF BlocksOf, NoFunction
      <4> QED BY <1>3, <3>1, <4>1
    <3>2. CASE ~ Prototype
      BY <1>7, <1>8, <3>2 DEF BlocksOf
    <3> QED BY <3>1, <3>2
  <2> QED BY <2>3, <2>4
<1>9. CASE f # k
  <2>1. f \in 1 .. Len(functions) /\ functions'[f] = functions[f]
    BY <1>2, <1>3, <1>9
  <2>2. BlocksOf(f)' = BlocksOf(f)
    BY <1>1, <1>6, <1>7, <1>9, <2>1 DEF BlocksOf, NoFunction
  <2>3. Cardinality(MainsUpTo(n)) = BlocksOf(f)
    BY <1>1, <2>1 DEF Numbered
  <2>4. ~ (Source!IsMotif(program, n + 1) /\ Source!NameOf(program, n + 1) = "main")
    <3> SUFFICES ASSUME BeginMotif, Source!NameOf(program, n + 1) = "main" PROVE FALSE
      BY <1>4, <1>7
    <3>1. Named(functions, "main") = NoFunction
      BY <1>1, RootIs DEF BeginMotif, Declaring
    <3>2. functions \in Seq(FunctionType(Len(values)))
      BY DEF Shape
    <3> QED BY <2>1, <3>1, <3>2, NamedFacts
  <2>5. Cardinality(MainsUpTo(n + 1)) = Cardinality(MainsUpTo(n)) + 0 /\ Cardinality(MainsUpTo(n)) \in Nat
    BY <2>4, MainsAre
  <2> QED BY <2>2, <2>3, <2>5
<1> QED BY <1>8, <1>9

\* A function that is entered again.
LEMMA NumberedKnown ==
  ASSUME Shape, Shape', SymbolsInv, Numbered, [Next]_vars, BeginKnownMotif,
         Source!DeclaredOnce(program), NEW f \in 1 .. Len(functions'), functions'[f].name = "main",
         NEW n \in Nat, n + 1 = Tree
  PROVE  Cardinality(MainsUpTo(n + 1)) = BlocksOf(f)'
<1>1. /\ Walk /\ Begun = n /\ currentFunction = NoFunction
  BY BegunIs, EnterFacts DEF Tree, SymbolsInv
<1>2. PICK g : g = Named(functions, MotifName)
  OBVIOUS
<1>3. /\ g \in 1 .. Len(functions) /\ functions[g].name = MotifName
      /\ currentFunction' = g /\ Len(functions') = Len(functions)
      /\ Len(functions[g].blocks) \in Nat
      /\ Len(functions'[g].blocks) = Len(functions[g].blocks) + 1
      /\ functions'[g].name = functions[g].name
      /\ \A h \in 1 .. Len(functions) : h # g => functions'[h] = functions[h]
  BY <1>2, EnteredKnown
<1>4. Source!IsMotif(program, n + 1) /\ MotifName = Source!NameOf(program, n + 1)
  <2>1. ~ Prototype
    BY DEF BeginKnownMotif, Prototype, At
  <2> QED BY <1>1, <2>1, RootIs
<1>5. functions[f].name = "main"
  BY <1>3
<1>6. Cardinality(MainsUpTo(n)) = Len(functions[f].blocks)
  BY <1>1, <1>3, <1>5 DEF Numbered, BlocksOf, NoFunction
<1>7. CASE f = g
  <2>1. Cardinality(MainsUpTo(n + 1)) = Cardinality(MainsUpTo(n)) + 1
    BY <1>3, <1>4, <1>5, <1>7, MainsAre
  <2>2. BlocksOf(f)' = Len(functions'[g].blocks)
    <3>1. Len(functions'[currentFunction'].blocks) = currentBB'[2]
      BY <1>1, OwnBlockIsNew
    <3> QED BY <1>3, <1>7, <3>1 DEF BlocksOf
  <2> QED BY <1>3, <1>6, <1>7, <2>1, <2>2
<1>8. CASE f # g
  <2>1. Source!NameOf(program, n + 1) # "main"
    BY <1>3, <1>4, <1>5, <1>8 DEF SymbolsInv, Symbols, Renamed
  <2>2. Cardinality(MainsUpTo(n + 1)) = Cardinality(MainsUpTo(n)) + 0 /\ Cardinality(MainsUpTo(n)) \in Nat
    BY <2>1, MainsAre
  <2>3. BlocksOf(f)' = Len(functions[f].blocks)
    BY <1>3, <1>8 DEF BlocksOf
  <2> QED BY <1>6, <2>2, <2>3
<1> QED BY <1>7, <1>8

LEMMA NumberedStays ==
  ASSUME Shape, Shape', CallsInv, SymbolsInv, BodyInv, OrderInv, Numbered, [Next]_vars
  PROVE  Numbered'
<1>1. program' = program
  BY ProgramStays
<1> SUFFICES ASSUME Source!DeclaredOnce(program),
                    NEW f \in 1 .. Len(functions'), functions'[f].name = "main",
                    NEW m, m = Begun'
             PROVE  Cardinality(MainsUpTo(m)) = BlocksOf(f)'
  BY <1>1 DEF Numbered, MainsUpTo
<1>2. CASE Declaring \/ BeginKnownMotif
  <2>1. Walk /\ Begun' = Tree
    BY <1>2, BegunIs DEF Tree, SymbolsInv
  <2>2. PICK n \in Nat : n + 1 = Tree
    <3>1. Tree \in 1 .. Len(program.trees)
      BY <1>2, <2>1, RootIs
    <3>2. Tree \in Nat \ {0}
      BY <3>1
    <3>3. Tree - 1 \in Nat /\ Tree - 1 + 1 = Tree
      BY <3>2
    <3> QED BY <3>3
  <2> QED BY <1>2, <2>1, <2>2, NumberedNew, NumberedKnown
<1>3. CASE ~ (Declaring \/ BeginKnownMotif)
  <2>1. m = Begun
    BY <1>3, BegunIs
  <2>2. f \in 1 .. Len(functions) /\ functions[f].name = "main" /\ BlocksOf(f)' = BlocksOf(f)
    BY <1>3, NumberedKept
  <2> QED BY <2>1, <2>2 DEF Numbered
<1> QED BY <1>2, <1>3

-----------------------------------------------------------------------------
(* Where the calls of the motifs that are done are *)

\* What block b of f calls is the calls below body, or, if that is a
\* conditional, those below its condition: it ends with a branch to two blocks
\* that have those of the others.
CallsPlaced(f, b, body, calls) ==
  /\ b \in 1 .. DoneBlocks(f)
  /\ IF nodes[body].kind = "cond"
       THEN \E c \in 1 .. Len(values), b1 \in 1 .. DoneBlocks(f), b2 \in 1 .. DoneBlocks(f) :
              /\ EndsWith(f, b, Branch(c, <<b1, b2>>))
              /\ CallsOf(f, b) = calls[nodes[body].kids[1]]
              /\ CallsOf(f, b1) = calls[nodes[body].kids[2]]
              /\ CallsOf(f, b2) = calls[nodes[body].kids[3]]
       ELSE CallsOf(f, b) = calls[body]

LEMMA CallsPlacedStay ==
  ASSUME Shape, Shape', CallsInv, Walk, Onward, [Next]_vars, NEW f \in 1 .. Len(functions),
         NEW b, NEW body, NEW calls, CallsPlaced(f, b, body, calls)
  PROVE  CallsPlaced(f, b, body, calls)'
<1>1. ASSUME NEW a \in 1 .. DoneBlocks(f)
      PROVE  a \in 1 .. DoneBlocks(f)' /\ CallsOf(f, a)' = CallsOf(f, a)
  <2>1. /\ a \in 1 .. Len(functions[f].blocks) /\ a \in 1 .. DoneBlocks(f)'
        /\ functions'[f].blocks[a] = functions[f].blocks[a]
    BY DoneStay
  <2> QED BY <2>1, CallsOfSame
<1>2. nodes' = nodes
  BY ProgramStays DEF nodes
<1>3. b \in 1 .. DoneBlocks(f)
  BY DEF CallsPlaced
<1>4. CASE nodes[body].kind = "cond"
  <2>1. PICK c \in 1 .. Len(values), b1 \in 1 .. DoneBlocks(f), b2 \in 1 .. DoneBlocks(f) :
          /\ EndsWith(f, b, Branch(c, <<b1, b2>>))
          /\ CallsOf(f, b) = calls[nodes[body].kids[1]]
          /\ CallsOf(f, b1) = calls[nodes[body].kids[2]]
          /\ CallsOf(f, b2) = calls[nodes[body].kids[3]]
    BY <1>4 DEF CallsPlaced
  <2>2. PICK v : v = Branch(c, <<b1, b2>>)
    OBVIOUS
  <2>3. EndsWith(f, b, v)'
    BY <2>1, <2>2, EndsWithStays
  <2>4. c \in 1 .. Len(values')
    BY Step
  <2>5. /\ CallsOf(f, b)' = calls[nodes[body].kids[1]]
        /\ CallsOf(f, b1)' = calls[nodes[body].kids[2]]
        /\ CallsOf(f, b2)' = calls[nodes[body].kids[3]]
    BY <1>1, <1>3, <2>1
  <2>6. b \in 1 .. DoneBlocks(f)' /\ b1 \in 1 .. DoneBlocks(f)' /\ b2 \in 1 .. DoneBlocks(f)'
    BY <1>1, <1>3
  <2>7. EndsWith(f, b, Branch(c, <<b1, b2>>))'
    BY <2>2, <2>3 DEF EndsWith
  <2> QED BY <1>2, <1>4, <2>4, <2>5, <2>6, <2>7 DEF CallsPlaced
<1>5. CASE nodes[body].kind # "cond"
  BY <1>1, <1>2, <1>3, <1>5 DEF CallsPlaced
<1> QED BY <1>4, <1>5

\* What is added at the end of a motif calls nothing.
LEMMA EndCalls ==
  ASSUME Shape, Shape', CallsInv, SymbolsInv, Ends, NEW f, f = currentFunction,
         NEW b \in 1 .. Len(functions[f].blocks)
  PROVE  CallsOf(f, b)' = CallsOf(f, b)
<1> DEFINE s == functions[f].blocks[b]
<1>1. /\ Walk /\ stack # <<>> /\ values' = values \o Epilogue /\ f \in 1 .. Len(functions)
  BY EndFacts DEF SymbolsInv
<1>2. [Next]_vars
  BY DEF Ends, Next, GetValue
<1>3. functions'[f].blocks[b] = IF b = currentBB[2] /\ Epilogue # <<>>
                                  THEN Append(s, Len(values')) ELSE s
  BY <1>1, EndBlocks
<1>4. CASE ~ (b = currentBB[2] /\ Epilogue # <<>>)
  BY <1>1, <1>2, <1>3, <1>4, CallsOfSame
<1>5. CASE b = currentBB[2] /\ Epilogue # <<>>
  <2>1. PICK n \in Nat : n = Len(values')
    BY DEF Shape, ValuesOK
  <2>2. /\ Extended(values, values') /\ Len(values) \in Nat
        /\ \E args : values'[n] = ReturnOf(args)
    <3>1. CASE MotifName = "main"
      <4>1. values'[Len(values) + 2] = ReturnOf(<<Len(values) + 1>>) /\ n = Len(values) + 2
        BY <1>1, <2>1, <3>1, EpilogueIs
      <4> QED BY <1>1, <4>1, EpilogueIs
    <3>2. CASE MotifName # "main"
      <4>1. values'[Len(values) + 1] = ReturnOf(Top.got) /\ n = Len(values) + 1
        BY <1>1, <1>5, <2>1, <3>2, EpilogueIs
      <4> QED BY <1>1, <4>1, EpilogueIs
    <3> QED BY <3>1, <3>2
  <2>3. values'[n].op = "ret"
    BY <2>2 DEF ReturnOf, Instruction, Value
  <2>4. PICK S : S = 1 .. Len(values)
    OBVIOUS
  <2>5. s \in Seq(S) /\ s \in Seq(Nat)
    BY <1>1, <2>2, <2>4, BlockFacts, EndBlocks DEF Shape
  <2>6. \A v \in S : values'[v] = values[v] /\ Terms'[v] = Terms[v]
    BY <1>2, <2>2, <2>4, TermsStay DEF Extended
  <2> HIDE DEF s
  <2>7. PICK vs, ts, ws, us : vs = values /\ ts = Terms /\ ws = values' /\ us = Terms'
    OBVIOUS
  <2>8. CallsAmong(ws, us, s) = CallsAmong(vs, ts, s)
    BY <2>5, <2>6, <2>7, CallsAmongSame
  <2>9. CallsAmong(ws, us, Append(s, n)) = CallsAmong(ws, us, s) \o CallAmong(ws, us, n)
    BY <2>5, CallsLonger
  <2>10. CallAmong(ws, us, n) = <<>>
    BY <2>3, <2>7 DEF CallAmong
  <2>11. CallsAmong(ws, us, s) \o <<>> = CallsAmong(ws, us, s)
    BY <2>5, CallsAmongIsSeq, SeqLiterals, SeqConcat
  <2>12. CallsOf(f, b)' = CallsAmong(ws, us, Append(s, n))
    <3>1. functions'[f].blocks[b] = Append(s, n)
      BY <1>3, <1>5, <2>1
    <3>2. CallsOf(f, b)' = CallsAmong(values', Terms', functions'[f].blocks[b])
      BY CallsOfAre
    <3> QED BY <2>7, <3>1, <3>2
  <2>13. CallsOf(f, b) = CallsAmong(vs, ts, s)
    BY <2>7, CallsOfAre DEF s
  <2> QED BY <2>8, <2>9, <2>10, <2>11, <2>12, <2>13
<1> QED BY <1>4, <1>5

LEMMA FlattenOne ==
  ASSUME NEW x, IsSeq(x), NEW g, g = [i \in 1 .. 1 |-> g[i]], g[1] = x
  PROVE  FlattenSeq(g) = x
<1>1. IsSeq(<<>>) /\ <<>> \o x = x
  BY SeqConcat
<1>2. g = Append(<<>>, x)
  <2>1. g = <<x>>
    OBVIOUS
  <2> QED BY <2>1
<1>3. FlattenSeq(Append(<<>>, x)) = FlattenSeq(<<>>) \o x
  BY <1>1, FlattenAppend
<1> QED BY <1>1, <1>2, <1>3, FlattenEmpty

\* A motif that ends has made the calls below its body.
LEMMA EndDue ==
  ASSUME Shape, Shape', SymbolsInv, Ends, Source!HasBody(program, Tree)
  PROVE  Due(stack) = CallsBelow(Body)
<1>1. /\ Walk /\ stack # <<>> /\ Len(stack) = 1 /\ Top = stack[1] /\ Entered(stack)
      /\ TopNode = nodes[program.trees[Tree]] /\ TopNode.kind = "motif"
      /\ Len(stack[1].got) = Len(nodes[program.trees[Tree]].kids) - 1
  BY EndFacts DEF SymbolsInv
<1>2. Len(nodes[program.trees[Tree]].kids) = 2
  BY DEF Source!HasBody, nodes
<1>3. stack[1].node = program.trees[Tree] /\ stack[1].node \in DOMAIN nodes
  BY <1>1, RootFacts
<1>4. KidOf(stack[1], 1) = Body /\ nodes[stack[1].node].kind = "motif"
  BY <1>1, <1>3 DEF KidOf, KidAt, Body
<1>5. Body \in DOMAIN nodes
  <2>1. \A i \in 1 .. Len(nodes[stack[1].node].kids) : nodes[stack[1].node].kids[i] \in DOMAIN nodes
    BY <1>3, NodeFacts DEF Shape
  <2> QED BY <1>2, <1>3, <2>1 DEF Body
<1>6. IsSeq(CallsBelow(Body))
  BY <1>5, CallsAreSeq DEF Shape
<1>7. DueOf(stack, 1) = CallsBelow(Body)
  <2> DEFINE g == [i \in 1 .. Len(stack[1].got) |-> CallsBelow(KidOf(stack[1], i))]
  <2>1. DueOf(stack, 1) = FlattenSeq(g)
    BY <1>4 DEF DueOf
  <2>2. g = [i \in 1 .. 1 |-> g[i]] /\ g[1] = CallsBelow(KidOf(stack[1], 1))
    BY <1>1, <1>2
  <2> HIDE DEF g
  <2> QED BY <1>4, <1>6, <2>1, <2>2, FlattenOne
<1>8. Due(stack) = DueOf(stack, 1)
  <2> DEFINE g == [j \in 1 .. Len(stack) |-> DueOf(stack, j)]
  <2>1. Due(stack) = FlattenSeq(g)
    BY DEF Due, DueUpTo
  <2>2. g = [j \in 1 .. 1 |-> g[j]] /\ g[1] = DueOf(stack, 1)
    BY <1>1
  <2> HIDE DEF g
  <2> QED BY <1>6, <1>7, <2>1, <2>2, FlattenOne
<1> QED BY <1>7, <1>8

\* Those of a body that is no conditional are in the block of the motif.
LEMMA PlainPlaced ==
  ASSUME Shape, Shape', MeaningInv, OrderInv, Ends, Tracked, Source!HasBody(program, Tree),
         ~ IsCond, NEW f, f = currentFunction, NEW b, b = currentBB[2],
         NEW body, body = Body, NEW calls, \A n : calls[n] = CallsBelow(n)
  PROVE  CallsPlaced(f, b, body, calls)'
<1>1. Entered(stack) /\ SymbolsInv /\ CallsInv /\ BodyInv /\ Walk
  BY EndFacts DEF MeaningInv, SymbolsInv
<1>2. b \in 1 .. Len(functions[f].blocks)
  BY <1>1, EndFacts
<1>3. b \in 1 .. DoneBlocks(f)'
  BY <1>1, <1>2, AfterEnd
<1>4. CallsOf(f, b) = CallsBelow(Body)
  <2>1. PlainCalls
    BY <1>1, EndIsOrdered
  <2>2. CallsHere(b) = Due(stack)
    BY <2>1 DEF PlainCalls
  <2> QED BY <1>1, <2>2, EndDue DEF CallsHere
<1>5. CallsOf(f, b)' = CallsOf(f, b)
  BY <1>1, <1>2, EndCalls
<1>6. nodes[Body].kind # "cond"
  BY DEF IsCond, Source!HasBody, nodes
<1>7. CallsOf(f, b)' = calls[body]
  BY <1>4, <1>5
<1>8. nodes'[body].kind # "cond"
  BY <1>6 DEF Ends, nodes
<1> QED BY <1>3, <1>7, <1>8 DEF CallsPlaced

\* Those of a conditional are in its block and in those of the branches.
LEMMA CondPlaced ==
  ASSUME Shape, Shape', MeaningInv, OrderInv, Ends, Tracked,
         IsCond, NEW f, f = currentFunction, NEW b, b = currentBB[2],
         NEW body, body = Body, NEW calls, \A n : calls[n] = CallsBelow(n)
  PROVE  CallsPlaced(f, b, body, calls)'
<1>1. /\ SymbolsInv /\ CallsInv /\ BodyInv /\ Walk /\ Entered(stack) /\ stack # <<>>
      /\ values' = values \o Epilogue /\ Verified(functions', values', f)
      /\ b \in 1 .. Len(functions[f].blocks)
  BY EndFacts DEF MeaningInv, SymbolsInv
<1>2. /\ f \in 1 .. Len(functions) /\ f \in 1 .. Len(functions')
      /\ Len(functions[f].blocks) \in Nat /\ DoneBlocks(f)' = Len(functions[f].blocks)
      /\ functions'[f].blocks[b] \in Seq(Nat) /\ b \in DOMAIN functions'[f].blocks
  BY <1>1, AfterEnd
<1>3. CondDone /\ CondCallsDone
  BY <1>1, EndIsGood, EndIsOrdered
<1>4. functions' = functions /\ values' = values
  <2>1. Epilogue = <<>>
    BY <1>1, <1>3, CondEndsItself
  <2>2. MotifName # "main" /\ ~ shouldReturn
    BY <1>1, <2>1, EpilogueIs
  <2>3. values' = values
    BY <1>1, <2>2, EpilogueIs
  <2> QED BY <1>1, <2>1, <2>3, EndFacts
<1>5. PICK v \in 1 .. Len(values), c \in 1 .. Len(values),
           b1 \in 1 .. Len(functions[f].blocks), b2 \in 1 .. Len(functions[f].blocks) :
        DoneBy(v, c, b1, b2)
  BY <1>3 DEF CondDone
<1>6. /\ stack[1].got[1] = v /\ values[v] = Branch(c, <<b1, b2>>) /\ InBlock(functions, f, b, v)
  BY <1>5 DEF DoneBy
<1>7. values[v].op \in Terminators /\ values[v].of[1] = b1 /\ values[v].of[2] = b2
  BY <1>6 DEF Branch, Instruction, Value, Terminators
<1>8. EndsWith(f, b, Branch(c, <<b1, b2>>))'
  <2>1. PICK w : w = Branch(c, <<b1, b2>>)
    OBVIOUS
  <2>2. functions'[f].blocks[b] # <<>> /\ Last(functions'[f].blocks[b]) = v
    BY <1>1, <1>2, <1>4, <1>6, <1>7, TerminatorIsLast
  <2>3. b \in 1 .. DoneBlocks(f)' /\ values'[v] = w
    BY <1>1, <1>2, <1>4, <1>6, <2>1
  <2> QED BY <2>1, <2>2, <2>3 DEF EndsWith
<1>9. /\ CallsOf(f, b) = CallsBelow(CondKid(1))
      /\ CallsOf(f, b1) = CallsBelow(CondKid(2))
      /\ CallsOf(f, b2) = CallsBelow(CondKid(3))
  BY <1>3, <1>6, <1>7 DEF CondCallsDone, CallsHere
<1>10. /\ CallsOf(f, b)' = CallsOf(f, b) /\ CallsOf(f, b1)' = CallsOf(f, b1)
       /\ CallsOf(f, b2)' = CallsOf(f, b2)
  BY <1>1, EndCalls
<1>11. nodes' = nodes
  BY DEF Ends, nodes
<1>12. nodes'[body].kind = "cond"
  BY <1>11 DEF IsCond
<1>13. /\ CallsOf(f, b)' = calls[nodes'[body].kids[1]]
       /\ CallsOf(f, b1)' = calls[nodes'[body].kids[2]]
       /\ CallsOf(f, b2)' = calls[nodes'[body].kids[3]]
  BY <1>9, <1>10, <1>11 DEF CondKid
<1>14. /\ b \in 1 .. DoneBlocks(f)' /\ b1 \in 1 .. DoneBlocks(f)' /\ b2 \in 1 .. DoneBlocks(f)'
       /\ c \in 1 .. Len(values')
  BY <1>1, <1>2, <1>4
<1> QED BY <1>8, <1>12, <1>13, <1>14 DEF CallsPlaced

\* Which block of the function of its name is that of motif k.
BlockOf(k) ==
  Cardinality({ j \in 1 .. k : Source!IsMotif(program, j)
                               /\ Source!NameOf(program, j) = Source!NameOf(program, k) })

\* The motifs that the property is about.
HasBlock(k) ==
  /\ Source!HasBody(program, k)
  /\ \/ Source!IsFresh(program, k)
     \/ Source!NameOf(program, k) = "main" /\ Source!DeclaredOnce(program)

CallsKept(name, b, body, calls) ==
  \E f \in 1 .. Len(functions) : functions[f].name = name /\ CallsPlaced(f, b, body, calls)

Placed ==
  \A k \in DOMAIN program.trees : Completed(k) /\ HasBlock(k) =>
    CallsKept(Source!NameOf(program, k), BlockOf(k), Source!Body(program, k),
              Source!CallsIn(program, k))

LEMMA BlockNumber ==
  ASSUME Shape, SymbolsInv, Numbered, Entered(stack), HasBlock(Tree)
  PROVE  BlockOf(Tree) = currentBB[2] /\ Tracked
<1>1. /\ Walk /\ Tree \in Nat /\ Source!IsMotif(program, Tree) /\ Begun = Tree
      /\ Tree \in 1 .. Tree
  BY RootFacts DEF SymbolsInv
<1>2. functions[currentFunction].name = Source!NameOf(program, Tree)
      /\ currentFunction \in 1 .. Len(functions)
  BY EnteredFacts DEF SymbolsInv, Bound
<1>3. CASE Source!IsFresh(program, Tree)
  <2>1. currentBB[2] = 1
    BY <1>3 DEF SymbolsInv, Bound
  <2>2. \A j \in 1 .. Tree : j = Tree \/ j \in 1 .. Tree - 1
    BY <1>1
  <2>3. \A j \in 1 .. Tree - 1 : Source!NameOf(program, j) # Source!NameOf(program, Tree)
    BY <1>3 DEF Source!IsFresh
  <2>4. { j \in 1 .. Tree : Source!IsMotif(program, j)
                            /\ Source!NameOf(program, j) = Source!NameOf(program, Tree) } = {Tree}
    <3> PICK t : t = Tree
      OBVIOUS
    <3> HIDE DEF Tree
    <3> QED BY <1>1, <2>2, <2>3
  <2>5. BlockOf(Tree) = 1
    BY <2>4, FS_Singleton DEF BlockOf
  <2> QED BY <1>3, <2>1, <2>5 DEF Tracked
<1>4. CASE Source!NameOf(program, Tree) = "main" /\ Source!DeclaredOnce(program)
  <2>1. BlockOf(Tree) = Cardinality(MainsUpTo(Tree))
    BY <1>4 DEF BlockOf, MainsUpTo
  <2>2. Cardinality(MainsUpTo(Begun)) = currentBB[2]
    BY <1>2, <1>4 DEF Numbered, BlocksOf
  <2> QED BY <1>1, <1>4, <2>1, <2>2 DEF Tracked
<1> QED BY <1>3, <1>4 DEF HasBlock

LEMMA CallsKeptStay ==
  ASSUME Shape, Shape', CallsInv, Walk, Onward, [Next]_vars,
         NEW name, NEW b, NEW body, NEW calls, CallsKept(name, b, body, calls)
  PROVE  CallsKept(name, b, body, calls)'
<1>1. PICK f \in 1 .. Len(functions) : functions[f].name = name /\ CallsPlaced(f, b, body, calls)
  BY DEF CallsKept
<1>2. CallsPlaced(f, b, body, calls)'
  BY <1>1, CallsPlacedStay
<1>3. f \in 1 .. Len(functions') /\ functions'[f].name = name
  <2>1. Grown(functions, functions') /\ Len(functions) \in Nat /\ Len(functions') \in Nat
    BY Step DEF Shape
  <2> QED BY <1>1, <2>1 DEF Grown
<1> QED BY <1>2, <1>3 DEF CallsKept

LEMMA EndKeepsCalls ==
  ASSUME Shape, Shape', MeaningInv, OrderInv, Numbered, Ends, HasBlock(Tree),
         NEW name, name = Source!NameOf(program, Tree), NEW b, b = BlockOf(Tree),
         NEW body, body = Source!Body(program, Tree), NEW calls, calls = Source!CallsIn(program, Tree)
  PROVE  CallsKept(name, b, body, calls)'
<1>1. Walk /\ Entered(stack) /\ SymbolsInv
  BY EndFacts DEF MeaningInv, SymbolsInv
<1>2. PICK f : f = currentFunction
  OBVIOUS
<1>3. b = currentBB[2] /\ Tracked /\ Source!HasBody(program, Tree)
  BY <1>1, BlockNumber DEF HasBlock
<1>4. body = Body /\ \A n : calls[n] = CallsBelow(n)
  BY DEF Body, Source!Body, nodes, CallsBelow
<1>5. CallsPlaced(f, b, body, calls)'
  BY <1>2, <1>3, <1>4, PlainPlaced, CondPlaced
<1>6. f \in 1 .. Len(functions') /\ functions'[f].name = functions[f].name
  BY <1>1, <1>2, AfterEnd
<1>7. functions[f].name = name
  BY <1>1, <1>2 DEF SymbolsInv, Bound
<1> QED BY <1>5, <1>6, <1>7 DEF CallsKept

LEMMA PlacedStays ==
  ASSUME MeaningInv, Onward, OrderInv, Numbered, Placed, [Next]_vars
  PROVE  Placed'
<1>1. Shape /\ Shape' /\ CallsInv /\ SymbolsInv /\ Walk
  BY CallsInvStays DEF MeaningInv, SymbolsInv
<1>2. program' = program
  BY <1>1, ProgramStays
<1>3. ASSUME NEW k \in DOMAIN program.trees, Completed(k)', HasBlock(k),
             NEW name, name = Source!NameOf(program, k), NEW b, b = BlockOf(k),
             NEW body, body = Source!Body(program, k), NEW calls, calls = Source!CallsIn(program, k)
      PROVE  CallsKept(name, b, body, calls)'
  <2>1. CASE Completed(k)
    <3>1. CallsKept(name, b, body, calls)
      BY <1>3, <2>1 DEF Placed
    <3> QED BY <1>1, <3>1, CallsKeptStay
  <2>2. CASE ~ Completed(k)
    <3>1. k = Tree /\ (Prototype \/ Ends)
      BY <1>1, <1>3, <2>2, Completes
    <3>2. ~ Prototype
      BY <1>1, <1>3, <3>1, RootIs DEF Declaring, HasBlock, Source!HasBody
    <3> QED BY <1>1, <1>3, <3>1, <3>2, EndKeepsCalls
  <2> QED BY <2>1, <2>2
<1>4. ASSUME NEW k \in DOMAIN program.trees, Completed(k)', HasBlock(k)'
      PROVE  CallsKept(Source!NameOf(program, k), BlockOf(k), Source!Body(program, k),
                       Source!CallsIn(program, k))'
  <2>1. PICK name, b, body, calls :
          /\ name = Source!NameOf(program, k) /\ b = BlockOf(k)
          /\ body = Source!Body(program, k) /\ calls = Source!CallsIn(program, k)
    OBVIOUS
  <2>2. HasBlock(k)
    BY <1>2, <1>4 DEF HasBlock
  <2>3. CallsKept(name, b, body, calls)'
    BY <1>3, <1>4, <2>1, <2>2
  <2>4. /\ Source!NameOf(program', k) = name /\ BlockOf(k)' = b
        /\ Source!Body(program', k) = body /\ Source!CallsIn(program', k) = calls
    BY <1>2, <2>1 DEF BlockOf
  <2> QED BY <2>3, <2>4 DEF CallsKept
<1> QED BY <1>2, <1>4 DEF Placed

\* What the calls of a motif that is done are, read from its function.
LEMMA PlacedRead ==
  ASSUME Shape, NEW f, NEW b, NEW body, NEW calls, CallsPlaced(f, b, body, calls)
  PROVE  IF nodes[body].kind = "cond"
           THEN LET end == values[Last(functions[f].blocks[b])] IN
                /\ CallsOf(f, b) = calls[nodes[body].kids[1]]
                /\ CallsOf(f, end.of[1]) = calls[nodes[body].kids[2]]
                /\ CallsOf(f, end.of[2]) = calls[nodes[body].kids[3]]
           ELSE CallsOf(f, b) = calls[body]
<1>1. CASE nodes[body].kind = "cond"
  <2>1. PICK c, b1, b2 : /\ EndsWith(f, b, Branch(c, <<b1, b2>>))
                         /\ CallsOf(f, b) = calls[nodes[body].kids[1]]
                         /\ CallsOf(f, b1) = calls[nodes[body].kids[2]]
                         /\ CallsOf(f, b2) = calls[nodes[body].kids[3]]
    BY <1>1 DEF CallsPlaced
  <2>2. PICK end : end = values[Last(functions[f].blocks[b])]
    OBVIOUS
  <2>3. end = Branch(c, <<b1, b2>>)
    BY <2>1, <2>2 DEF EndsWith
  <2>4. end.of[1] = b1 /\ end.of[2] = b2
    BY <2>3 DEF Branch, Instruction, Value
  <2> QED BY <1>1, <2>1, <2>2, <2>4
<1>2. CASE nodes[body].kind # "cond"
  BY <1>2 DEF CallsPlaced
<1> QED BY <1>1, <1>2

(* The calls of a body are made once each, in the order of the source, in  *)
(* its own block and in those of the branches: while the motif is in       *)
(* progress its block has those that are due, and main one for each motif. *)
THEOREM CallsKeepTheirOrder == Spec => []EffectsInOrder
<1> DEFINE Inv == MeaningInv /\ Onward /\ OrderInv /\ Numbered /\ Placed
<1>1. Init => Inv
  <2> SUFFICES ASSUME Init PROVE Inv
    OBVIOUS
  <2>1. stack = <<>> /\ next = 1 /\ Shape
    BY ShapeInit DEF Init, Fresh
  <2>2. Onward /\ OrderInv
    BY <2>1 DEF Onward, OrderInv, Entered
  <2>3. \A k \in DOMAIN program.trees : ~ Completed(k)
    BY <2>1 DEF Completed, Shape, Generatable
  <2>4. Numbered
    <3> SUFFICES ASSUME NEW f \in 1 .. Len(functions) PROVE functions[f].name # "main"
      BY DEF Numbered
    <3>1. Symbols /\ Begun = 0
      BY <2>1, MeaningInit DEF MeaningInv, SymbolsInv, Begun
    <3>2. CASE f \in 1 .. 2
      BY <3>1, <3>2 DEF Symbols, LibrarySymbols
    <3>3. CASE f \in 3 .. Len(functions)
      BY <3>1, <3>3 DEF Symbols, Symbol, Renamed
    <3> QED BY <3>2, <3>3
  <2> QED BY <2>2, <2>3, <2>4, MeaningInit DEF Placed
<1>2. Inv /\ [Next]_vars => Inv'
  <2> SUFFICES ASSUME Inv, [Next]_vars PROVE Inv'
    OBVIOUS
  <2>1. Shape /\ Shape' /\ CallsInv /\ SymbolsInv /\ Rooted /\ Callees /\ BodyInv
    BY CallsInvStays DEF MeaningInv
  <2>2. OrderInv' /\ Numbered'
    BY <2>1, OrderInvStays, NumberedStays
  <2> QED BY <2>1, <2>2, MeaningInvStays, OnwardStays, PlacedStays
<1>3. Inv => EffectsInOrder
  <2> SUFFICES ASSUME Inv, NEW k \in DOMAIN program.trees, Completed(k), HasBlock(k),
                      NEW name, name = Source!NameOf(program, k), NEW b, b = BlockOf(k),
                      NEW body, body = Source!Body(program, k),
                      NEW calls, calls = Source!CallsIn(program, k)
               PROVE  IF nodes[body].kind = "cond"
                        THEN LET f == Named(functions, name)
                                 end == values[Last(functions[f].blocks[b])] IN
                             /\ CallsOf(f, b) = calls[nodes[body].kids[1]]
                             /\ CallsOf(f, end.of[1]) = calls[nodes[body].kids[2]]
                             /\ CallsOf(f, end.of[2]) = calls[nodes[body].kids[3]]
                        ELSE CallsOf(Named(functions, name), b) = calls[body]
    BY DEF EffectsInOrder, HasBlock, BlockOf
  <2>1. PICK f \in 1 .. Len(functions) : functions[f].name = name /\ CallsPlaced(f, b, body, calls)
    BY DEF Placed, CallsKept
  <2>2. Shape /\ Symbols
    BY DEF MeaningInv, CallsInv, SymbolsInv
  <2>3. name # Renamed
    <3>1. program.trees[k] \in DOMAIN nodes /\ nodes[program.trees[k]].kind = "motif"
      BY <2>2 DEF Shape, Generatable, nodes, HasBlock, Source!HasBody, Source!IsMotif
    <3>2. nodes[program.trees[k]].kids[1] \in DOMAIN nodes
      BY <2>2, <3>1, NodeFacts DEF Shape
    <3>3. name = nodes[nodes[program.trees[k]].kids[1]].name
      BY <3>1 DEF Source!NameOf, Source!Proto, Source!IsMotif, nodes
    <3> QED BY <2>2, <3>2, <3>3, NamesArePlain DEF Shape
  <2>4. Named(functions, name) = f
    BY <2>1, <2>2, <2>3, NamedIs
  <2> QED BY <2>1, <2>2, <2>4, PlacedRead
<1> HIDE DEF Inv
<1> QED BY <1>1, <1>2, <1>3, PTL DEF Spec
=============================================================================
