-------------------------- MODULE CodeGeneratorWalk --------------------------
(***************************************************************************)
(* What the generator knows while it walks a body, for every program.      *)
(*                                                                         *)
(* Walk says which child each call of getValue is for, and Symbols which   *)
(* function each name stands for: the first declaration of it, with its    *)
(* parameters.  With those, Bound says whose parameters are in             *)
(* namedValues.                                                            *)
(*                                                                         *)
(* A value matches a node when it reads back as what the node means and    *)
(* has its type.  That every value getValue returns matches would be       *)
(* false: an expression at top level may use a variable that is left of    *)
(* another tree, and a cond within an expression returns the branch that   *)
(* it ends with.  What is true is that either the values match, or the     *)
(* motif can no more be verified (Doomed): an instruction is in it that    *)
(* the verifier refuses, or a value waits that no instruction can use.     *)
(*                                                                         *)
(* Terms, types and meanings are defined by recursion over values and      *)
(* nodes.  Each definition is an instance of the module Recursion, which   *)
(* says that it solves its equation; an operand is older than its value,   *)
(* and a child than its parent.                                            *)
(***************************************************************************)
EXTENDS CodeGeneratorProofs

-----------------------------------------------------------------------------
(* The recursive definitions, unfolded once *)

\* The tree in progress, or the one that was.
Tree == next - 1

TermStep(f, v) == TermOf(values[v], [i \in DOMAIN values[v].args |-> f[values[v].args[i]]])

KidsAt(n)      == nodes[n].kids
TreeStep(f, n) == Source!TermOf(program, Tree, n, [i \in DOMAIN KidsAt(n) |-> f[KidsAt(n)[i]]])
TypeStep(f, n) == Source!TypeOf(program, Tree, n, [i \in DOMAIN KidsAt(n) |-> f[KidsAt(n)[i]]])
FoldStep(f, n) ==
  \/ nodes[n].kind = "number"
  \/ nodes[n].kind = "binary" /\ \A m \in Source!Range(KidsAt(n)) : f[m]

ValueTerms == INSTANCE Recursion WITH Step <- TermStep
TreeTerms  == INSTANCE Recursion WITH Step <- TreeStep
TreeTypes  == INSTANCE Recursion WITH Step <- TypeStep
TreeFolds  == INSTANCE Recursion WITH Step <- FoldStep

LEMMA KidsAreOlder ==
  ASSUME Generatable(program)
  PROVE  /\ Len(nodes) \in Nat /\ DOMAIN nodes = 1 .. Len(nodes)
         /\ \A n \in 1 .. Len(nodes) : \A i \in DOMAIN KidsAt(n) :
              KidsAt(n)[i] \in 1 .. n - 1
  BY DEF Generatable, nodes, KidsAt

LEMMA TermsLook ==
  ASSUME ValuesOK(values)
  PROVE  ValueTerms!Looks(Len(values))
<1>1. SUFFICES ASSUME NEW v \in 1 .. Len(values), NEW g, NEW h,
                      \A u \in 1 .. v - 1 : g[u] = h[u]
               PROVE  TermStep(g, v) = TermStep(h, v)
  BY DEF ValueTerms!Looks
<1>2. \A i \in DOMAIN values[v].args : values[v].args[i] \in 1 .. v - 1
  BY DEF ValuesOK, Older
<1>3. [i \in DOMAIN values[v].args |-> g[values[v].args[i]]]
      = [i \in DOMAIN values[v].args |-> h[values[v].args[i]]]
  BY <1>1, <1>2
<1> QED BY <1>3 DEF TermStep

\* What the values read back as.
LEMMA TermsSolve ==
  ASSUME ValuesOK(values)
  PROVE  /\ Terms = [v \in 1 .. Len(values) |-> TermStep(Terms, v)]
         /\ Len(values) \in Nat
<1>1. Len(values) \in Nat /\ DOMAIN values = 1 .. Len(values)
  BY DEF ValuesOK
<1>2. Terms = CHOOSE g : g = [v \in 1 .. Len(values) |-> TermStep(g, v)]
  BY <1>1 DEF Terms, TermStep
<1> HIDE DEF Terms
<1> QED BY <1>1, <1>2, TermsLook, ValueTerms!Solves

LEMMA TreesLook ==
  ASSUME Generatable(program)
  PROVE  /\ TreeTerms!Looks(Len(nodes)) /\ TreeTypes!Looks(Len(nodes))
         /\ TreeFolds!Looks(Len(nodes))
<1> USE KidsAreOlder
<1>1. ASSUME NEW n \in 1 .. Len(nodes), NEW g, NEW h, \A u \in 1 .. n - 1 : g[u] = h[u]
      PROVE  /\ TreeStep(g, n) = TreeStep(h, n) /\ TypeStep(g, n) = TypeStep(h, n)
             /\ FoldStep(g, n) = FoldStep(h, n)
  <2>1. [i \in DOMAIN KidsAt(n) |-> g[KidsAt(n)[i]]] = [i \in DOMAIN KidsAt(n) |-> h[KidsAt(n)[i]]]
    BY <1>1
  <2>2. TreeStep(g, n) = TreeStep(h, n) /\ TypeStep(g, n) = TypeStep(h, n)
    BY <2>1 DEF TreeStep, TypeStep
  <2>3. \A m \in Source!Range(KidsAt(n)) : g[m] = h[m]
    BY <1>1 DEF Source!Range
  <2>4. FoldStep(g, n) = FoldStep(h, n)
    BY <2>3 DEF FoldStep
  <2> QED BY <2>2, <2>4
<1>2. TreeTerms!Looks(Len(nodes))
  BY <1>1 DEF TreeTerms!Looks
<1>3. TreeTypes!Looks(Len(nodes))
  BY <1>1 DEF TreeTypes!Looks
<1>4. TreeFolds!Looks(Len(nodes))
  BY <1>1 DEF TreeFolds!Looks
<1> QED BY <1>2, <1>3, <1>4

MeaningOf(n) == Source!TermsIn(program, Tree)[n]
TypeOfNode(n) == Source!TypesIn(program, Tree)[n]
Folded(n) == Source!Constants(program)[n]

\* What the nodes of the tree mean.
LEMMA TreesSolve ==
  ASSUME Generatable(program), NEW n \in DOMAIN nodes
  PROVE  /\ MeaningOf(n) =
              Source!TermOf(program, Tree, n, [i \in DOMAIN KidsAt(n) |-> MeaningOf(KidsAt(n)[i])])
         /\ TypeOfNode(n) =
              Source!TypeOf(program, Tree, n, [i \in DOMAIN KidsAt(n) |-> TypeOfNode(KidsAt(n)[i])])
         /\ Folded(n) =
              (\/ nodes[n].kind = "number"
               \/ nodes[n].kind = "binary" /\ \A m \in Source!Range(KidsAt(n)) : Folded(m))
<1>1. Len(nodes) \in Nat /\ DOMAIN nodes = 1 .. Len(nodes) /\ nodes = program.nodes
  BY KidsAreOlder DEF nodes
<1>2. Source!TermsIn(program, Tree) = CHOOSE g : g = [m \in 1 .. Len(nodes) |-> TreeStep(g, m)]
  BY <1>1 DEF Source!TermsIn, TreeStep, KidsAt
<1>3. Source!TypesIn(program, Tree) = CHOOSE g : g = [m \in 1 .. Len(nodes) |-> TypeStep(g, m)]
  BY <1>1 DEF Source!TypesIn, TypeStep, KidsAt
<1>4. Source!Constants(program) = CHOOSE g : g = [m \in 1 .. Len(nodes) |-> FoldStep(g, m)]
  <2>1. DOMAIN program.nodes = 1 .. Len(nodes)
    BY <1>1
  <2> QED BY <2>1, Zenon DEF Source!Constants, FoldStep, KidsAt, nodes
<1>5. MeaningOf(n) = TreeStep(Source!TermsIn(program, Tree), n)
  BY <1>1, <1>2, TreesLook, TreeTerms!Solves DEF MeaningOf
<1>6. TypeOfNode(n) = TypeStep(Source!TypesIn(program, Tree), n)
  BY <1>1, <1>3, TreesLook, TreeTypes!Solves DEF TypeOfNode
<1>7. Folded(n) = FoldStep(Source!Constants(program), n)
  BY <1>1, <1>4, TreesLook, TreeFolds!Solves DEF Folded
<1> QED BY <1>5, <1>6, <1>7 DEF TreeStep, TypeStep, FoldStep, MeaningOf, TypeOfNode, Folded

-----------------------------------------------------------------------------
(* The walk *)

\* The child that is generated i-th: the branches of a cond come first, and
\* a motif begins with its prototype.
KidAt(kind, i) ==
  CASE kind = "cond"  -> IF i = 3 THEN 1 ELSE i + 1
    [] kind = "motif" -> i + 1
    [] OTHER          -> i

KidOf(f, i) == nodes[f.node].kids[KidAt(nodes[f.node].kind, i)]

\* A call of getValue is for the next child of the one it is made from.
Walk ==
  /\ stack # <<>> => next > 1 /\ stack[1].node = program.trees[Tree]
  /\ \A j \in 1 .. Len(stack) - 1 :
       stack[j + 1].node = KidOf(stack[j], Len(stack[j].got) + 1)

\* A motif has got nothing before its body is done.
Rooted ==
  /\ Len(stack) >= 2 => stack[1].got = <<>> /\ Len(nodes[stack[1].node].kids) = 2
  /\ Len(stack) = 1 => stack[1].got = <<>> \/ Len(nodes[stack[1].node].kids) = 2

\* A call that waits for its arguments is for the function of its name.
Callees ==
  \A j \in 1 .. Len(stack) :
    (nodes[stack[j].node].kind = "call" /\ stack[j].of # <<>>) =>
      functions[stack[j].of[1]].name = nodes[stack[j].node].name

-----------------------------------------------------------------------------
(* Symbols *)

\* The trees whose prototype is in the module: not one that has only begun.
Begun == IF stack # <<>> /\ ~ Entered(stack) THEN next - 2 ELSE next - 1

\* A function that tree k declares.
DeclaredBy(f, k) ==
  /\ Source!IsFresh(program, k) /\ Source!NameOf(program, k) = functions[f].name
  /\ Len(functions[f].params) = Len(Source!ParamsOf(program, k))

Symbol(f) ==
  /\ ~ functions[f].vararg
  /\ \A i \in DOMAIN functions[f].params : functions[f].params[i] = "double"
  /\ functions[f].name # Renamed =>
       /\ functions[f].result = Source!ResultOf(functions[f].name)
       /\ \E k \in 1 .. Begun : DeclaredBy(f, k)

LibrarySymbols ==
  /\ Len(functions) >= 2
  /\ functions[1].name = "printf" /\ functions[1].params = <<"i8*">>
  /\ functions[2].name = "print" /\ functions[2].params = <<"double">>
  /\ functions[2].result = "void" /\ ~ functions[2].vararg

Symbols ==
  /\ LibrarySymbols
  /\ \A f \in 3 .. Len(functions) : Symbol(f)
  /\ \A f \in 1 .. Len(functions), g \in 1 .. Len(functions) :
       functions[f].name = functions[g].name /\ functions[f].name # Renamed => f = g
  /\ \A k \in 1 .. Begun : \E f \in 1 .. Len(functions) :
       functions[f].name = Source!NameOf(program, k)

MadeOK(v) ==
  /\ v.op = "br" => v.type = "void"
  /\ v.op \in {"br", "param", "call"} => ~ v.constant

\* The values as the constructors make them, and those that names stand for.
Made ==
  /\ \A v \in 1 .. Len(values) : MadeOK(values[v])
  /\ \A x \in DOMAIN namedValues :
       /\ values[namedValues[x]].op = "param" /\ values[namedValues[x]].type = "double"
       /\ values[namedValues[x]].of[1] = Len(functions)
       /\ functions[Len(functions)].params # <<>>

\* The tree in progress declares its name, or is an expression.
Tracked == Source!IsFresh(program, Tree) \/ Source!DeclaredOnce(program)

Bound ==
  Entered(stack) =>
    /\ functions[currentFunction].name = Source!NameOf(program, Tree)
    /\ Source!IsFresh(program, Tree) =>
         /\ currentFunction = Len(functions) /\ currentBB = <<currentFunction, 1>>
         /\ \A x \in DOMAIN namedValues :
              /\ x \in Source!Range(Source!ParamsOf(program, Tree))
              /\ values[namedValues[x]].of[2] =
                   Max({ i \in DOMAIN Source!ParamsOf(program, Tree) :
                           Source!ParamsOf(program, Tree)[i] = x })

\* If every name is declared once, namedValues is the last declaration's.
FreshTrees(n) == { j \in 1 .. n : Source!IsFresh(program, j) }

LastNames ==
  Source!DeclaredOnce(program) =>
    \A x \in DOMAIN namedValues :
      /\ FreshTrees(Begun) # {}
      /\ x \in Source!Range(Source!ParamsOf(program, Max(FreshTrees(Begun))))

SymbolsInv == Walk /\ Symbols /\ Made /\ Bound

-----------------------------------------------------------------------------
(* Motifs that cannot be verified *)

\* Something in the function is not verified.
Broken ==
  \E v \in 1 .. Len(values) :
    /\ InBlocks(functions, currentFunction, v)
    /\ ~ InstructionVerified(functions, values, currentFunction, values[v])

\* No instruction of the function can use it.
Foreign(v) ==
  \/ values[v].op = "br"
  \/ values[v].op = "param" /\ values[v].of[1] # currentFunction

\* What a call of getValue in progress has got and not used yet.  A cond
\* returns the value of a branch as soon as it goes on.
Unspent(s, j, i) ==
  /\ i \in DOMAIN s[j].got
  /\ nodes[s[j].node].kind = "cond" => i = Len(s[j].got) /\ j = Len(s)

Nested ==
  \E j \in 2 .. Len(stack) :
    \/ j > 2 /\ nodes[stack[j].node].kind = "cond"
    \/ \E i \in DOMAIN stack[j].got : Unspent(stack, j, i) /\ Foreign(stack[j].got[i])

Doomed == Broken \/ Nested

-----------------------------------------------------------------------------
(* Motifs that may be *)

\* Value v is what node n means.
Matches(v, n) ==
  /\ Terms[v] = MeaningOf(n)
  /\ values[v].constant => Folded(n)
  /\ ~ Source!MixesConstants(program) =>
       /\ values[v].type = TypeOfNode(n)
       /\ values[v].constant => values[v].type = "double" \/ nodes[n].name = "<"

Matched == { vn \in (1 .. Len(values)) \X DOMAIN nodes : Matches(vn[1], vn[2]) }

PairsIn(s, M) ==
  \A j \in 2 .. Len(s) : \A i \in DOMAIN s[j].got :
    Unspent(s, j, i) => <<s[j].got[i], KidOf(s[j], i)>> \in M

Body == nodes[program.trees[Tree]].kids[2]

InBlock(fs, f, b, v) == \E i \in DOMAIN fs[f].blocks[b] : fs[f].blocks[b][i] = v

\* Block b returns the value of node n.
RetIn(fs, vs, M, f, b, n) ==
  \E v \in 1 .. Len(vs), r \in 1 .. Len(vs) :
    InBlock(fs, f, b, v) /\ vs[v] = ReturnOf(<<r>>) /\ <<r, n>> \in M

\* The body is a variable that is bound, and not by this motif.
StaleBody ==
  /\ ~ Source!IsFresh(program, Tree)
  /\ nodes[Body].kind = "variable" /\ nodes[Body].name \in DOMAIN namedValues

PlainLayout ==
  /\ insertion = currentBB /\ shouldReturn
  /\ (Len(stack) = 1 /\ stack[1].got # <<>>) =>
       StaleBody \/ <<stack[1].got[1], Body>> \in Matched

\* How many of the three children of the body have been begun.
Turn == Len(stack[2].got) + (IF Len(stack) > 2 THEN 1 ELSE 0)

CondKid(i) == nodes[Body].kids[i]

Returning(b, n) == RetIn(functions, values, Matched, currentFunction, b, n)

\* The blocks there are while the body is in progress, ...
CondOpen ==
  LET of == stack[2].of IN
  /\ Turn \in 0 .. 3
  /\ Len(of) = IF Turn < 2 THEN Turn ELSE 2
  /\ insertion = IF Turn \in {0, 3} THEN currentBB ELSE <<currentFunction, of[Turn]>>
  /\ \A i \in 1 .. Len(of) : of[i] \in 1 .. Len(functions[currentFunction].blocks)
  /\ Turn >= 2 => Returning(of[1], CondKid(2))
  /\ Turn = 3 => Returning(of[2], CondKid(3))

\* ... and when it is done.
DoneBy(v, c, b1, b2) ==
  /\ stack[1].got = <<v>>
  /\ InBlock(functions, currentFunction, currentBB[2], v)
  /\ values[v] = Branch(c, <<b1, b2>>)
  /\ <<c, CondKid(1)>> \in Matched
  /\ Returning(b1, CondKid(2)) /\ Returning(b2, CondKid(3))

CondDone ==
  \E v \in 1 .. Len(values), c \in 1 .. Len(values) :
  \E b1, b2 \in 1 .. Len(functions[currentFunction].blocks) : DoneBy(v, c, b1, b2)

CondLayout == IF Len(stack) >= 2 THEN CondOpen ELSE CondDone

IsCond == Len(nodes[program.trees[Tree]].kids) = 2 /\ nodes[Body].kind = "cond"

Good ==
  /\ PairsIn(stack, Matched)
  /\ IF IsCond THEN CondLayout ELSE PlainLayout

BodyInv == Entered(stack) /\ Tracked => Doomed \/ Good
-----------------------------------------------------------------------------
(* What a step does to the stack *)

\* The calls in progress below m stay.
Below(s, t, m) == \A j \in 1 .. m : t[j] = s[j]

LEMMA VisitFrames ==
  ASSUME NEW S, NEW s \in Seq(S), NEW kid
  PROVE  LET t == Append(s, Frame(kid)) IN
         /\ Len(s) \in Nat /\ Len(t) = Len(s) + 1 /\ Below(s, t, Len(s))
         /\ t[Len(s) + 1] = [node |-> kid, got |-> <<>>, of |-> <<>>]
  BY AppendProperties DEF Frame, Below

LEMMA WithFrames ==
  ASSUME Shape, stack # <<>>, NEW of \in Seq(Nat)
  PROVE  LET t == With(of) IN
         /\ t \in Seq(FrameType(nodes, Len(values)))
         /\ Len(stack) \in Nat \ {0} /\ Len(t) = Len(stack) /\ Below(stack, t, Len(stack) - 1)
         /\ t[Len(stack)].node = Top.node /\ t[Len(stack)].got = Top.got
         /\ t[Len(stack)].of = of
<1> DEFINE F == FrameType(nodes, Len(values))
           f == [Top EXCEPT !.of = of]
<1>1. stack \in Seq(F)
  BY DEF Shape, StackOK
<1>2. f \in F /\ f.got = Top.got /\ f.node = Top.node /\ f.of = of
  <2> DEFINE e == Top
  <2>1. e \in F
    BY TopFacts
  <2> HIDE DEF e
  <2> QED  BY <2>1 DEF FrameType, e
<1>3. With(of) = Replace(stack, f)
  BY DEF With, Replace
<1> HIDE DEF f, F
<1>4. /\ Replace(stack, f) \in Seq(F) /\ Len(Replace(stack, f)) = Len(stack)
      /\ Len(stack) \in Nat \ {0}
      /\ Replace(stack, f)[Len(stack)] = f
      /\ \A i \in 1 .. Len(stack) - 1 : Replace(stack, f)[i] = stack[i]
  BY <1>1, <1>2, Replaced
<1> QED  BY <1>2, <1>3, <1>4 DEF F, Below

LEMMA ReturnedFrames ==
  ASSUME Shape, Len(stack) >= 2, NEW v \in Nat
  PROVE  LET t == Returned(v)
             k == Len(stack) - 1
         IN /\ k \in Nat \ {0} /\ Len(t) = k /\ Below(stack, t, k - 1)
            /\ t[k].node = stack[k].node /\ t[k].of = stack[k].of
            /\ t[k].got = Append(stack[k].got, v) /\ stack[k].got \in Seq(1 .. Len(values))
<1> DEFINE F == [node : DOMAIN nodes, got : Seq(Nat), of : Seq(Nat)]
           r == Front(stack)
           e == Last(r)
           f == [e EXCEPT !.got = Append(@, v)]
<1>1. stack \in Seq(F) /\ stack \in Seq(FrameType(nodes, Len(values)))
  BY ShapeTypes DEF TypeOK, Shape, StackOK
<1>2. PICK k \in Nat : k = Len(stack) /\ k >= 2
  BY <1>1, LenProperties
<1>3. r \in Seq(F) /\ Len(r) = k - 1 /\ \A i \in 1 .. k - 1 : r[i] = stack[i]
  <2>1. stack # <<>>
    BY <1>1, <1>2
  <2> HIDE DEF F
  <2> QED  BY <1>1, <1>2, <2>1, LastOfSeq
<1>4. r # <<>>
  BY <1>2, <1>3
<1> HIDE DEF r
<1>5. e \in F /\ e = stack[k - 1]
  <2>1. e = r[k - 1] /\ e \in F
    <3> HIDE DEF F
    <3> QED  BY <1>3, <1>4, LastOfSeq
  <2>2. k - 1 \in 1 .. k - 1
    BY <1>2
  <2> QED  BY <1>3, <2>1, <2>2
<1> HIDE DEF e
<1>6. f \in F /\ f.got = Append(e.got, v) /\ f.node = e.node /\ f.of = e.of
  <2>1. Append(e.got, v) \in Seq(Nat)
    BY <1>5, AppendProperties
  <2> QED  BY <1>5, <2>1
<1>7. stack[k - 1].got \in Seq(1 .. Len(values))
  <2>1. k - 1 \in 1 .. Len(stack)
    BY <1>2
  <2>2. stack[k - 1] \in FrameType(nodes, Len(values))
    BY <1>1, <2>1
  <2> QED  BY <2>2 DEF FrameType
<1> HIDE DEF f, F
<1>8. /\ Len(Replace(r, f)) = k - 1 /\ Replace(r, f)[k - 1] = f
      /\ \A i \in 1 .. (k - 1) - 1 : Replace(r, f)[i] = r[i]
  <2>1. /\ Replace(r, f) \in Seq(F) /\ Len(Replace(r, f)) = Len(r)
        /\ Len(r) \in Nat \ {0} /\ Replace(r, f)[Len(r)] = f
        /\ \A i \in 1 .. Len(r) - 1 : Replace(r, f)[i] = r[i]
    <3>1. r \in Seq(F)
      BY <1>3
    <3>2. f \in F
      BY <1>6
    <3> QED BY <3>1, <3>2, <1>4, Replaced
  <2> QED BY <1>3, <2>1
<1>9. Returned(v) = Replace(r, f)
  BY <1>4, Zenon DEF Returned, Replace, r, f, e
<1>10. \A i \in 1 .. (k - 1) - 1 : i \in 1 .. k - 1
  BY <1>2
<1>11. Below(stack, Returned(v), (k - 1) - 1)
  BY <1>3, <1>8, <1>9, <1>10 DEF Below
<1>12. /\ k - 1 \in Nat \ {0} /\ Len(Returned(v)) = k - 1
       /\ Returned(v)[k - 1].node = stack[k - 1].node /\ Returned(v)[k - 1].of = stack[k - 1].of
       /\ Returned(v)[k - 1].got = Append(stack[k - 1].got, v)
  <2>1. k - 1 \in Nat \ {0}
    BY <1>2
  <2> QED BY <1>5, <1>6, <1>8, <1>9, <2>1
<1> QED  BY <1>2, <1>7, <1>11, <1>12
Marks ==
  LET m == Len(stack) IN
  /\ Len(stack') = m /\ Below(stack, stack', m - 1)
  /\ stack'[m].node = stack[m].node /\ stack'[m].got = stack[m].got

Pushes ==
  LET m == Len(stack) IN
  /\ Len(stack') = m + 1 /\ Below(stack, stack', m - 1)
  /\ stack'[m].node = stack[m].node /\ stack'[m].got = stack[m].got
  /\ stack'[m + 1].node = KidOf(stack[m], Len(stack[m].got) + 1)
  /\ stack'[m + 1].got = <<>> /\ stack'[m + 1].of = <<>>

Pops(v) ==
  LET k == Len(stack) - 1 IN
  /\ k >= 1 /\ Len(stack') = k /\ Below(stack, stack', k - 1)
  /\ stack'[k].node = stack[k].node /\ stack'[k].of = stack[k].of
  /\ stack'[k].got = Append(stack[k].got, v)

Moves == Marks \/ Pushes \/ \E v \in Nat : Pops(v)

LEMMA TopIs ==
  ASSUME Shape, stack # <<>>
  PROVE  /\ Len(stack) \in Nat \ {0} /\ stack \in Seq(FrameType(nodes, Len(values)))
         /\ Top = stack[Len(stack)] /\ TopNode = nodes[stack[Len(stack)].node]
         /\ Top.got \in Seq(1 .. Len(values)) /\ Len(Top.got) \in Nat
<1>1. stack \in Seq(FrameType(nodes, Len(values)))
  BY DEF Shape, StackOK
<1> QED BY <1>1, TopFacts, EmptySeq DEF TopNode

LEMMA VisitPushes ==
  ASSUME Shape, stack # <<>>, NEW k, k = KidAt(TopNode.kind, Len(Top.got) + 1),
         stack' = Visit(stack, k)
  PROVE  Pushes /\ stack'[Len(stack)] = stack[Len(stack)]
<1>1. PICK m \in Nat \ {0} : m = Len(stack)
  BY TopIs
<1>2. TopNode.kids[k] = KidOf(stack[m], Len(stack[m].got) + 1)
  BY <1>1, TopIs DEF KidOf, TopNode
<1>3. /\ Len(stack') = m + 1 /\ Below(stack, stack', m)
      /\ stack'[m + 1] = [node |-> TopNode.kids[k], got |-> <<>>, of |-> <<>>]
  BY <1>1, TopIs, VisitFrames DEF Visit
<1>4. Below(stack, stack', m - 1) /\ stack'[m] = stack[m]
  BY <1>1, <1>3 DEF Below
<1> QED BY <1>1, <1>2, <1>3, <1>4 DEF Pushes

LEMMA VisitWithPushes ==
  ASSUME Shape, stack # <<>>, NEW k, k = KidAt(TopNode.kind, Len(Top.got) + 1),
         NEW of \in Seq(Nat), stack' = Visit(With(of), k)
  PROVE  Pushes /\ stack'[Len(stack)].of = of
<1> DEFINE s == With(of)
<1>1. PICK m \in Nat \ {0} : m = Len(stack)
  BY TopIs
<1>2. TopNode.kids[k] = KidOf(stack[m], Len(stack[m].got) + 1)
  BY <1>1, TopIs DEF KidOf, TopNode
<1>3. /\ s \in Seq(FrameType(nodes, Len(values)))
      /\ Len(s) = m /\ Below(stack, s, m - 1)
      /\ s[m].node = stack[m].node /\ s[m].got = stack[m].got /\ s[m].of = of
  BY <1>1, TopIs, WithFrames
<1> HIDE DEF s
<1>4. stack' = Append(s, Frame(TopNode.kids[k]))
  BY DEF Visit, s
<1>5. /\ Len(stack') = m + 1 /\ Below(s, stack', m)
      /\ stack'[m + 1] = [node |-> TopNode.kids[k], got |-> <<>>, of |-> <<>>]
  <2>1. LET t == Append(s, Frame(TopNode.kids[k])) IN
        /\ Len(t) = Len(s) + 1 /\ Below(s, t, Len(s))
        /\ t[Len(s) + 1] = [node |-> TopNode.kids[k], got |-> <<>>, of |-> <<>>]
    BY <1>3, VisitFrames
  <2>2. Len(s) = m
    BY <1>3
  <2> QED BY <1>4, <2>1, <2>2, Zenon
<1>6. stack'[m] = s[m]
  BY <1>1, <1>5 DEF Below
<1>7. Below(stack, stack', m - 1)
  <2>1. \A j \in 1 .. m - 1 : j \in 1 .. m
    BY <1>1
  <2>2. \A j \in 1 .. m - 1 : stack'[j] = s[j]
    BY <1>5, <2>1, Zenon DEF Below
  <2>3. \A j \in 1 .. m - 1 : s[j] = stack[j]
    BY <1>3, Zenon DEF Below
  <2> QED BY <2>2, <2>3, Zenon DEF Below
<1> QED BY <1>1, <1>2, <1>3, <1>5, <1>6, <1>7 DEF Pushes

LEMMA WithMarks ==
  ASSUME Shape, stack # <<>>, NEW of \in Seq(Nat), stack' = With(of)
  PROVE  Marks /\ stack'[Len(stack)].of = of
  BY WithFrames, TopIs DEF Marks

LEMMA ReturnPops ==
  ASSUME Shape, stack # <<>>, TopNode.kind \in ExpressionKinds, NEW v \in Nat,
         stack' = Returned(v)
  PROVE  Pops(v)
<1>1. PICK m \in Nat : m = Len(stack) /\ m >= 2
  BY TopFacts, TopIs
<1>2. /\ Len(stack') = m - 1 /\ Below(stack, stack', m - 2)
      /\ stack'[m - 1].node = stack[m - 1].node /\ stack'[m - 1].of = stack[m - 1].of
      /\ stack'[m - 1].got = Append(stack[m - 1].got, v)
  <2>1. LET t == Returned(v)
            k == Len(stack) - 1
        IN /\ k \in Nat \ {0} /\ Len(t) = k /\ Below(stack, t, k - 1)
           /\ t[k].node = stack[k].node /\ t[k].of = stack[k].of
           /\ t[k].got = Append(stack[k].got, v)
    BY <1>1, ReturnedFrames
  <2>2. Len(stack) - 1 = m - 1 /\ (m - 1) - 1 = m - 2
    BY <1>1
  <2> QED BY <2>1, <2>2
<1>3. (m - 1) - 1 = m - 2 /\ m - 1 >= 1
  BY <1>1
<1> QED BY <1>1, <1>2, <1>3 DEF Pops
-----------------------------------------------------------------------------
(* The steps between the beginning of a motif and its end *)

Idle == UNCHANGED <<program, next, stack, module, fields>>

ValueSteps == Number \/ BinaryOperation \/ BuildCall \/ BuildBranch
VisitSteps == Operand \/ Argument \/ BeginIf \/ BeginElse \/ BeginCondition

BodyStep == ValueSteps \/ Variable \/ VisitSteps \/ BeginCall

\* The motif is done, and verified.
Ends ==
  /\ EndMotif /\ stack' = <<>>
  /\ program' = program /\ next' = next /\ control' = control /\ namedValues' = namedValues

LEMMA StepKinds ==
  ASSUME Shape, [Next]_vars
  PROVE  Idle \/ BodyStep \/ BeginTree \/ Prototype \/ BeginMotif \/ BeginKnownMotif \/ Ends
<1>1. CASE Generate
  BY <1>1 DEF Generate, Write, Halt, Idle
<1>2. CASE UnknownVariable \/ UnknownOperator
  BY <1>2 DEF UnknownVariable, UnknownOperator, Halt, Idle
<1>3. CASE EndMotif
  <2>1. CASE Halt("aborted")
    BY <2>1 DEF Halt, Idle
  <2>2. CASE ~ Halt("aborted")
    <3>1. /\ stack # <<>> /\ TopNode.kind \notin ExpressionKinds
          /\ stack' = Returned(Top.of[1]) /\ program' = program /\ next' = next
          /\ control' = control /\ namedValues' = namedValues
      BY <1>3, <2>2 DEF EndMotif, At, ExpressionKinds
    <3>2. stack' = <<>>
      BY <3>1, RootReturns
    <3> QED BY <1>3, <3>1, <3>2 DEF Ends
  <2> QED BY <2>1, <2>2
<1>4. CASE UNCHANGED vars
  BY <1>4 DEF vars, Idle
<1>5. CASE Ended
  BY <1>5 DEF Ended, vars, Idle
<1> QED BY <1>1, <1>2, <1>3, <1>4, <1>5
     DEF Next, GetValue, BodyStep, ValueSteps, VisitSteps

\* What the constructor of an instruction does.
Builds(v) ==
  /\ values' = Append(values, v) /\ stack' = Returned(Len(values) + 1)
  /\ functions' = IF v.constant THEN functions
                                ELSE InsertInto(functions, insertion, Len(values) + 1)
  /\ UNCHANGED <<program, next, control, insertion, fields>>

LEMMA EmitCases == ASSUME NEW v, EmitChecked(v) PROVE Idle \/ Builds(v)
  BY DEF EmitChecked, Halt, Idle, Yield, Emit, Builds

\* Which value that is.
Built ==
  IF TopNode.kind = "number" THEN Constant("number", "double", <<Top.node>>)
  ELSE IF TopNode.kind = "binary" THEN Operation(values, TopNode.name, Got(1), Got(2))
  ELSE IF TopNode.kind = "call" THEN CallOf(functions, Top.of[1], Top.got)
  ELSE Branch(Got(3), Top.of)

\* When it is built.
Ready ==
  /\ TopNode.kind \in {"number", "binary", "call", "cond"}
  /\ TopNode.kind = "number" => Len(Top.got) = 0
  /\ TopNode.kind = "binary" =>
       Len(Top.got) = 2 /\ TopNode.name \in Arithmetic \cup {"<"}
  /\ TopNode.kind = "call" => Len(Top.got) = Len(TopNode.kids) /\ Top.of # <<>>
  /\ TopNode.kind = "cond" => Len(Top.got) = 3

LEMMA ValuesBuild ==
  ASSUME Shape, ValueSteps
  PROVE  /\ stack # <<>> /\ TopNode.kind \in ExpressionKinds /\ Ready
         /\ Idle \/ Builds(Built)
<1>0. Ready
  BY DEF Ready, ValueSteps, Number, BinaryOperation, BuildCall, BuildBranch, InCall, At
<1>1. stack # <<>> /\ TopNode.kind \in ExpressionKinds
  BY DEF ValueSteps, Number, BinaryOperation, BuildCall, BuildBranch, InCall, At, ExpressionKinds
<1>2. CASE Number
  <2>1. TopNode.kind = "number"
    BY <1>2 DEF Number, At
  <2>2. Yield(Built) /\ Built.constant
    BY <1>2, <2>1 DEF Number, Built, Constant, Value
  <2> QED BY <1>0, <1>1, <2>2 DEF Yield, Builds
<1>3. CASE BinaryOperation
  <2>1. TopNode.kind = "binary"
    BY <1>3 DEF BinaryOperation, At
  <2>2. EmitChecked(Built)
    BY <1>3, <2>1 DEF BinaryOperation, Built
  <2> QED BY <1>0, <1>1, <2>2, EmitCases
<1>4. CASE BuildCall
  <2>1. TopNode.kind = "call"
    BY <1>4 DEF BuildCall, InCall, At
  <2>2. EmitChecked(Built)
    BY <1>4, <2>1 DEF BuildCall, Built
  <2> QED BY <1>0, <1>1, <2>2, EmitCases
<1>5. CASE BuildBranch
  <2>1. TopNode.kind = "cond"
    BY <1>5 DEF BuildBranch, At
  <2>2. EmitChecked(Built)
    BY <1>5, <2>1 DEF BuildBranch, Built
  <2> QED BY <1>0, <1>1, <2>2, EmitCases
<1> QED BY <1>2, <1>3, <1>4, <1>5 DEF ValueSteps

LEMMA VisitsPush ==
  ASSUME Shape, Entered(stack), VisitSteps
  PROVE  /\ stack # <<>> /\ Pushes
         /\ Operand \/ Argument \/ BeginCondition => stack'[Len(stack)] = stack[Len(stack)]
         /\ BeginIf \/ BeginElse =>
              stack'[Len(stack)].of =
                Append(Top.of, LastBlock(functions', currentFunction)[2])
<1>1. stack # <<>>
  BY DEF Entered
<1>2. CASE Operand
  <2>1. PICK k \in {1, 2} : stack' = Visit(stack, k) /\ k = Len(Top.got) + 1 /\ TopNode.kind = "binary"
    <3>1. CASE At("binary", 0) /\ stack' = Visit(stack, 1)
      BY <3>1 DEF At
    <3>2. CASE At("binary", 1) /\ stack' = Visit(stack, 2)
      BY <3>2 DEF At
    <3> QED BY <1>2, <3>1, <3>2 DEF Operand
  <2>2. k = KidAt(TopNode.kind, Len(Top.got) + 1)
    BY <2>1 DEF KidAt
  <2>3. ~ (BeginIf \/ BeginElse)
    BY <2>1 DEF BeginIf, BeginElse, At
  <2> QED BY <1>1, <2>1, <2>2, <2>3, VisitPushes
<1>3. CASE Argument
  <2>1. stack' = Visit(stack, Len(Top.got) + 1) /\ TopNode.kind = "call"
    BY <1>3 DEF Argument, InCall, At
  <2>2. Len(Top.got) + 1 = KidAt(TopNode.kind, Len(Top.got) + 1)
    BY <2>1 DEF KidAt
  <2>3. ~ (BeginIf \/ BeginElse)
    BY <2>1 DEF BeginIf, BeginElse, At
  <2> QED BY <1>1, <2>1, <2>2, <2>3, VisitPushes
<1>4. CASE BeginCondition
  <2>1. stack' = Visit(stack, 1) /\ TopNode.kind = "cond" /\ Len(Top.got) = 2
    BY <1>4 DEF BeginCondition, At
  <2>2. 1 = KidAt(TopNode.kind, Len(Top.got) + 1)
    BY <2>1 DEF KidAt
  <2>3. ~ (BeginIf \/ BeginElse)
    BY <2>1 DEF BeginIf, BeginElse, At
  <2> QED BY <1>1, <2>1, <2>2, <2>3, VisitPushes
<1>5. CASE BeginIf \/ BeginElse
  <2> DEFINE of == Append(Top.of, LastBlock(functions', currentFunction)[2])
  <2>1. PICK k \in {2, 3} : /\ stack' = Visit(With(of), k)
                            /\ TopNode.kind = "cond" /\ k = Len(Top.got) + 2
    <3>1. CASE BeginIf
      <4>1. TopNode.kind = "cond" /\ Len(Top.got) = 0 /\ stack' = Visit(With(of), 2)
        BY <3>1 DEF BeginIf, GenerateInto, At
      <4> HIDE DEF of
      <4> QED BY <4>1
    <3>2. CASE BeginElse
      <4>1. TopNode.kind = "cond" /\ Len(Top.got) = 1 /\ stack' = Visit(With(of), 3)
        BY <3>2 DEF BeginElse, GenerateInto, At
      <4> HIDE DEF of
      <4> QED BY <4>1
    <3> QED BY <1>5, <3>1, <3>2
  <2>2. k = KidAt(TopNode.kind, Len(Top.got) + 1)
    BY <2>1 DEF KidAt
  <2>3. ~ (Operand \/ Argument \/ BeginCondition)
    BY <1>5 DEF Operand, Argument, InCall, BeginCondition, BeginIf, BeginElse, At
  <2>4. of \in Seq(Nat)
    <3>1. Top.of \in Seq(Nat)
      BY <1>1, TopFacts
    <3>2. LastBlock(functions', currentFunction)[2] \in Nat
      <4>1. Shape'
        BY <1>5, BeginIfStep, BeginElseStep
      <4>2. functions' \in Seq(FunctionType(Len(values'))) /\ currentFunction \in 1 .. Len(functions')
        <5>1. [Next]_vars
          BY <1>5 DEF Next, GetValue
        <5>2. Len(functions) <= Len(functions') /\ currentFunction \in 1 .. Len(functions)
          BY <5>1, Step, EnteredFacts DEF Grown
        <5>3. functions' \in Seq(FunctionType(Len(values'))) /\ functions \in Seq(FunctionType(Len(values)))
          BY <4>1 DEF Shape
        <5>4. Len(functions) \in Nat /\ Len(functions') \in Nat
          BY <5>3, LenProperties
        <5> QED BY <5>2, <5>3, <5>4
      <4> QED BY <4>2, FunctionFacts DEF LastBlock
    <3> QED BY <3>1, <3>2, AppendProperties
  <2> QED BY <1>1, <2>1, <2>2, <2>3, <2>4, VisitWithPushes
<1> QED BY <1>2, <1>3, <1>4, <1>5 DEF VisitSteps

LEMMA MovesEntered ==
  ASSUME Shape, stack # <<>>, TopNode.kind \in ExpressionKinds, Moves
  PROVE  Entered(stack) /\ Entered(stack') /\ stack'[1].of = stack[1].of
         /\ stack'[1].node = stack[1].node /\ Len(stack) >= 2
<1>1. PICK m \in Nat : m = Len(stack) /\ m >= 2
  BY TopFacts, TopIs
<1>2. Entered(stack)
  BY TopFacts
<1>3. /\ stack'[1].of = stack[1].of /\ stack'[1].node = stack[1].node
      /\ Len(stack') >= 1
  <2>1. CASE Marks \/ Pushes
    <3>1. Below(stack, stack', m - 1) /\ Len(stack') \in {m, m + 1}
      BY <1>1, <2>1 DEF Marks, Pushes
    <3>2. 1 \in 1 .. m - 1
      BY <1>1
    <3> QED BY <1>1, <3>1, <3>2 DEF Below
  <2>2. ASSUME NEW v, Pops(v) 
             PROVE  /\ stack'[1].of = stack[1].of /\ stack'[1].node = stack[1].node
                    /\ Len(stack') >= 1
    <3>1. CASE m = 2
      BY <1>1, <2>2, <3>1 DEF Pops
    <3>2. CASE m > 2
      <4>1. 1 \in 1 .. (m - 1) - 1 /\ Below(stack, stack', (m - 1) - 1)
        BY <1>1, <2>2, <3>2 DEF Pops
      <4> QED BY <1>1, <2>2, <4>1 DEF Below, Pops
    <3> QED BY <1>1, <3>1, <3>2
  <2> QED BY <2>1, <2>2 DEF Moves
<1>4. stack' # <<>>
  BY <1>3
<1> QED BY <1>1, <1>2, <1>3, <1>4 DEF Entered
LEMMA BodyFacts ==
  ASSUME Shape, BodyStep
  PROVE  /\ stack # <<>> /\ TopNode.kind \in ExpressionKinds /\ Entered(stack)
         /\ Len(stack) >= 2
         /\ \/ Idle
            \/ /\ Moves /\ control' = control /\ Entered(stack')
               /\ stack'[1].of = stack[1].of /\ stack'[1].node = stack[1].node
               /\ program' = program /\ next' = next /\ namedValues' = namedValues
               /\ currentFunction' = currentFunction /\ currentBB' = currentBB
<1> DEFINE Same == /\ program' = program /\ next' = next /\ namedValues' = namedValues
                   /\ currentFunction' = currentFunction /\ currentBB' = currentBB
                   /\ control' = control
<1>1. stack # <<>> /\ TopNode.kind \in ExpressionKinds
  BY DEF BodyStep, ValueSteps, VisitSteps, Variable, Number, BinaryOperation, BuildCall, BuildBranch,
         Operand, Argument, InCall, BeginIf, BeginElse, BeginCondition, BeginCall, At,
         ExpressionKinds
<1>2. Entered(stack) /\ Len(stack) >= 2
  BY <1>1, TopFacts
<1>3. Idle \/ (Moves /\ Same)
  <2>1. CASE ValueSteps
    <3>1. SUFFICES ASSUME Builds(Built) PROVE Moves /\ Same
      BY <2>1, ValuesBuild
    <3>2. Len(values) + 1 \in Nat
      BY ValuesAreCounted
    <3>3. Pops(Len(values) + 1)
      BY <1>1, <3>1, <3>2, ReturnPops DEF Builds
    <3> QED BY <3>1, <3>2, <3>3 DEF Moves, Builds, fields
  <2>2. CASE Variable
    <3>1. /\ stack' = Returned(namedValues[TopNode.name]) /\ Same
          /\ TopNode.name \in DOMAIN namedValues
      BY <2>2 DEF Variable, fields
    <3>2. namedValues[TopNode.name] \in Nat
      BY <3>1, ValuesAreCounted DEF Shape, NamesOK
    <3>3. Pops(namedValues[TopNode.name])
      BY <1>1, <3>1, <3>2, ReturnPops
    <3> QED BY <3>1, <3>2, <3>3 DEF Moves
  <2>3. CASE VisitSteps
    <3>1. Same
      BY <2>3 DEF VisitSteps, Operand, Argument, BeginIf, BeginElse, GenerateInto, BeginCondition, fields
    <3> QED BY <1>2, <2>3, <3>1, VisitsPush DEF Moves
  <2>4. CASE BeginCall
    <3> DEFINE f == Named(functions, TopNode.name)
    <3>1. CASE Halt("threw")
      BY <3>1 DEF Halt, Idle
    <3>2. CASE stack' = With(<<f>>) /\ Same
      <4>1. f \in Nat
        BY NamedFacts DEF Shape
      <4>2. <<f>> \in Seq(Nat)
        BY <4>1
      <4>3. Marks
        BY <1>1, <3>2, <4>2, WithMarks
      <4> QED BY <3>2, <4>3 DEF Moves
    <3> QED BY <2>4, <3>1, <3>2 DEF BeginCall, fields
  <2> QED BY <2>1, <2>2, <2>3, <2>4 DEF BodyStep
<1>4. CASE Idle
  BY <1>1, <1>2, <1>4
<1>5. CASE Moves /\ Same
  BY <1>1, <1>2, <1>5, MovesEntered
<1> QED BY <1>3, <1>4, <1>5

LEMMA ChainMoves ==
  ASSUME Shape, Walk, Moves, stack # <<>>, nodes' = nodes
  PROVE  \A j \in 1 .. Len(stack') - 1 :
           stack'[j + 1].node = KidOf(stack'[j], Len(stack'[j].got) + 1)
<1>1. PICK m \in Nat \ {0} : m = Len(stack)
  BY TopIs
<1>2. \A j \in 1 .. m - 1 : stack[j + 1].node = KidOf(stack[j], Len(stack[j].got) + 1)
  BY <1>1 DEF Walk
<1>3. CASE Marks
  <2>1. /\ Len(stack') = m /\ stack'[m].node = stack[m].node
        /\ \A j \in 1 .. m - 1 : stack'[j] = stack[j]
    BY <1>1, <1>3 DEF Marks, Below
  <2>2. ASSUME NEW j \in 1 .. m - 1 PROVE stack'[j + 1].node = stack[j + 1].node
    <3>1. j + 1 \in 1 .. m - 1 \/ j + 1 = m
      BY <1>1
    <3> QED BY <2>1, <3>1
  <2> QED BY <1>2, <2>1, <2>2
<1>4. CASE Pushes
  <2>1. /\ Len(stack') = m + 1 /\ stack'[m].node = stack[m].node /\ stack'[m].got = stack[m].got
        /\ \A j \in 1 .. m - 1 : stack'[j] = stack[j]
        /\ stack'[m + 1].node = KidOf(stack[m], Len(stack[m].got) + 1)
    BY <1>1, <1>4 DEF Pushes, Below
  <2>2. ASSUME NEW j \in 1 .. m - 1 PROVE stack'[j + 1].node = stack[j + 1].node
    <3>1. j + 1 \in 1 .. m - 1 \/ j + 1 = m
      BY <1>1
    <3> QED BY <2>1, <3>1
  <2>3. stack'[m + 1].node = KidOf(stack'[m], Len(stack'[m].got) + 1)
    BY <2>1 DEF KidOf
  <2>4. \A j \in 1 .. (m + 1) - 1 : j \in 1 .. m - 1 \/ j = m
    BY <1>1
  <2> QED BY <1>2, <2>1, <2>2, <2>3, <2>4
<1>5. ASSUME NEW v \in Nat, Pops(v)
      PROVE  \A j \in 1 .. Len(stack') - 1 :
               stack'[j + 1].node = KidOf(stack'[j], Len(stack'[j].got) + 1)
  <2>1. PICK k \in Nat : k = m - 1
    BY <1>1
  <2>2. /\ Len(stack') = k /\ stack'[k].node = stack[k].node
        /\ \A j \in 1 .. k - 1 : stack'[j] = stack[j]
    BY <1>1, <1>5, <2>1 DEF Pops, Below
  <2>3. ASSUME NEW j \in 1 .. k - 1 PROVE stack'[j + 1].node = stack[j + 1].node /\ j \in 1 .. m - 1
    <3>1. j + 1 \in 1 .. k - 1 \/ j + 1 = k
      BY <2>1
    <3> QED BY <1>1, <2>1, <2>2, <3>1
  <2> QED BY <1>2, <2>2, <2>3
<1> QED BY <1>3, <1>4, <1>5 DEF Moves

\* What is so when a motif has just been entered.
LEMMA EnterFacts ==
  ASSUME Shape, BeginMotif \/ BeginKnownMotif
  PROVE  /\ stack # <<>> /\ Len(stack) = 1 /\ Top = stack[1] /\ ~ Entered(stack)
         /\ TopNode.kind = "motif" /\ currentFunction = NoFunction /\ shouldReturn = TRUE
         /\ program' = program /\ next' = next /\ control' = control
         /\ shouldReturn' = shouldReturn
         /\ currentBB' \in Seq(Nat) /\ insertion' = currentBB'
         /\ currentBB' = LastBlock(functions', currentFunction')
         /\ currentFunction' \in 1 .. Len(functions')
         /\ Moves /\ Entered(stack')
         /\ stack'[1].node = stack[1].node /\ stack'[1].of = currentBB'
         /\ stack'[1].got = <<>>
         /\ IF Len(TopNode.kids) = 1
              THEN Len(stack') = 1
              ELSE /\ Len(stack') = 2 /\ stack'[2].node = TopNode.kids[2]
                   /\ stack'[2].got = <<>> /\ stack'[2].of = <<>>
<1>1. /\ stack # <<>> /\ Len(stack) = 1 /\ Top = stack[1] /\ Top.got = <<>>
      /\ ~ Entered(stack) /\ currentFunction = NoFunction /\ shouldReturn = TRUE
  BY AtRoot, NotEntered
<1>2. /\ program' = program /\ next' = next /\ control' = control
      /\ shouldReturn' = shouldReturn /\ TopNode.kind = "motif"
      /\ insertion' = currentBB' /\ currentBB' = LastBlock(functions', currentFunction')
      /\ LET call == With(currentBB') IN
         stack' = IF Len(TopNode.kids) = 1 THEN call ELSE Visit(call, 2)
  BY DEF BeginMotif, BeginKnownMotif, EnterMotif, At, nodes
<1>3. Shape'
  BY BeginMotifStep, BeginKnownMotifStep
<1>4. currentBB' \in Seq(Nat)
  BY <1>2, <1>3 DEF Shape, IsBlock
<1>5. 2 = KidAt(TopNode.kind, Len(Top.got) + 1)
  BY <1>1, <1>2 DEF KidAt
<1>6. /\ Moves /\ stack'[1].node = stack[1].node /\ stack'[1].of = currentBB'
      /\ stack'[1].got = <<>>
      /\ IF Len(TopNode.kids) = 1
           THEN Len(stack') = 1
           ELSE /\ Len(stack') = 2 /\ stack'[2].node = TopNode.kids[2]
                /\ stack'[2].got = <<>> /\ stack'[2].of = <<>>
  <2>1. CASE Len(TopNode.kids) = 1
    <3>1. Marks /\ stack'[Len(stack)].of = currentBB'
      BY <1>1, <1>2, <1>4, <2>1, WithMarks
    <3> QED BY <1>1, <2>1, <3>1 DEF Moves, Marks
  <2>2. CASE Len(TopNode.kids) # 1
    <3>1. Pushes /\ stack'[Len(stack)].of = currentBB'
      BY <1>1, <1>2, <1>4, <1>5, <2>2, VisitWithPushes
    <3>2. KidOf(stack[1], Len(stack[1].got) + 1) = TopNode.kids[2]
      BY <1>1, <1>5 DEF KidOf, TopNode
    <3> QED BY <1>1, <2>2, <3>1, <3>2 DEF Moves, Pushes
  <2> QED BY <2>1, <2>2
<1>7. Entered(stack') /\ currentFunction' \in 1 .. Len(functions')
  <2>1. stack' # <<>>
    BY <1>6
  <2>2. currentBB' # <<>>
    BY <1>2 DEF LastBlock
  <2>3. Entered(stack')
    BY <1>6, <2>1, <2>2 DEF Entered
  <2>4. currentFunction' = currentBB'[1] /\ IsBlock(functions', insertion')
    BY <1>2, <1>3 DEF LastBlock, Shape
  <2> QED BY <1>2, <2>3, <2>4 DEF IsBlock
<1> QED BY <1>1, <1>2, <1>4, <1>6, <1>7

LEMMA WalkStays == ASSUME Shape, Walk, [Next]_vars PROVE Walk'
<1>1. CASE Idle
  BY <1>1 DEF Idle, Walk, Tree, nodes, KidOf
<1>2. CASE stack' = <<>>
  <2>1. 1 .. Len(stack') - 1 = {}
    BY <1>2
  <2> QED BY <1>2, <2>1 DEF Walk
<1>3. CASE BodyStep
  <2>1. SUFFICES ASSUME ~ Idle PROVE Walk'
    BY <1>1
  <2>2. /\ stack # <<>> /\ Moves /\ nodes' = nodes /\ next' = next /\ program' = program
        /\ stack'[1].node = stack[1].node
    BY <1>3, <2>1, BodyFacts DEF nodes
  <2>3. \A j \in 1 .. Len(stack') - 1 :
           stack'[j + 1].node = KidOf(stack'[j], Len(stack'[j].got) + 1)
    BY <2>2, ChainMoves
  <2> QED BY <2>2, <2>3 DEF Walk, Tree, KidOf
<1>4. CASE BeginTree
  <2>1. /\ stack' = <<Frame(program.trees[next])>> /\ next' = next + 1 /\ program' = program
    BY <1>4 DEF BeginTree
  <2>2. Len(stack') = 1 /\ stack'[1].node = program.trees[next] /\ next' > 1 /\ next' - 1 = next
    BY <2>1 DEF Frame, Shape
  <2> QED BY <2>1, <2>2 DEF Walk, Tree
<1>5. CASE BeginMotif \/ BeginKnownMotif
  <2>1. /\ stack # <<>> /\ program' = program /\ next' = next /\ Moves
        /\ stack'[1].node = stack[1].node
    BY <1>5, EnterFacts
  <2>2. \A j \in 1 .. Len(stack') - 1 :
           stack'[j + 1].node = KidOf(stack'[j], Len(stack'[j].got) + 1)
    BY <2>1, ChainMoves DEF nodes
  <2> QED BY <2>1, <2>2 DEF Walk, Tree, KidOf, nodes
<1>6. CASE Prototype \/ Ends
  <2>1. stack' = <<>>
    <3>1. CASE Prototype
      <4>1. stack # <<>> /\ TopNode.kind \notin ExpressionKinds /\ stack' = Returned(Len(functions) + 1)
        BY <3>1 DEF Prototype, At, ExpressionKinds
      <4> QED BY <4>1, RootReturns
    <3> QED BY <1>6, <3>1 DEF Ends
  <2> QED BY <1>2, <2>1
<1> QED BY <1>1, <1>3, <1>4, <1>5, <1>6, StepKinds
-----------------------------------------------------------------------------
(* The symbols *)

Declaring == Prototype \/ BeginMotif

LEMMA BegunIs ==
  ASSUME Shape, [Next]_vars
  PROVE  /\ Begun \in Int /\ Begun' \in Int /\ next \in Nat
         /\ ~ (Declaring \/ BeginKnownMotif) => Begun' = Begun
         /\ Declaring \/ BeginKnownMotif => Begun = next - 2 /\ Begun' = next - 1 /\ next' = next
<1>1. next \in Nat /\ next' \in Nat
  BY ProgramStays
<1>2. CASE Idle
  <2>1. Begun' = Begun
    BY <1>2 DEF Idle, Begun, Entered
  <2>2. ~ (Declaring \/ BeginKnownMotif)
    <3>1. ASSUME Declaring \/ BeginKnownMotif PROVE stack' # stack
      <4>1. stack # <<>> /\ ~ Entered(stack)
        BY <3>1, AtRoot DEF Declaring
      <4>2. CASE Prototype
        <5>1. stack # <<>> /\ TopNode.kind \notin ExpressionKinds /\ stack' = Returned(Len(functions) + 1)
          BY <4>2 DEF Prototype, At, ExpressionKinds
        <5> QED BY <4>1, <5>1, RootReturns
      <4>3. CASE BeginMotif \/ BeginKnownMotif
        BY <4>1, <4>3, EnterFacts
      <4> QED BY <3>1, <4>2, <4>3 DEF Declaring
    <3> QED BY <1>2, <3>1 DEF Idle
  <2>3. Begun \in Int
    BY <1>1 DEF Begun
  <2> QED BY <1>1, <2>1, <2>2, <2>3
<1>3. CASE BodyStep /\ ~ Idle
  <2>1. next' = next /\ Entered(stack) /\ Entered(stack')
    BY <1>3, BodyFacts
  <2>2. ~ (Declaring \/ BeginKnownMotif)
    BY <2>1, AtRoot DEF Declaring
  <2> QED BY <1>1, <2>1, <2>2 DEF Begun
<1>4. CASE BeginTree
  <2>1. stack = <<>> /\ stack' = <<Frame(program.trees[next])>> /\ next' = next + 1
    BY <1>4 DEF BeginTree, Between
  <2>2. stack' # <<>> /\ ~ Entered(stack')
    BY <2>1 DEF Frame, Entered
  <2>3. ~ (Declaring \/ BeginKnownMotif)
    BY <2>1, AtRoot DEF Declaring
  <2> QED BY <1>1, <2>1, <2>2, <2>3 DEF Begun
<1>5. CASE Prototype
  <2>1. stack # <<>> /\ ~ Entered(stack)
    BY <1>5, AtRoot
  <2>2. next' = next /\ stack' = <<>>
    <3>1. TopNode.kind \notin ExpressionKinds /\ stack' = Returned(Len(functions) + 1)
      BY <1>5 DEF Prototype, At, ExpressionKinds
    <3> QED BY <1>5, <2>1, <3>1, RootReturns DEF Prototype
  <2> QED BY <1>1, <1>5, <2>1, <2>2 DEF Begun, Declaring
<1>6. CASE BeginMotif \/ BeginKnownMotif
  <2>1. stack # <<>> /\ ~ Entered(stack) /\ Entered(stack') /\ next' = next
    BY <1>6, EnterFacts
  <2> QED BY <1>1, <1>6, <2>1 DEF Begun, Declaring
<1>7. CASE Ends
  <2>1. Entered(stack) /\ next' = next /\ stack' = <<>>
    <3>1. stack # <<>> /\ TopNode.kind \notin ExpressionKinds /\ Top.of # <<>>
      BY <1>7 DEF Ends, EndMotif, At, ExpressionKinds
    <3> QED BY <1>7, <3>1, TopFacts DEF Ends, Entered
  <2>2. ~ (Declaring \/ BeginKnownMotif)
    BY <2>1, AtRoot DEF Declaring
  <2> QED BY <1>1, <2>1, <2>2 DEF Begun, Entered
<1> QED BY <1>2, <1>3, <1>4, <1>5, <1>6, <1>7, StepKinds

\* The prototype of the tree that has begun.
RootProto == IF TopNode.kind = "motif" THEN TopNode.kids[1] ELSE Top.node

LEMMA RootIs ==
  ASSUME Shape, Walk, Declaring \/ BeginKnownMotif
  PROVE  /\ Top.node = program.trees[Tree] /\ Tree \in 1 .. Len(program.trees)
         /\ RootProto = Source!Proto(program, Tree)
         /\ nodes[RootProto].name = Source!NameOf(program, Tree)
         /\ NamesOf(RootProto) = Source!ParamsOf(program, Tree)
         /\ Source!IsMotif(program, Tree) <=> ~ Prototype
         /\ RootProto \in DOMAIN nodes
         /\ BeginMotif \/ BeginKnownMotif => MotifName = Source!NameOf(program, Tree)
<1>1. stack # <<>> /\ Top = stack[1]
  BY AtRoot DEF Declaring
<1>2. Top.node = program.trees[Tree] /\ Tree \in 1 .. Len(program.trees)
  BY <1>1 DEF Walk, Tree, Shape
<1>3. TopNode.kind = (IF Prototype THEN "prototype" ELSE "motif")
  BY DEF Declaring, Prototype, BeginMotif, BeginKnownMotif, At
<1>4. Source!IsMotif(program, Tree) <=> ~ Prototype
  BY <1>2, <1>3 DEF Source!IsMotif, TopNode, nodes
<1>5. RootProto = Source!Proto(program, Tree)
  BY <1>2, <1>3, <1>4 DEF Source!Proto, RootProto, TopNode, nodes
<1>6. /\ nodes[RootProto].name = Source!NameOf(program, Tree)
      /\ NamesOf(RootProto) = Source!ParamsOf(program, Tree)
  BY <1>5 DEF Source!NameOf, Source!ParamsOf, NamesOf, nodes
<1>7. RootProto \in DOMAIN nodes
  <2>1. Top.node \in DOMAIN nodes
    BY <1>1, TopFacts
  <2>2. TopNode.kind = "motif" => TopNode.kids[1] \in DOMAIN nodes
    BY <2>1, NodeFacts DEF Shape, TopNode
  <2> QED BY <2>1, <2>2 DEF RootProto
<1>8. BeginMotif \/ BeginKnownMotif => MotifName = Source!NameOf(program, Tree)
  <2>1. ~ Prototype => MotifName = nodes[RootProto].name
    BY <1>3 DEF MotifName, RootProto
  <2>2. BeginMotif \/ BeginKnownMotif => ~ Prototype
    BY DEF BeginMotif, BeginKnownMotif, Prototype, At
  <2> QED BY <1>6, <2>1, <2>2
<1> QED BY <1>2, <1>4, <1>5, <1>6, <1>7, <1>8
\* The function that a declaration adds.
LEMMA NewFunction ==
  ASSUME Shape, Walk, Declaring
  PROVE  LET k == Len(functions) + 1
             f == functions'[k]
         IN /\ k \in Nat /\ Len(functions') = k /\ BindParameters(RootProto)
            /\ \A g \in 1 .. Len(functions) : functions'[g] = functions[g]
            /\ f.name = UniqueName(functions, Source!NameOf(program, Tree))
            /\ f.params = TypesOf(RootProto) /\ ~ f.vararg
            /\ f.result = IF Source!NameOf(program, Tree) = "main" THEN "i32" ELSE "double"
            /\ f.blocks = IF Prototype THEN <<>> ELSE << <<>> >>
<1> DEFINE k == Len(functions) + 1
           m == Len(values')
<1>1. /\ RootProto \in DOMAIN nodes /\ nodes[RootProto].name = Source!NameOf(program, Tree)
  BY RootIs
<1>2. PICK proto \in DOMAIN nodes :
           /\ BindParameters(proto)
           /\ proto = IF Prototype THEN Top.node ELSE TopNode.kids[1]
           /\ Len(functions') = Len(functions) + 1 /\ Len(functions) \in Nat
           /\ \A f \in 1 .. Len(functions) : functions'[f] = functions[f]
           /\ functions'[Len(functions) + 1].name = UniqueName(functions, nodes[proto].name)
  BY Declares DEF Declaring
<1>3. RootProto = proto
  BY <1>2 DEF RootProto, Declaring, Prototype, BeginMotif, At
<1>4. m \in Nat /\ Len(values) <= m
  <2>1. /\ Len(values) \in Nat /\ Len(nodes[proto].kids) \in Nat
        /\ m = Len(values) + Len(nodes[proto].kids)
    BY <1>2, BoundFacts
  <2> QED BY <2>1
<1> DEFINE gs == Declared(RootProto)
<1>5. /\ gs \in Seq(FunctionType(m)) /\ Len(gs) = k
      /\ gs[k].params = TypesOf(RootProto) /\ gs[k].blocks = <<>>
  BY <1>1, <1>4, DeclaredFacts
<1>6. /\ ~ gs[k].vararg
      /\ gs[k].result = IF nodes[RootProto].name = "main" THEN "i32" ELSE "double"
  <2> DEFINE g == Function(UniqueName(functions, nodes[RootProto].name),
                           IF nodes[RootProto].name = "main" THEN "i32" ELSE "double",
                           TypesOf(RootProto), FALSE)
  <2>1. gs = Append(functions, g)
    BY Zenon DEF Declared, AddFunction
  <2>2. ~ g.vararg /\ g.result = IF nodes[RootProto].name = "main" THEN "i32" ELSE "double"
    BY DEF Function
  <2>3. functions \in Seq(FunctionType(Len(values)))
    BY DEF Shape
  <2> HIDE DEF g
  <2>4. Append(functions, g)[k] = g
    BY <2>3, AppendProperties
  <2> QED BY <2>1, <2>2, <2>4
<1>7. CASE Prototype
  <2>1. functions' = gs
    BY <1>3, <1>7 DEF Prototype, RootProto, At
  <2> QED BY <1>1, <1>2, <1>3, <1>5, <1>6, <1>7, <2>1
<1>8. CASE BeginMotif
  <2>1. functions' = AppendBlock(gs, k) /\ TopNode.kind = "motif"
    BY <1>8 DEF BeginMotif, EnterMotif, RootProto, At
  <2>2. ~ Prototype
    BY <2>1 DEF Prototype, At
  <2>3. k \in 1 .. Len(gs) /\ k \in DOMAIN gs
    BY <1>2, <1>5
  <2> HIDE DEF gs
  <2>4. functions'[k] = [gs[k] EXCEPT !.blocks = Append(@, <<>>)]
    BY <2>1, <2>3 DEF AppendBlock
  <2>5. gs[k] \in FunctionType(m)
    BY <1>5, <2>3, FunctionFacts
  <2>6. Append(<<>>, <<>>) = << <<>> >>
    OBVIOUS
  <2>7. /\ functions'[k].params = gs[k].params /\ functions'[k].vararg = gs[k].vararg
        /\ functions'[k].result = gs[k].result /\ functions'[k].blocks = << <<>> >>
    BY <1>5, <2>4, <2>5, <2>6 DEF FunctionType
  <2> QED BY <1>1, <1>2, <1>3, <1>5, <1>6, <2>2, <2>7
<1> QED BY <1>7, <1>8 DEF Declaring

LEMMA NamedIs ==
  ASSUME Symbols, NEW f \in 1 .. Len(functions), functions[f].name # Renamed, Shape
  PROVE  Named(functions, functions[f].name) = f
<1>1. DOMAIN functions = 1 .. Len(functions)
  BY DEF Shape
<1>2. /\ Named(functions, functions[f].name) \in 1 .. Len(functions)
      /\ functions[Named(functions, functions[f].name)].name = functions[f].name
  BY <1>1 DEF Named
<1> QED BY <1>2 DEF Symbols

LEMMA NamesArePlain ==
  ASSUME Generatable(program), NEW n \in DOMAIN nodes
  PROVE  nodes[n].name # Renamed
<1> DEFINE F == [kind : ExpressionKinds \cup {"param", "prototype", "motif"},
                 name : STRING \ {Renamed}, kids : Seq(Nat)]
<1>1. nodes \in Seq(F)
  BY Zenon DEF Generatable, nodes
<1>2. nodes[n] \in F
  <2> HIDE DEF F
  <2> QED BY <1>1
<1> QED BY <1>2

\* A name is fresh while no function has it.
LEMMA FreshNames ==
  ASSUME Shape, Walk, Symbols, Declaring \/ BeginKnownMotif
  PROVE  (Named(functions, Source!NameOf(program, Tree)) = NoFunction)
         <=> Source!IsFresh(program, Tree)
<1> DEFINE x == Source!NameOf(program, Tree)
<1>1. Begun = Tree - 1 /\ Tree \in Nat
  <2>1. [Next]_vars
    BY DEF Declaring, Next, GetValue
  <2> QED BY <2>1, BegunIs, RootIs DEF Tree
<1>2. functions \in Seq(FunctionType(Len(values))) /\ DOMAIN functions = 1 .. Len(functions)
  BY DEF Shape
<1>3. x # Renamed
  <2>1. nodes[RootProto].name = x /\ RootProto \in DOMAIN nodes
    BY RootIs
  <2> QED BY <2>1, NamesArePlain DEF Shape
<1>4. ASSUME Source!IsFresh(program, Tree), NEW f \in 1 .. Len(functions) PROVE functions[f].name # x
  <2>1. x \notin {"print", "printf"} /\ \A j \in 1 .. Tree - 1 : Source!NameOf(program, j) # x
    BY <1>4 DEF Source!IsFresh, Source!Library
  <2>2. CASE f = 1 \/ f = 2
    BY <2>1, <2>2 DEF Symbols, LibrarySymbols
  <2>3. CASE f \in 3 .. Len(functions)
    BY <1>1, <1>3, <2>1, <2>3 DEF Symbols, Symbol, DeclaredBy
  <2>4. f \in Nat /\ f >= 1
    OBVIOUS
  <2> QED BY <2>2, <2>3, <2>4
<1>5. ASSUME ~ Source!IsFresh(program, Tree) PROVE \E f \in 1 .. Len(functions) : functions[f].name = x
  <2>1. x \in {"print", "printf"} \/ \E j \in 1 .. Tree - 1 : Source!NameOf(program, j) = x
    BY <1>5 DEF Source!IsFresh, Source!Library
  <2>2. CASE x \in {"print", "printf"}
    <3>1. 1 \in 1 .. Len(functions) /\ 2 \in 1 .. Len(functions)
      BY <1>2 DEF Symbols, LibrarySymbols
    <3> QED BY <2>2, <3>1 DEF Symbols, LibrarySymbols
  <2>3. ASSUME NEW j \in 1 .. Tree - 1, Source!NameOf(program, j) = x
        PROVE  \E f \in 1 .. Len(functions) : functions[f].name = x
    BY <1>1, <2>3 DEF Symbols
  <2> QED BY <2>1, <2>2, <2>3
<1> HIDE DEF x
<1>6. Named(functions, x) = NoFunction => \A f \in 1 .. Len(functions) : functions[f].name # x
  BY <1>2, NamedFacts
<1>7. Named(functions, x) # NoFunction => \E f \in 1 .. Len(functions) : functions[f].name = x
  BY <1>2, NamedFacts
<1> QED BY <1>4, <1>5, <1>6, <1>7 DEF x
LEMMA SymbolStays ==
  ASSUME NEW f, Symbol(f), program' = program,
         functions'[f].name = functions[f].name, functions'[f].params = functions[f].params,
         functions'[f].vararg = functions[f].vararg, functions'[f].result = functions[f].result,
         Begun \in Int, Begun' \in Int, Begun <= Begun'
  PROVE  Symbol(f)'
<1>1. /\ ~ functions'[f].vararg
      /\ \A i \in DOMAIN functions'[f].params : functions'[f].params[i] = "double"
  BY DEF Symbol
<1>2. ASSUME functions'[f].name # Renamed
      PROVE  /\ functions'[f].result = Source!ResultOf(functions'[f].name)
             /\ \E k \in 1 .. Begun' : DeclaredBy(f, k)'
  <2>1. PICK k \in 1 .. Begun : DeclaredBy(f, k)
    BY <1>2 DEF Symbol
  <2>2. k \in 1 .. Begun'
    OBVIOUS
  <2>3. DeclaredBy(f, k)'
    BY <2>1 DEF DeclaredBy
  <2>4. functions'[f].result = Source!ResultOf(functions'[f].name)
    BY <1>2 DEF Symbol
  <2> QED BY <2>2, <2>3, <2>4
<1> QED BY <1>1, <1>2 DEF Symbol

LEMMA NewSymbol ==
  ASSUME Shape, Walk, Symbols, Declaring, NEW k \in Nat, k = Len(functions) + 1
  PROVE  /\ Symbol(k)'
         /\ \A f \in 1 .. Len(functions) :
              functions'[k].name # Renamed =>
                functions[f].name # functions'[k].name
         /\ \E f \in 1 .. Len(functions') : functions'[f].name = Source!NameOf(program, Tree)
<1> DEFINE x == Source!NameOf(program, Tree)
<1>1. [Next]_vars
  BY DEF Declaring, Next, GetValue
<1>2. /\ k \in Nat /\ Len(functions) \in Nat /\ Len(functions') = k
      /\ \A g \in 1 .. Len(functions) : functions'[g] = functions[g]
      /\ functions'[k].name = UniqueName(functions, x)
      /\ functions'[k].params = TypesOf(RootProto) /\ ~ functions'[k].vararg
      /\ functions'[k].result = IF x = "main" THEN "i32" ELSE "double"
  BY NewFunction, LenProperties DEF Shape
<1>3. functions \in Seq(FunctionType(Len(values)))
  BY DEF Shape
<1>4. CASE Named(functions, x) = NoFunction
  <2>1. functions'[k].name = x /\ \A f \in 1 .. Len(functions) : functions[f].name # x
    BY <1>2, <1>3, <1>4, NamedFacts DEF UniqueName
  <2>2. Source!IsFresh(program, Tree)
    BY <1>4, FreshNames
  <2>3. x \notin {"print", "printf"}
    BY <2>2 DEF Source!IsFresh, Source!Library
  <2>4. functions'[k].result = Source!ResultOf(functions'[k].name)
    BY <1>2, <2>1, <2>3 DEF Source!ResultOf
  <2>5. Tree \in 1 .. Begun' /\ program' = program /\ Tree' = Tree
    <3>1. Begun' = Tree /\ next' = next
      BY <1>1, BegunIs DEF Tree
    <3>2. Tree \in 1 .. Tree
      BY RootIs DEF Tree, Shape
    <3> QED BY <1>1, <3>1, <3>2, ProgramStays DEF Tree
  <2>6. Len(functions'[k].params) = Len(Source!ParamsOf(program, Tree))
    <3>1. Len(TypesOf(RootProto)) = Len(nodes[RootProto].kids)
      BY RootIs, PrototypeTypes
    <3>2. Source!ParamsOf(program, Tree) = [i \in DOMAIN nodes[RootProto].kids |-> nodes[nodes[RootProto].kids[i]].name]
      BY RootIs DEF NamesOf
    <3>3. nodes[RootProto].kids \in Seq(Nat)
      BY RootIs, NodeFacts DEF Shape
    <3>4. Len(Source!ParamsOf(program, Tree)) = Len(nodes[RootProto].kids)
      BY <3>2, <3>3
    <3> QED BY <1>2, <3>1, <3>4
  <2>7. \E t \in 1 .. Begun' : DeclaredBy(k, t)'
    <3>1. PICK t \in 1 .. Begun' : t = Tree
      BY <2>5
    <3>2. DeclaredBy(k, t)'
      BY <2>1, <2>2, <2>5, <2>6, <3>1 DEF DeclaredBy
    <3> QED BY <3>2
  <2>8. \A i \in DOMAIN functions'[k].params : functions'[k].params[i] = "double"
    BY <1>2 DEF TypesOf
  <2>9. Symbol(k)'
    BY <1>2, <2>1, <2>4, <2>7, <2>8 DEF Symbol
  <2> QED BY <1>2, <2>1, <2>9
<1>5. CASE Named(functions, x) # NoFunction
  <2>1. functions'[k].name = Renamed
    BY <1>2, <1>5 DEF UniqueName
  <2>2. \A i \in DOMAIN functions'[k].params : functions'[k].params[i] = "double"
    BY <1>2 DEF TypesOf
  <2>3. Symbol(k)'
    BY <1>2, <2>1, <2>2 DEF Symbol
  <2>4. PICK f \in 1 .. Len(functions) : functions[f].name = x
    BY <1>3, <1>5, NamedFacts
  <2> QED BY <1>2, <2>1, <2>3, <2>4
<1> QED BY <1>4, <1>5

LEMMA SymbolsStay ==
  ASSUME Shape, Shape', Walk, Symbols, [Next]_vars
  PROVE  Symbols'
<1> DEFINE n == Len(functions)
<1>1. /\ n \in Nat /\ Len(functions') \in Nat /\ n <= Len(functions')
      /\ \A f \in 1 .. n :
           /\ functions'[f].params = functions[f].params /\ functions'[f].vararg = functions[f].vararg
           /\ functions'[f].name = functions[f].name /\ functions'[f].result = functions[f].result
  BY Step, LenProperties DEF Grown, Shape
<1>2. Begun \in Int /\ Begun' \in Int /\ Begun <= Begun' /\ program' = program /\ next \in Nat
  BY BegunIs, ProgramStays
<1>3. n = Len(functions') \/ (Declaring /\ Len(functions') = n + 1)
  BY OneDeclares, NewFunction DEF Declaring
<1>4. LibrarySymbols'
  <2>1. n >= 2 /\ 1 \in 1 .. n /\ 2 \in 1 .. n
    BY <1>1 DEF Symbols, LibrarySymbols
  <2> QED BY <1>1, <2>1 DEF Symbols, LibrarySymbols
<1>5. ASSUME NEW f \in 3 .. Len(functions') PROVE Symbol(f)'
  <2>1. CASE f \in 3 .. n
    <3>1. f \in 1 .. n
      BY <2>1
    <3>2. Symbol(f)
      BY <2>1 DEF Symbols
    <3>3. /\ functions'[f].params = functions[f].params /\ functions'[f].vararg = functions[f].vararg
          /\ functions'[f].name = functions[f].name /\ functions'[f].result = functions[f].result
      BY <1>1, <3>1
    <3> QED BY <1>2, <3>2, <3>3, SymbolStays
  <2>2. CASE f = n + 1 /\ Declaring
    BY <1>1, <2>2, NewSymbol
  <2> QED BY <1>1, <1>3, <2>1, <2>2
<1>6. ASSUME NEW f \in 1 .. Len(functions'), NEW g \in 1 .. Len(functions'),
             functions'[f].name = functions'[g].name, functions'[f].name # Renamed
      PROVE  f = g
  <2>1. CASE f \in 1 .. n /\ g \in 1 .. n
    BY <1>1, <1>6, <2>1 DEF Symbols
  <2>2. CASE f \in 1 .. n /\ g = n + 1 /\ Declaring
    BY <1>1, <1>6, <2>2, NewSymbol
  <2>3. CASE f = n + 1 /\ g \in 1 .. n /\ Declaring
    BY <1>1, <1>6, <2>3, NewSymbol
  <2> QED BY <1>1, <1>3, <2>1, <2>2, <2>3
<1>7. ASSUME NEW k \in 1 .. Begun'
      PROVE  \E f \in 1 .. Len(functions') : functions'[f].name = Source!NameOf(program', k)
  <2>1. CASE k \in 1 .. Begun
    <3>1. PICK f \in 1 .. n : functions[f].name = Source!NameOf(program, k)
      BY <2>1 DEF Symbols
    <3> QED BY <1>1, <1>2, <3>1
  <2>2. CASE k \notin 1 .. Begun
    <3>1. Declaring \/ BeginKnownMotif
      BY <2>2, BegunIs
    <3>2. k = Tree
      BY <2>2, <3>1, BegunIs DEF Tree
    <3>3. CASE Declaring
      BY <1>2, <3>2, <3>3, NewSymbol
    <3>4. CASE BeginKnownMotif
      <4>1. Named(functions, Source!NameOf(program, Tree)) # NoFunction
        BY <3>4, RootIs DEF BeginKnownMotif
      <4>2. PICK f \in 1 .. n : functions[f].name = Source!NameOf(program, Tree)
        BY <4>1, NamedFacts DEF Shape
      <4> QED BY <1>1, <1>2, <3>2, <4>2
    <3> QED BY <3>1, <3>3, <3>4
  <2> QED BY <2>1, <2>2
<1> QED BY <1>4, <1>5, <1>6, <1>7 DEF Symbols

-----------------------------------------------------------------------------
(* The values *)

LEMMA BuiltMade == ASSUME Shape, stack # <<>>, Ready PROVE MadeOK(Built)
<1>1. CASE TopNode.kind = "number"
  BY <1>1 DEF Built, MadeOK, Constant, Value
<1>2. CASE TopNode.kind = "binary"
  BY <1>2 DEF Built, MadeOK, Operation, Value, Ready, Arithmetic
<1>3. CASE TopNode.kind = "call"
  BY <1>3 DEF Built, MadeOK, CallOf, Instruction, Value
<1>4. CASE TopNode.kind = "cond"
  BY <1>4 DEF Built, MadeOK, Branch, Instruction, Value
<1> QED BY <1>1, <1>2, <1>3, <1>4 DEF Ready

LEMMA ReturnMade == ASSUME NEW args PROVE MadeOK(ReturnOf(args))
  BY DEF MadeOK, ReturnOf, Instruction, Value

\* The value that a step between the beginning and the end of a motif adds.
LEMMA BodyValue ==
  ASSUME Shape, BodyStep
  PROVE  \/ values' = values
         \/ values' = Append(values, Built) /\ ValueSteps /\ Builds(Built) /\ Ready
         \/ /\ BeginElse \/ BeginCondition
            /\ values' = Append(values, ReturnOf(<<Got(Len(Top.got))>>))
<1>1. CASE ValueSteps
  <2>1. (Idle \/ Builds(Built)) /\ Ready
    BY <1>1, ValuesBuild
  <2> QED BY <1>1, <2>1 DEF Idle, Builds, module
<1>2. CASE BeginElse
  BY <1>2 DEF BeginElse, WithReturn, At
<1>3. CASE BeginCondition
  BY <1>3 DEF BeginCondition, WithReturn, At
<1>4. CASE Variable \/ Operand \/ Argument \/ BeginIf \/ BeginCall
  BY <1>4 DEF Variable, Operand, Argument, BeginIf, BeginCall, Halt, module
<1> QED BY <1>1, <1>2, <1>3, <1>4 DEF BodyStep, VisitSteps

LEMMA EpilogueMade ==
  ASSUME Shape, stack # <<>>, values' = values \o Epilogue,
         NEW v \in 1 .. Len(values'), v > Len(values)
  PROVE  MadeOK(values'[v])
<1> DEFINE n    == Len(values)
           zero == Constant("zero", "i32", <<>>)
           main == ReturnOf(<<n + 1>>)
           ret  == ReturnOf(Top.got)
           S    == Value_ \cup {zero, main, ret}
<1>1. n \in Nat /\ zero \in S /\ main \in S /\ ret \in S /\ values \in Seq(S)
  <2>1. values \in Seq(Value_)
    BY DEF Shape, ValuesOK
  <2>2. n \in Nat
    BY ValuesAreCounted
  <2>3. Value_ \subseteq S /\ zero \in S /\ main \in S /\ ret \in S
    OBVIOUS
  <2> HIDE DEF S
  <2> QED BY <2>1, <2>2, <2>3, SeqMonotonic
<1>2. MadeOK(zero) /\ MadeOK(main) /\ MadeOK(ret)
  BY ReturnMade DEF MadeOK, Constant, Value
<1>3. Epilogue \in {<<zero, main>>, <<ret>>, <<>>}
  BY Zenon DEF Epilogue
<1> HIDE DEF S, zero, main, ret
<1>4. CASE Epilogue = <<>>
  <2>1. values' = values
    BY <1>1, <1>4, ConcatEmptySeq
  <2> QED BY <1>1, <2>1
<1>5. CASE Epilogue = <<ret>>
  <2>1. values' = Append(values, ret)
    BY <1>1, <1>5
  <2>2. Len(values') = n + 1 /\ values'[n + 1] = ret
    BY <1>1, <2>1, AppendProperties
  <2> QED BY <1>1, <1>2, <2>2
<1>6. CASE Epilogue = <<zero, main>>
  <2> DEFINE us == Append(values, zero)
             vs == Append(us, main)
  <2>1. values' = vs
    BY <1>1, <1>6
  <2>2. us \in Seq(S) /\ Len(us) = n + 1 /\ us[n + 1] = zero
    BY <1>1, AppendProperties
  <2> HIDE DEF us
  <2>3. /\ Len(vs) = n + 1 + 1 /\ vs[n + 1 + 1] = main
        /\ \A i \in 1 .. n + 1 : vs[i] = us[i]
    BY <1>1, <2>2, AppendProperties
  <2> HIDE DEF vs
  <2>4. vs[n + 1] = zero
    BY <1>1, <2>2, <2>3
  <2>5. v = n + 1 \/ v = n + 1 + 1
    BY <1>1, <2>1, <2>3
  <2> QED BY <1>2, <2>1, <2>3, <2>4, <2>5
<1> QED BY <1>3, <1>4, <1>5, <1>6

LEMMA NewMade ==
  ASSUME Shape, [Next]_vars, NEW v \in 1 .. Len(values'), v > Len(values)
  PROVE  MadeOK(values'[v])
<1>1. Len(values) \in Nat
  BY ValuesAreCounted
<1>2. values' # values
  OBVIOUS
<1>3. CASE BodyStep
  <2>1. PICK w : values' = Append(values, w) /\ MadeOK(w)
    <3>1. CASE values' = Append(values, Built) /\ Ready
      <4>1. stack # <<>>
        BY <1>3, BodyFacts
      <4> QED BY <3>1, <4>1, BuiltMade
    <3>2. CASE values' = Append(values, ReturnOf(<<Got(Len(Top.got))>>))
      BY <3>2, ReturnMade
    <3> QED BY <1>2, <1>3, <3>1, <3>2, BodyValue
  <2>2. v = Len(values) + 1 /\ values'[Len(values) + 1] = w
    BY <1>1, <2>1, Appended
  <2> QED BY <2>1, <2>2
<1>4. CASE Prototype \/ BeginMotif
  <2>1. PICK proto \in DOMAIN nodes : BindParameters(proto)
    BY <1>4, Declares
  <2>2. /\ Len(values') = Len(values) + Len(nodes[proto].kids)
        /\ Len(nodes[proto].kids) \in Nat
        /\ \A i \in 1 .. Len(nodes[proto].kids) :
             values'[Len(values) + i] =
               Instruction("param", TypesOf(proto)[i], <<>>, <<Len(functions) + 1, i>>)
    BY <2>1, BoundFacts
  <2>3. PICK i \in 1 .. Len(nodes[proto].kids) : v = Len(values) + i
    <3>1. v - Len(values) \in 1 .. Len(nodes[proto].kids)
      BY <1>1, <2>2
    <3> QED BY <1>1, <3>1
  <2>4. values'[v] = Instruction("param", TypesOf(proto)[i], <<>>, <<Len(functions) + 1, i>>)
    BY <2>2, <2>3
  <2> QED BY <2>4 DEF MadeOK, Instruction, Value
<1>5. CASE Ends
  <2>1. values' = values \o Epilogue
    BY <1>2, <1>5 DEF Ends, EndMotif, Halt, module
  <2>2. stack # <<>>
    BY <1>5 DEF Ends, EndMotif, At
  <2> QED BY <2>1, <2>2, EpilogueMade
<1> QED BY <1>2, <1>3, <1>4, <1>5, StepKinds
    DEF Idle, module, BeginTree, BeginKnownMotif

\* What the names of a declaration stand for.
LEMMA NewNames ==
  ASSUME Shape, Walk, Declaring, NEW x \in DOMAIN namedValues'
  PROVE  LET names == Source!ParamsOf(program, Tree)
             S     == { i \in DOMAIN names : names[i] = x }
         IN /\ x \in Source!Range(names) /\ Max(S) \in S
            /\ values'[namedValues'[x]] =
                 Instruction("param", "double", <<>>, <<Len(functions) + 1, Max(S)>>)
            /\ functions'[Len(functions) + 1].params # <<>>
<1> DEFINE names == Source!ParamsOf(program, Tree)
           S     == { i \in DOMAIN names : names[i] = x }
           n     == Len(nodes[RootProto].kids)
<1>1. /\ RootProto \in DOMAIN nodes /\ NamesOf(RootProto) = names
      /\ BindParameters(RootProto)
      /\ functions'[Len(functions) + 1].params = TypesOf(RootProto)
  BY RootIs, NewFunction
<1>2. /\ n \in Nat /\ Len(values) \in Nat
      /\ \A i \in 1 .. n :
           values'[Len(values) + i] =
             Instruction("param", TypesOf(RootProto)[i], <<>>, <<Len(functions) + 1, i>>)
  BY <1>1, BoundFacts
<1>3. DOMAIN names = 1 .. n /\ TypesOf(RootProto) \in Seq(Types) /\ Len(TypesOf(RootProto)) = n
  <2>1. DOMAIN names = DOMAIN nodes[RootProto].kids
    BY <1>1 DEF NamesOf
  <2>2. DOMAIN nodes[RootProto].kids = 1 .. n
    BY <1>1, NodeFacts DEF Shape
  <2>3. TypesOf(RootProto) \in Seq(Types) /\ Len(TypesOf(RootProto)) = n
    BY <1>1, PrototypeTypes
  <2> QED BY <2>1, <2>2, <2>3
<1>4. namedValues' = [y \in Range(names) |-> Len(values) + Max({ i \in DOMAIN names : names[i] = y })]
  BY <1>1 DEF BindParameters
<1>5. x \in Range(names) /\ namedValues'[x] = Len(values) + Max(S)
  <2> HIDE DEF names
  <2> QED BY <1>4
<1>6. Max(S) \in S
  <2>1. S \in SUBSET (1 .. n) /\ S # {}
    BY <1>3, <1>5 DEF Range
  <2> HIDE DEF S
  <2> QED BY <1>2, <2>1, MaxFacts
<1>7. Max(S) \in 1 .. n
  BY <1>3, <1>6
<1>8. TypesOf(RootProto)[Max(S)] = "double"
  <2>1. \A i \in DOMAIN TypesOf(RootProto) : TypesOf(RootProto)[i] = "double"
    BY DEF TypesOf
  <2>2. DOMAIN TypesOf(RootProto) = 1 .. n
    BY <1>3
  <2> QED BY <1>7, <2>1, <2>2
<1>9. TypesOf(RootProto) # <<>>
  BY <1>2, <1>3, <1>7
<1>10. x \in Source!Range(names)
  BY <1>5 DEF Range, Source!Range
<1> HIDE DEF S, names
<1>11. values'[namedValues'[x]] =
         Instruction("param", "double", <<>>, <<Len(functions) + 1, Max(S)>>)
  BY <1>2, <1>5, <1>7, <1>8
<1> QED BY <1>1, <1>6, <1>9, <1>10, <1>11 DEF S, names

LEMMA MadeStays ==
  ASSUME Shape, Shape', Walk, Made, [Next]_vars
  PROVE  Made'
<1>1. /\ Len(values) \in Nat /\ Len(values') \in Nat
      /\ \A v \in 1 .. Len(values) : values'[v] = values[v]
  BY Step, LenProperties DEF Extended, Shape, ValuesOK
<1>2. ASSUME NEW v \in 1 .. Len(values') PROVE MadeOK(values'[v])
  <2>1. CASE v \in 1 .. Len(values)
    BY <1>1, <2>1 DEF Made
  <2>2. CASE v > Len(values)
    BY <2>2, NewMade
  <2> QED BY <1>1, <2>1, <2>2
<1>3. ASSUME NEW x \in DOMAIN namedValues'
      PROVE  /\ values'[namedValues'[x]].op = "param" /\ values'[namedValues'[x]].type = "double"
             /\ values'[namedValues'[x]].of[1] = Len(functions')
             /\ functions'[Len(functions')].params # <<>>
  <2>1. CASE Declaring
    <3>1. /\ \E i : values'[namedValues'[x]] = Instruction("param", "double", <<>>, <<Len(functions) + 1, i>>)
          /\ functions'[Len(functions) + 1].params # <<>>
      BY <2>1, NewNames
    <3>2. Len(functions') = Len(functions) + 1
      BY <2>1, NewFunction
    <3> QED BY <3>1, <3>2 DEF Instruction, Value
  <2>2. CASE ~ Declaring
    <3>1. Len(functions') = Len(functions) /\ namedValues' = namedValues
      BY <2>2, OneDeclares DEF Declaring
    <3>2. namedValues[x] \in 1 .. Len(values)
      BY <3>1 DEF Shape, NamesOK
    <3>3. /\ values[namedValues[x]].op = "param" /\ values[namedValues[x]].type = "double"
          /\ values[namedValues[x]].of[1] = Len(functions)
          /\ functions[Len(functions)].params # <<>>
      BY <3>1 DEF Made
    <3>4. functions'[Len(functions)].params = functions[Len(functions)].params
      <4>1. Len(functions) \in Nat /\ Len(functions) # 0
        <5>1. insertion[1] \in 1 .. Len(functions)
          BY DEF Shape, IsBlock
        <5> QED BY <5>1, LenProperties DEF Shape
      <4> QED BY <4>1, Step DEF Grown
    <3> QED BY <1>1, <3>1, <3>2, <3>3, <3>4
  <2> QED BY <2>1, <2>2
<1> QED BY <1>2, <1>3 DEF Made

\* The steps that change the module within a motif keep its functions.
LEMMA BodyKeeps ==
  ASSUME Shape, Shape', BodyStep
  PROVE  /\ [Next]_vars /\ Len(functions') = Len(functions) /\ Len(functions) \in Nat
         /\ \A f \in 1 .. Len(functions) :
              /\ functions'[f].name = functions[f].name /\ functions'[f].params = functions[f].params
              /\ functions'[f].vararg = functions[f].vararg
              /\ functions'[f].result = functions[f].result
         /\ Len(values) \in Nat /\ Len(values') \in Nat /\ Len(values) <= Len(values')
         /\ \A v \in 1 .. Len(values) : values'[v] = values[v]
<1>1. [Next]_vars
  BY DEF BodyStep, ValueSteps, VisitSteps, Next, GetValue
<1>2. TopNode.kind \in ExpressionKinds
  BY BodyFacts
<1>3. ~ (Prototype \/ BeginMotif)
  BY <1>2 DEF Prototype, BeginMotif, At, ExpressionKinds
<1>4. Len(functions') = Len(functions)
  BY <1>1, <1>3, OneDeclares
<1>5. Len(functions) \in Nat /\ Len(values) \in Nat /\ Len(values') \in Nat
  BY LenProperties DEF Shape, ValuesOK
<1>6. Extended(values, values') /\ Grown(functions, functions')
  BY <1>1, Step
<1> QED BY <1>1, <1>4, <1>5, <1>6 DEF Extended, Grown

LEMMA BoundStays ==
  ASSUME Shape, Shape', Walk, Symbols, Made, Bound, [Next]_vars
  PROVE  Bound'
<1> SUFFICES ASSUME Entered(stack') PROVE Bound'
  BY DEF Bound
<1>1. CASE Idle
  BY <1>1 DEF Idle, module, fields, Bound, Tree, nodes
<1>2. CASE BodyStep /\ ~ Idle
  <2>1. /\ Entered(stack) /\ program' = program /\ next' = next /\ namedValues' = namedValues
        /\ currentFunction' = currentFunction /\ currentBB' = currentBB
    BY <1>2, BodyFacts
  <2>2. /\ Len(functions') = Len(functions)
        /\ \A f \in 1 .. Len(functions) : functions'[f].name = functions[f].name
        /\ \A v \in 1 .. Len(values) : values'[v] = values[v]
    BY <1>2, BodyKeeps
  <2>3. currentFunction \in 1 .. Len(functions)
    BY <2>1, EnteredFacts
  <2>4. \A x \in DOMAIN namedValues : namedValues[x] \in 1 .. Len(values)
    BY DEF Shape, NamesOK
  <2>5. \A x \in DOMAIN namedValues : values'[namedValues[x]] = values[namedValues[x]]
    BY <2>2, <2>4
  <2>6. Tree' = Tree
    BY <2>1 DEF Tree
  <2> QED BY <2>1, <2>2, <2>3, <2>5, <2>6 DEF Bound
<1>3. CASE BeginTree
  <2>1. ~ Entered(stack')
    BY <1>3 DEF BeginTree, Entered, Frame
  <2> QED BY <2>1
<1>4. CASE Prototype \/ Ends
  <2>1. ~ Entered(stack')
    <3>1. CASE Prototype
      <4>1. stack # <<>> /\ TopNode.kind \notin ExpressionKinds /\ stack' = Returned(Len(functions) + 1)
        BY <3>1 DEF Prototype, At, ExpressionKinds
      <4> QED BY <4>1, RootReturns DEF Entered
    <3> QED BY <1>4, <3>1 DEF Ends, Entered
  <2> QED BY <2>1
<1>5. CASE BeginMotif
  <2>1. /\ program' = program /\ next' = next /\ currentBB' = LastBlock(functions', currentFunction')
    BY <1>5, EnterFacts
  <2> DEFINE k == Len(functions) + 1
             x == Source!NameOf(program, Tree)
  <2>2. currentFunction' = k
    BY <1>5 DEF BeginMotif, EnterMotif
  <2>3. MotifName = x /\ Named(functions, x) = NoFunction
    <3>1. MotifName = x
      BY <1>5, RootIs DEF Declaring
    <3> QED BY <1>5, <3>1 DEF BeginMotif
  <2>4. /\ functions'[k].name = UniqueName(functions, x) /\ Len(functions') = k
        /\ functions'[k].blocks = << <<>> >>
    <3>1. ~ Prototype
      BY <1>5 DEF BeginMotif, Prototype, At
    <3> QED BY <1>5, <3>1, NewFunction DEF Declaring
  <2>5. functions'[k].name = x
    BY <2>3, <2>4 DEF UniqueName
  <2>6. currentBB' = <<k, 1>>
    <3>1. Len(functions'[k].blocks) = 1
      BY <2>4
    <3> QED BY <2>1, <2>2, <3>1 DEF LastBlock
  <2>7. ASSUME NEW y \in DOMAIN namedValues'
        PROVE  /\ y \in Source!Range(Source!ParamsOf(program, Tree))
               /\ values'[namedValues'[y]].of[2] =
                    Max({ i \in DOMAIN Source!ParamsOf(program, Tree) :
                            Source!ParamsOf(program, Tree)[i] = y })
    <3> DEFINE S == { i \in DOMAIN Source!ParamsOf(program, Tree) :
                            Source!ParamsOf(program, Tree)[i] = y }
    <3>1. /\ y \in Source!Range(Source!ParamsOf(program, Tree))
          /\ values'[namedValues'[y]] = Instruction("param", "double", <<>>, <<k, Max(S)>>)
      BY <1>5, NewNames DEF Declaring
    <3> HIDE DEF S
    <3>2. values'[namedValues'[y]].of[2] = Max(S)
      BY <3>1 DEF Instruction, Value
    <3> QED BY <3>1, <3>2 DEF S
  <2>8. Tree' = Tree
    BY <2>1 DEF Tree
  <2> HIDE DEF k, x
  <2>9. /\ functions'[currentFunction'].name = x /\ currentFunction' = Len(functions')
        /\ currentBB' = <<currentFunction', 1>>
    BY <2>2, <2>4, <2>5, <2>6
  <2> QED BY <2>1, <2>7, <2>8, <2>9 DEF Bound, x
<1>6. CASE BeginKnownMotif
  <2>1. /\ program' = program /\ next' = next
    BY <1>6, EnterFacts
  <2> DEFINE f == Named(functions, MotifName)
  <2>2. currentFunction' = f /\ f # NoFunction /\ MotifName = Source!NameOf(program, Tree)
    BY <1>6, RootIs DEF BeginKnownMotif, EnterMotif
  <2>3. f \in 1 .. Len(functions) /\ functions[f].name = MotifName
    BY <2>2, NamedFacts DEF Shape
  <2>4. functions'[f].name = functions[f].name
    BY <2>3, Step DEF Grown
  <2>5. ~ Source!IsFresh(program, Tree)
    BY <1>6, <2>2, FreshNames
  <2>6. Tree' = Tree
    BY <2>1 DEF Tree
  <2> QED BY <2>1, <2>2, <2>3, <2>4, <2>5, <2>6 DEF Bound
<1> QED BY <1>1, <1>2, <1>3, <1>4, <1>5, <1>6, StepKinds

LEMMA SymbolsInit == ASSUME Init PROVE SymbolsInv
<1>1. /\ next = 1 /\ stack = <<>> /\ namedValues = <<>>
      /\ values = StdValues /\ functions = StdFunctions
  BY DEF Init, Fresh
<1>2. Walk /\ Bound
  BY <1>1 DEF Walk, Bound, Entered
<1>3. Made
  <2>1. DOMAIN namedValues = {}
    BY <1>1
  <2>2. \A v \in 1 .. 5 : MadeOK(StdValues[v])
    <3>1. /\ MadeOK(StdValues[1]) /\ MadeOK(StdValues[2]) /\ MadeOK(StdValues[3])
          /\ MadeOK(StdValues[4]) /\ MadeOK(StdValues[5])
      BY StdValuesOK DEF MadeOK, Instruction, Constant, CallOf, ReturnOf, Value
    <3> QED BY <3>1
  <2>3. Len(values) = 5
    BY <1>1, StdValuesOK
  <2> QED BY <1>1, <2>1, <2>2, <2>3 DEF Made
<1>4. Symbols
  <2>1. Len(functions) = 2 /\ functions[1] = PrintfDeclaration /\ functions[2] = PrintDefinition
    BY <1>1, StdFunctionsOK
  <2>2. PrintfDeclaration.name = "printf" /\ PrintfDeclaration.params = <<"i8*">>
    BY DEF PrintfDeclaration, Function
  <2>3. /\ PrintDefinition.name = "print" /\ PrintDefinition.params = <<"double">>
        /\ PrintDefinition.result = "void" /\ ~ PrintDefinition.vararg
    BY DEF PrintDefinition, Function
  <2>4. Begun = 0
    BY <1>1 DEF Begun
  <2>5. LibrarySymbols
    BY <2>1, <2>2, <2>3 DEF LibrarySymbols
  <2>6. functions[1].name # functions[2].name
    BY <2>1, <2>2, <2>3
  <2> QED BY <2>1, <2>4, <2>5, <2>6 DEF Symbols
<1> QED BY <1>2, <1>3, <1>4 DEF SymbolsInv

LEMMA SymbolsInvStays == ASSUME Shape, Shape', SymbolsInv, [Next]_vars PROVE SymbolsInv'
  BY WalkStays, SymbolsStay, MadeStays, BoundStays DEF SymbolsInv

-----------------------------------------------------------------------------
(* The frames *)

LEMMA RootedStays ==
  ASSUME Shape, Shape', Rooted, [Next]_vars
  PROVE  Rooted'
<1>1. CASE Idle
  BY <1>1 DEF Idle, Rooted, nodes
<1>2. CASE BodyStep /\ ~ Idle
  <2>1. /\ Len(stack) >= 2 /\ Moves /\ stack'[1].node = stack[1].node /\ program' = program
        /\ stack # <<>>
    BY <1>2, BodyFacts
  <2>2. Len(stack) \in Nat
    BY <2>1, TopIs
  <2>3. stack[1].got = <<>> /\ Len(nodes[stack[1].node].kids) = 2
    BY <2>1 DEF Rooted
  <2>4. nodes' = nodes
    BY <2>1 DEF nodes
  <2>5. CASE Marks
    BY <2>1, <2>2, <2>3, <2>4, <2>5 DEF Marks, Below, Rooted
  <2>6. CASE Pushes
    BY <2>1, <2>2, <2>3, <2>4, <2>6 DEF Pushes, Below, Rooted
  <2>7. ASSUME NEW v \in Nat, Pops(v) PROVE Rooted'
    <3>1. Len(stack') = Len(stack) - 1 /\ Below(stack, stack', Len(stack) - 2)
      BY <2>2, <2>7 DEF Pops
    <3>2. Len(stack') >= 2 => stack'[1] = stack[1]
      BY <2>2, <3>1 DEF Below
    <3> QED BY <2>1, <2>3, <2>4, <3>2 DEF Rooted
  <2> QED BY <2>1, <2>5, <2>6, <2>7 DEF Moves
<1>3. CASE BeginTree
  <2>1. Len(stack') = 1 /\ stack'[1].got = <<>>
    BY <1>3 DEF BeginTree, Frame
  <2> QED BY <2>1 DEF Rooted
<1>4. CASE Prototype \/ Ends
  <2>1. stack' = <<>>
    <3>1. CASE Prototype
      <4>1. stack # <<>> /\ TopNode.kind \notin ExpressionKinds /\ stack' = Returned(Len(functions) + 1)
        BY <3>1 DEF Prototype, At, ExpressionKinds
      <4> QED BY <4>1, RootReturns
    <3> QED BY <1>4, <3>1 DEF Ends
  <2> QED BY <2>1 DEF Rooted
<1>5. CASE BeginMotif \/ BeginKnownMotif
  <2>1. /\ program' = program /\ stack'[1].node = stack[1].node /\ stack'[1].got = <<>>
        /\ Top = stack[1]
        /\ IF Len(TopNode.kids) = 1 THEN Len(stack') = 1 ELSE Len(stack') = 2
    BY <1>5, EnterFacts
  <2>2. Len(TopNode.kids) \in {1, 2}
    <3>1. TopNode.kind = "motif" /\ stack # <<>>
      BY <1>5, EnterFacts
    <3>2. Top.node \in DOMAIN nodes
      BY <3>1, TopFacts
    <3> QED BY <3>1, <3>2, NodeFacts DEF Shape, TopNode
  <2>3. nodes'[stack'[1].node] = TopNode
    BY <2>1 DEF TopNode, nodes
  <2>4. CASE Len(stack') = 1
    BY <2>1, <2>4 DEF Rooted
  <2>5. CASE Len(stack') = 2 /\ Len(TopNode.kids) = 2
    BY <2>1, <2>3, <2>5 DEF Rooted
  <2> QED BY <2>1, <2>2, <2>4, <2>5
<1> QED BY <1>1, <1>2, <1>3, <1>4, <1>5, StepKinds

LEMMA CalleesStay ==
  ASSUME Shape, Shape', Callees, [Next]_vars
  PROVE  Callees'
<1>1. CASE Idle
  BY <1>1 DEF Idle, Callees, nodes, module
<1>2. CASE BodyStep /\ ~ Idle
  <2>1. /\ Len(stack) >= 2 /\ program' = program /\ stack # <<>> /\ TopNode.kind \in ExpressionKinds
        /\ Entered(stack)
    BY <1>2, BodyFacts
  <2>2. Len(stack) \in Nat /\ Len(stack) # 0 /\ Top = stack[Len(stack)]
    BY <2>1, TopIs
  <2>3. nodes' = nodes
    BY <2>1 DEF nodes
  <2>4. \A f \in 1 .. Len(functions) : functions'[f].name = functions[f].name
    BY <1>2, BodyKeeps
  <2>5. ASSUME NEW j \in 1 .. Len(stack)
        PROVE  (nodes[stack[j].node].kind = "call" /\ stack[j].of # <<>>) =>
                 functions'[stack[j].of[1]].name = nodes[stack[j].node].name
    <3>1. FrameOK(nodes, stack[j], functions)
      BY DEF Shape, StackOK
    <3> QED BY <2>4, <3>1 DEF Callees, FrameOK
  <2>6. SUFFICES ASSUME NEW j \in 1 .. Len(stack'), nodes[stack'[j].node].kind = "call",
                        stack'[j].of # <<>>
                 PROVE  functions'[stack'[j].of[1]].name = nodes[stack'[j].node].name
    BY <2>3 DEF Callees
  <2>7. CASE BeginCall
    <3> DEFINE f == Named(functions, TopNode.name)
    <3>1. stack' = With(<<f>>) /\ f # NoFunction
      BY <1>2, <2>7 DEF BeginCall, Halt, Idle
    <3>2. f \in 1 .. Len(functions) /\ functions[f].name = TopNode.name
      BY <3>1, NamedFacts DEF Shape
    <3>3. <<f>> \in Seq(Nat)
      <4>1. f \in Nat
        BY NamedFacts DEF Shape
      <4> QED BY <4>1
    <3> HIDE DEF f
    <3>4. Marks /\ stack'[Len(stack)].of = <<f>>
      BY <2>1, <3>1, <3>3, WithMarks
    <3>5. CASE j = Len(stack)
      BY <2>2, <2>4, <3>2, <3>4, <3>5 DEF Marks, TopNode
    <3>6. CASE j # Len(stack)
      <4>1. j \in 1 .. Len(stack) - 1
        BY <2>2, <3>4, <3>6 DEF Marks
      <4>2. stack'[j] = stack[j]
        BY <3>4, <4>1 DEF Marks, Below
      <4> QED BY <2>2, <2>5, <2>6, <4>1, <4>2
    <3> QED BY <3>5, <3>6
  <2>8. CASE VisitSteps
    <3>1. /\ Pushes
          /\ Operand \/ Argument \/ BeginCondition => stack'[Len(stack)] = stack[Len(stack)]
          /\ BeginIf \/ BeginElse => TopNode.kind = "cond"
      BY <2>1, <2>8, VisitsPush DEF BeginIf, BeginElse, At
    <3>2. CASE j = Len(stack) + 1
      BY <2>6, <3>1, <3>2 DEF Pushes
    <3>3. CASE j = Len(stack)
      <4>1. ~ (BeginIf \/ BeginElse)
        BY <2>2, <2>6, <3>1, <3>3 DEF Pushes, TopNode
      <4>2. stack'[j] = stack[j]
        BY <2>8, <3>1, <3>3, <4>1 DEF VisitSteps
      <4>3. j \in 1 .. Len(stack)
        BY <2>2, <3>3
      <4> QED BY <2>5, <2>6, <4>2, <4>3
    <3>4. CASE j \in 1 .. Len(stack) - 1
      <4>1. stack'[j] = stack[j]
        BY <3>1, <3>4 DEF Pushes, Below
      <4>2. j \in 1 .. Len(stack)
        BY <2>2, <3>4
      <4> QED BY <2>5, <2>6, <4>1, <4>2
    <3> QED BY <2>2, <3>1, <3>2, <3>3, <3>4 DEF Pushes
  <2>9. CASE ValueSteps \/ Variable
    <3>1. PICK v \in Nat : Pops(v)
      <4>1. Moves
        BY <1>2, BodyFacts
      <4>2. CASE Variable
        <5>1. namedValues[TopNode.name] \in Nat
          BY <4>2, ValuesAreCounted DEF Shape, NamesOK, Variable
        <5>2. Pops(namedValues[TopNode.name])
          BY <2>1, <4>2, <5>1, ReturnPops DEF Variable
        <5> QED BY <5>1, <5>2
      <4>3. CASE ValueSteps
        <5>1. stack' = Returned(Len(values) + 1)
          BY <1>2, <4>3, ValuesBuild DEF Builds
        <5>2. Len(values) + 1 \in Nat
          BY ValuesAreCounted
        <5>3. Pops(Len(values) + 1)
          BY <2>1, <5>1, <5>2, ReturnPops
        <5> QED BY <5>2, <5>3
      <4> QED BY <2>9, <4>2, <4>3
    <3>2. /\ j \in 1 .. Len(stack) /\ stack'[j].node = stack[j].node /\ stack'[j].of = stack[j].of
      <4>1. CASE j = Len(stack) - 1
        BY <2>2, <3>1, <4>1 DEF Pops
      <4>2. CASE j # Len(stack) - 1
        <5>1. j \in 1 .. Len(stack) - 2
          BY <2>2, <3>1, <4>2 DEF Pops
        <5>2. stack'[j] = stack[j]
          BY <2>2, <3>1, <5>1 DEF Pops, Below
        <5> QED BY <2>2, <5>1, <5>2
      <4> QED BY <4>1, <4>2
    <3> QED BY <2>5, <2>6, <3>2
  <2> QED BY <1>2, <2>7, <2>8, <2>9 DEF BodyStep
<1>3. CASE BeginTree
  <2>1. Len(stack') = 1 /\ stack'[1].of = <<>>
    BY <1>3 DEF BeginTree, Frame
  <2> QED BY <2>1 DEF Callees
<1>4. CASE Prototype \/ Ends
  <2>1. stack' = <<>>
    <3>1. CASE Prototype
      <4>1. stack # <<>> /\ TopNode.kind \notin ExpressionKinds /\ stack' = Returned(Len(functions) + 1)
        BY <3>1 DEF Prototype, At, ExpressionKinds
      <4> QED BY <4>1, RootReturns
    <3> QED BY <1>4, <3>1 DEF Ends
  <2> QED BY <2>1 DEF Callees
<1>5. CASE BeginMotif \/ BeginKnownMotif
  <2>1. /\ program' = program /\ stack'[1].node = stack[1].node
        /\ Top = stack[1] /\ TopNode.kind = "motif"
        /\ IF Len(TopNode.kids) = 1 THEN Len(stack') = 1
                                    ELSE Len(stack') = 2 /\ stack'[2].of = <<>>
    BY <1>5, EnterFacts
  <2>2. nodes'[stack'[1].node].kind = "motif"
    BY <2>1 DEF nodes, TopNode
  <2>3. ASSUME NEW j \in 1 .. Len(stack') PROVE nodes'[stack'[j].node].kind # "call" \/ stack'[j].of = <<>>
    <3>1. j = 1 \/ (j = 2 /\ stack'[2].of = <<>>)
      <4>1. CASE Len(stack') = 1
        BY <4>1
      <4>2. CASE Len(stack') = 2 /\ stack'[2].of = <<>>
        BY <4>2
      <4> QED BY <2>1, <4>1, <4>2
    <3> QED BY <2>2, <3>1
  <2> QED BY <2>3 DEF Callees
<1> QED BY <1>1, <1>2, <1>3, <1>4, <1>5, StepKinds

LEMMA MaxIs ==
  ASSUME NEW k \in Nat, NEW S \in SUBSET (1 .. k), k \in S
  PROVE  Max(S) = k
<1>1. \A y \in S : k >= y
  OBVIOUS
<1>2. \A x \in S : (\A y \in S : x >= y) => x = k
  BY <1>1
<1> QED BY <1>1, <1>2 DEF Max

LEMMA LastNamesStay ==
  ASSUME Shape, Shape', Walk, Symbols, LastNames, [Next]_vars
  PROVE  LastNames'
<1> SUFFICES ASSUME Source!DeclaredOnce(program), NEW x \in DOMAIN namedValues'
             PROVE  /\ FreshTrees(Begun)' # {}
                    /\ x \in Source!Range(Source!ParamsOf(program, Max(FreshTrees(Begun)')))
  BY ProgramStays DEF LastNames
<1>1. program' = program /\ Begun \in Int /\ Begun' \in Int
  BY ProgramStays, BegunIs
<1>2. CASE Declaring
  <2>1. Begun' = Tree /\ Tree \in 1 .. Len(program.trees)
    BY <1>2, BegunIs, RootIs DEF Tree
  <2>2. Source!IsFresh(program, Tree)
    <3>1. CASE BeginMotif
      <4>1. MotifName = Source!NameOf(program, Tree)
        BY <3>1, RootIs DEF Declaring
      <4>2. Named(functions, MotifName) = NoFunction
        BY <3>1 DEF BeginMotif
      <4> QED BY <1>2, <4>1, <4>2, FreshNames
    <3>2. CASE Prototype
      <4>1. ~ Source!IsMotif(program, Tree)
        BY <1>2, <3>2, RootIs
      <4>2. Tree \in DOMAIN program.trees
        BY <2>1 DEF Shape, Generatable
      <4> QED BY <4>1, <4>2 DEF Source!DeclaredOnce, Source!IsExpression
    <3> QED BY <1>2, <3>1, <3>2 DEF Declaring
  <2>3. Tree \in Nat /\ Tree \in FreshTrees(Tree) /\ FreshTrees(Tree) \in SUBSET (1 .. Tree)
    BY <2>1, <2>2 DEF FreshTrees
  <2>4. Max(FreshTrees(Tree)) = Tree
    BY <2>3, MaxIs
  <2>5. FreshTrees(Begun)' = FreshTrees(Tree)
    BY <1>1, <2>1 DEF FreshTrees
  <2>6. x \in Source!Range(Source!ParamsOf(program, Tree))
    BY <1>2, NewNames
  <2> QED BY <2>3, <2>4, <2>5, <2>6
<1>3. CASE BeginKnownMotif
  <2>1. Begun' = Tree /\ Begun = Tree - 1 /\ Tree \in 1 .. Len(program.trees)
    BY <1>3, BegunIs, RootIs DEF Tree
  <2>2. ~ Source!IsFresh(program, Tree)
    <3>1. MotifName = Source!NameOf(program, Tree)
      BY <1>3, RootIs
    <3>2. Named(functions, MotifName) # NoFunction
      BY <1>3 DEF BeginKnownMotif
    <3> QED BY <1>3, <3>1, <3>2, FreshNames
  <2>3. FreshTrees(Begun)' = FreshTrees(Begun)
    BY <1>1, <2>1, <2>2 DEF FreshTrees
  <2>4. namedValues' = namedValues
    BY <1>3 DEF BeginKnownMotif
  <2> QED BY <2>3, <2>4 DEF LastNames
<1>4. CASE ~ (Declaring \/ BeginKnownMotif)
  <2>1. Begun' = Begun /\ namedValues' = namedValues
    BY <1>4, BegunIs, OneDeclares DEF Declaring
  <2>2. FreshTrees(Begun)' = FreshTrees(Begun)
    BY <1>1, <2>1 DEF FreshTrees
  <2> QED BY <2>1, <2>2 DEF LastNames
<1> QED BY <1>2, <1>3, <1>4
-----------------------------------------------------------------------------
(* Terms stay what they are *)

LEMMA TermsSolved ==
  ValuesOK(values) =>
    Terms = [v \in 1 .. Len(values) |-> TermStep(Terms, v)] /\ Len(values) \in Nat
  BY TermsSolve

LEMMA TermsSolveNext ==
  ASSUME ValuesOK(values)'
  PROVE  /\ Terms' = [v \in 1 .. Len(values') |-> TermStep(Terms, v)']
         /\ Len(values') \in Nat
<1>1. (ValuesOK(values) =>
        Terms = [v \in 1 .. Len(values) |-> TermStep(Terms, v)] /\ Len(values) \in Nat)'
  BY TermsSolved, PTL
<1> QED BY <1>1

\* TermOf, in the module fs.
NamedTerm(fs, value, args) ==
  CASE value.op = "param" -> Source!Term("param", <<value.of[2]>>, <<>>)
    [] value.op = "call"  -> Source!Term("call", <<fs[value.of[1]].name>>, args)
    [] OTHER              -> Source!Term(value.op, value.of, args)

LEMMA TermsStay ==
  ASSUME Shape, Shape', CallsInv, [Next]_vars
  PROVE  \A v \in 1 .. Len(values) : Terms'[v] = Terms[v]
<1>1. /\ Len(values) \in Nat /\ Len(values') \in Nat /\ Len(values) <= Len(values')
      /\ \A v \in 1 .. Len(values) : values'[v] = values[v]
      /\ \A f \in 1 .. Len(functions) : functions'[f].name = functions[f].name
  BY Step, LenProperties DEF Extended, Grown, Shape, ValuesOK
<1>2. Terms = [v \in 1 .. Len(values) |-> TermStep(Terms, v)]
  BY TermsSolve DEF Shape
<1>3. Terms' = [v \in 1 .. Len(values') |-> TermStep(Terms, v)']
  BY TermsSolveNext DEF Shape
<1>4. ASSUME NEW v \in 1 .. Len(values) PROVE Terms'[v] = TermStep(Terms', v)
  <2>1. Terms'[v] = TermStep(Terms, v)'
    <3> HIDE DEF Terms
    <3> QED BY <1>1, <1>3
  <2>2. values'[v] = values[v]
    BY <1>1
  <2>3. values[v].op = "call" => functions'[values[v].of[1]].name = functions[values[v].of[1]].name
    BY <1>1 DEF CallsInv, CallsOK
  <2> HIDE DEF Terms
  <2> DEFINE args == [i \in DOMAIN values[v].args |-> Terms'[values[v].args[i]]]
  <2>4. TermStep(Terms, v)' = NamedTerm(functions', values'[v],
          [i \in DOMAIN values'[v].args |-> Terms'[values'[v].args[i]]])
    BY DEF TermStep, TermOf, NamedTerm
  <2>5. NamedTerm(functions', values[v], args) = NamedTerm(functions, values[v], args)
    <3> HIDE DEF args
    <3> QED BY <2>3 DEF NamedTerm
  <2>6. NamedTerm(functions, values[v], args) = TermStep(Terms', v)
    BY DEF TermStep, TermOf, NamedTerm
  <2> QED BY <2>1, <2>2, <2>4, <2>5, <2>6
<1>5. \A v \in 1 .. Len(values) : Terms[v] = TermStep(Terms, v)
  <2> HIDE DEF Terms
  <2> QED BY <1>1, <1>2
<1>6. ValueTerms!Looks(Len(values))
  BY TermsLook DEF Shape
<1> HIDE DEF Terms
<1> QED BY <1>1, <1>4, <1>5, <1>6, ValueTerms!Unique

LEMMA MatchedStays ==
  ASSUME Shape, Shape', CallsInv, [Next]_vars, next' = next
  PROVE  Matched \subseteq Matched'
<1>1. /\ program' = program /\ nodes' = nodes /\ Tree' = Tree
  BY ProgramStays DEF nodes, Tree
<1>2. /\ Len(values) \in Nat /\ Len(values') \in Nat /\ Len(values) <= Len(values')
      /\ \A v \in 1 .. Len(values) : values'[v] = values[v]
  BY Step, LenProperties DEF Extended, Shape, ValuesOK
<1>3. SUFFICES ASSUME NEW v \in 1 .. Len(values), NEW n \in DOMAIN nodes, Matches(v, n)
               PROVE  Matches(v, n)'
  <2>1. ASSUME NEW vn \in Matched PROVE vn \in Matched'
    <3>1. vn \in (1 .. Len(values)) \X DOMAIN nodes /\ Matches(vn[1], vn[2])
      BY <2>1 DEF Matched
    <3>2. vn \in (1 .. Len(values')) \X DOMAIN nodes'
      BY <1>1, <1>2, <3>1
    <3>3. Matches(vn[1], vn[2])'
      <4>1. PICK v \in 1 .. Len(values), n \in DOMAIN nodes : v = vn[1] /\ n = vn[2] /\ Matches(v, n)
        BY <3>1
      <4>2. Matches(v, n)'
        BY <1>3, <4>1
      <4> QED BY <4>1, <4>2
    <3> QED BY <3>2, <3>3 DEF Matched
  <2> QED BY <2>1
<1>4. Terms'[v] = Terms[v]
  BY TermsStay
<1>5. MeaningOf(n)' = MeaningOf(n) /\ TypeOfNode(n)' = TypeOfNode(n) /\ Folded(n)' = Folded(n)
  BY <1>1 DEF MeaningOf, TypeOfNode, Folded
<1>6. values'[v] = values[v]
  BY <1>2
<1>7. Source!MixesConstants(program') = Source!MixesConstants(program)
  BY <1>1
<1> HIDE DEF Terms, MeaningOf, TypeOfNode, Folded
<1> QED BY <1>1, <1>3, <1>4, <1>5, <1>6, <1>7 DEF Matches

-----------------------------------------------------------------------------
(* Blocks *)

\* What the step inserts where the builder stands.
Inserts ==
  \/ BeginElse \/ BeginCondition
  \/ ValueSteps /\ ~ Idle /\ ~ Built.constant

LEMMA BodyBlocks ==
  ASSUME Shape, Shape', BodyStep
  PROVE  LET c  == currentFunction
             bs == functions[c].blocks
             cs == functions'[c].blocks
             at == insertion[2]
         IN /\ c \in 1 .. Len(functions) /\ insertion[1] = c
            /\ Len(bs) \in Nat /\ at \in 1 .. Len(bs)
            /\ Len(cs) = IF BeginIf \/ BeginElse THEN Len(bs) + 1 ELSE Len(bs)
            /\ \A b \in 1 .. Len(bs) :
                 cs[b] = IF b = at /\ Inserts THEN Append(bs[b], Len(values) + 1) ELSE bs[b]
<1> DEFINE c  == currentFunction
           bs == functions[c].blocks
           cs == functions'[c].blocks
           at == insertion[2]
           n  == Len(values)
<1>1. /\ c \in 1 .. Len(functions) /\ insertion[1] = c /\ IsBlock(functions, insertion)
      /\ stack # <<>> /\ Entered(stack)
  BY BodyFacts, EnteredFacts
<1>2. /\ functions \in Seq(FunctionType(n)) /\ n \in Nat /\ n + 1 \in Nat /\ n <= n + 1
      /\ n + 1 \in 1 .. n + 1
  BY ValuesAreCounted DEF Shape
<1>3. functions \in Seq(FunctionType(n + 1))
  BY <1>2, MoreValues
<1>4. Len(bs) \in Nat /\ at \in 1 .. Len(bs)
  BY <1>1, <1>2, FunctionFacts DEF IsBlock
<1> DEFINE fs == InsertInto(functions, insertion, n + 1)
<1>5. /\ fs \in Seq(FunctionType(n + 1)) /\ Len(fs) = Len(functions)
      /\ Len(fs[c].blocks) = Len(bs)
      /\ \A b \in 1 .. Len(bs) : fs[c].blocks[b] = IF b = at THEN Append(bs[b], n + 1) ELSE bs[b]
  BY <1>1, <1>2, <1>3, Inserted
<1>6. CASE ~ Inserts /\ ~ BeginIf
  <2>1. functions' = functions
    <3>1. CASE ValueSteps
      BY <1>6, <3>1, ValuesBuild DEF Inserts, Idle, module, Builds
    <3>2. CASE Variable \/ Operand \/ Argument \/ BeginCall
      BY <3>2 DEF Variable, Operand, Argument, BeginCall, Halt, module
    <3> QED BY <1>6, <3>1, <3>2 DEF BodyStep, VisitSteps, Inserts
  <2>2. ~ (BeginIf \/ BeginElse)
    BY <1>6 DEF Inserts
  <2> QED BY <1>1, <1>4, <1>6, <2>1, <2>2
<1>7. CASE BeginIf
  <2>1. functions' = AppendBlock(functions, c)
    BY <1>7 DEF BeginIf, GenerateInto
  <2> HIDE DEF fs, c
  <2>2. /\ Len(functions'[c].blocks) = Len(bs) + 1
        /\ \A b \in 1 .. Len(bs) : functions'[c].blocks[b] = bs[b]
    <3> DEFINE gs == AppendBlock(functions, c)
    <3>1. c \in 1 .. Len(functions)
      BY <1>1
    <3>2. /\ Len(gs[c].blocks) = Len(functions[c].blocks) + 1
          /\ \A b \in 1 .. Len(functions[c].blocks) : gs[c].blocks[b] = functions[c].blocks[b]
      BY <1>2, <3>1, Blocked
    <3> HIDE DEF gs
    <3> QED BY <2>1, <3>2 DEF gs
  <2>3. ~ Inserts
    BY <1>7 DEF Inserts, BeginIf, BeginElse, BeginCondition, ValueSteps, Number, BinaryOperation,
       BuildCall, BuildBranch, InCall, At
  <2> QED BY <1>1, <1>4, <1>7, <2>2, <2>3 DEF c
<1>8. CASE BeginElse
  <2>1. functions' = AppendBlock(fs, c)
    BY <1>8 DEF BeginElse, GenerateInto
  <2>2. c \in 1 .. Len(fs)
    BY <1>1, <1>5
  <2> HIDE DEF fs
  <2>3. /\ Len(functions'[c].blocks) = Len(fs[c].blocks) + 1
        /\ \A b \in 1 .. Len(fs[c].blocks) : functions'[c].blocks[b] = fs[c].blocks[b]
    <3> DEFINE gs == AppendBlock(fs, c)
    <3>1. /\ Len(gs[c].blocks) = Len(fs[c].blocks) + 1
          /\ \A b \in 1 .. Len(fs[c].blocks) : gs[c].blocks[b] = fs[c].blocks[b]
      BY <1>2, <1>5, <2>2, Blocked
    <3> HIDE DEF gs
    <3> QED BY <2>1, <3>1 DEF gs
  <2>4. Inserts
    BY <1>8 DEF Inserts
  <2>5. Len(functions'[c].blocks) = Len(bs) + 1
    BY <1>5, <2>3
  <2>6. \A b \in 1 .. Len(bs) :
          functions'[c].blocks[b] = IF b = at THEN Append(bs[b], n + 1) ELSE bs[b]
    BY <1>5, <2>3
  <2> QED BY <1>1, <1>4, <1>8, <2>4, <2>5, <2>6
<1>9. CASE Inserts /\ ~ BeginElse
  <2>1. functions' = fs /\ ~ BeginIf
    <3>1. CASE BeginCondition
      BY <3>1 DEF BeginCondition, BeginIf, At
    <3>2. CASE ValueSteps /\ ~ Idle /\ ~ Built.constant
      <4>1. functions' = fs
        BY <3>2, ValuesBuild DEF Builds
      <4>2. ~ BeginIf
        BY <3>2 DEF BeginIf, ValueSteps, Number, BinaryOperation, BuildCall, BuildBranch, InCall, At
      <4> QED BY <4>1, <4>2
    <3> QED BY <1>9, <3>1, <3>2 DEF Inserts
  <2> HIDE DEF fs
  <2> QED BY <1>1, <1>4, <1>5, <1>9, <2>1
<1> QED BY <1>6, <1>7, <1>8, <1>9

\* What a block of the function contains, it contains.
LEMMA InBlockStays ==
  ASSUME Shape, Shape', BodyStep, NEW b \in 1 .. Len(functions[currentFunction].blocks), NEW v,
         InBlock(functions, currentFunction, b, v)
  PROVE  /\ b \in 1 .. Len(functions'[currentFunction].blocks)
         /\ InBlock(functions', currentFunction, b, v)
<1> DEFINE bs == functions[currentFunction].blocks
           cs == functions'[currentFunction].blocks
<1>1. /\ Len(bs) \in Nat /\ (Len(cs) = Len(bs) \/ Len(cs) = Len(bs) + 1)
      /\ (cs[b] = bs[b] \/ cs[b] = Append(bs[b], Len(values) + 1))
      /\ currentFunction \in 1 .. Len(functions)
  BY BodyBlocks
<1>2. /\ bs[b] \in Seq(1 .. Len(values)) /\ DOMAIN bs[b] = 1 .. Len(bs[b])
      /\ Len(values) \in Nat
  BY <1>1, BlockFacts, ValuesAreCounted DEF Shape
<1>3. b \in 1 .. Len(cs)
  BY <1>1
<1>4. PICK i \in 1 .. Len(bs[b]) : bs[b][i] = v
  BY <1>2 DEF InBlock
<1>5. i \in DOMAIN cs[b] /\ cs[b][i] = v
  <2>1. CASE cs[b] = bs[b]
    BY <1>2, <1>4, <2>1
  <2>2. CASE cs[b] = Append(bs[b], Len(values) + 1)
    <3>1. bs[b] \in Seq(Nat)
      BY <1>2
    <3> HIDE DEF bs
    <3> QED BY <1>2, <1>4, <2>2, <3>1, AppendProperties
  <2> QED BY <1>1, <2>1, <2>2
<1> QED BY <1>3, <1>5 DEF InBlock

\* The new instruction is in its block.
LEMMA NewInBlock ==
  ASSUME Shape, Shape', BodyStep, Inserts
  PROVE  InBlock(functions', currentFunction, insertion[2], Len(values) + 1)
<1> DEFINE bs == functions[currentFunction].blocks
           cs == functions'[currentFunction].blocks
           at == insertion[2]
<1>1. /\ Len(bs) \in Nat /\ at \in 1 .. Len(bs) /\ currentFunction \in 1 .. Len(functions)
      /\ cs[at] = Append(bs[at], Len(values) + 1)
  BY BodyBlocks
<1>2. bs[at] \in Seq(1 .. Len(values)) /\ Len(bs[at]) \in Nat /\ Len(values) \in Nat
  BY <1>1, BlockFacts, ValuesAreCounted DEF Shape
<1>3. bs[at] \in Seq(Nat) /\ Len(values) + 1 \in Nat
  BY <1>2
<1> HIDE DEF bs, at
<1>4. Len(cs[at]) = Len(bs[at]) + 1 /\ cs[at][Len(bs[at]) + 1] = Len(values) + 1
      /\ DOMAIN cs[at] = 1 .. Len(bs[at]) + 1
  BY <1>1, <1>2, <1>3, AppendProperties
<1>5. Len(bs[at]) + 1 \in DOMAIN cs[at]
  BY <1>2, <1>4
<1> HIDE DEF cs
<1> QED BY <1>4, <1>5 DEF at, cs, InBlock

-----------------------------------------------------------------------------
(* A motif that cannot be verified stays so *)

\* What the verifier says of an instruction does not change any more.
LEMMA VerifiedBefore ==
  ASSUME NEW vs, ValuesOK(vs), NEW ws, Extended(vs, ws),
         NEW fs \in Seq(FunctionType(Len(vs))), NEW gs, Grown(fs, gs), CallsOK(fs, vs),
         NEW f \in 1 .. Len(fs), NEW v \in 1 .. Len(vs), InstructionVerified(gs, ws, f, ws[v])
  PROVE  InstructionVerified(fs, vs, f, vs[v])
<1> DEFINE value == vs[v]
<1>1. PICK n \in Nat : n = Len(vs) /\ DOMAIN vs = 1 .. n
  BY LenProperties DEF ValuesOK
<1>2. \A i \in DOMAIN value.args : value.args[i] \in 1 .. n
  <2>1. 1 .. v - 1 \subseteq 1 .. n
    BY <1>1
  <2> QED BY <1>1, <2>1, Zenon DEF ValuesOK, Older
<1>3. ws[v] = value
  BY DEF Extended
<1>4. \A i \in DOMAIN value.args : ws[value.args[i]] = vs[value.args[i]]
  BY <1>1, <1>2 DEF Extended
<1>5. [i \in DOMAIN value.args |-> ws[value.args[i]].type]
        = [i \in DOMAIN value.args |-> vs[value.args[i]].type]
  BY <1>4
<1>6. value.op = "call" =>
        /\ gs[value.of[1]].params = fs[value.of[1]].params
        /\ gs[value.of[1]].vararg = fs[value.of[1]].vararg
  <2>1. value.op = "call" => value.of[1] \in 1 .. Len(fs)
    BY <1>1 DEF CallsOK
  <2> QED BY <2>1 DEF Grown
<1>7. value \in Value_
  BY <1>1, ElementOfSeq, Zenon DEF ValuesOK
<1> HIDE DEF value
<1>8. WellTyped(fs, vs, value)
  <2>1. WellTyped(gs, ws, value)
    BY <1>3 DEF InstructionVerified
  <2>2. CASE value.op = "call"
    <3>1. value.op # "br" /\ value.op \notin Arithmetic \cup {"<"}
      BY <2>2 DEF Arithmetic
    <3> QED BY <1>5, <1>6, <2>1, <2>2, <3>1 DEF WellTyped
  <2>3. CASE value.op # "call"
    BY <1>5, <2>1, <2>3 DEF WellTyped
  <2> QED BY <2>2, <2>3
<1>9. OwnParameters(vs, f, value)
  BY <1>3, <1>4 DEF InstructionVerified, OwnParameters
<1>10. ReturnsResult(fs, vs, f, value)
  <2>1. ReturnsResult(gs, ws, f, value) /\ value.args \in Seq(Nat)
    BY <1>3, <1>7 DEF InstructionVerified, Value_
  <2>2. value.args # <<>> => 1 \in DOMAIN value.args
    BY <2>1
  <2>3. gs[f].result = fs[f].result
    BY DEF Grown
  <2> QED BY <1>4, <2>1, <2>2, <2>3 DEF ReturnsResult
<1> QED BY <1>8, <1>9, <1>10 DEF InstructionVerified, value

LEMMA BrokenStays ==
  ASSUME Shape, Shape', CallsInv, BodyStep, ~ Idle, Broken
  PROVE  Broken'
<1> DEFINE c == currentFunction
<1>1. PICK v \in 1 .. Len(values) :
        /\ InBlocks(functions, c, v) /\ ~ InstructionVerified(functions, values, c, values[v])
  BY DEF Broken
<1>2. /\ c \in 1 .. Len(functions) /\ currentFunction' = currentFunction
      /\ DOMAIN functions[c].blocks = 1 .. Len(functions[c].blocks)
  BY BodyBlocks, BodyFacts, BlockFacts DEF Shape
<1>3. PICK b \in 1 .. Len(functions[c].blocks) : InBlock(functions, c, b, v)
  BY <1>1, <1>2 DEF InBlocks, InBlock
<1>4. InBlocks(functions', c, v)
  <2>1. b \in 1 .. Len(functions'[c].blocks) /\ InBlock(functions', c, b, v)
    BY <1>3, InBlockStays
  <2>2. DOMAIN functions'[c].blocks = 1 .. Len(functions'[c].blocks)
    <3>1. functions' \in Seq(FunctionType(Len(values'))) /\ c \in 1 .. Len(functions')
      BY <1>2, BodyKeeps DEF Shape
    <3> QED BY <3>1, BlockFacts
  <2> QED BY <2>1, <2>2 DEF InBlocks, InBlock
<1>5. /\ [Next]_vars /\ v \in 1 .. Len(values')
  BY BodyKeeps
<1>6. ~ InstructionVerified(functions', values', c, values'[v])
  <2>1. Extended(values, values') /\ Grown(functions, functions')
    BY <1>5, Step
  <2> QED BY <1>1, <1>2, <2>1, VerifiedBefore DEF Shape, CallsInv
<1> QED BY <1>2, <1>4, <1>5, <1>6 DEF Broken

\* A new instruction that is not verified.
LEMMA BreaksBy ==
  ASSUME Shape, Shape', BodyStep, ~ Idle, Inserts,
         ~ InstructionVerified(functions', values', currentFunction, values'[Len(values) + 1])
  PROVE  Broken'
<1> DEFINE c == currentFunction
           v == Len(values) + 1
<1>1. /\ c \in 1 .. Len(functions) /\ currentFunction' = currentFunction
      /\ Len(functions[c].blocks) \in Nat /\ insertion[2] \in 1 .. Len(functions[c].blocks)
      /\ Len(functions[c].blocks) <= Len(functions'[c].blocks)
  BY BodyBlocks, BodyFacts
<1>2. functions' \in Seq(FunctionType(Len(values'))) /\ c \in 1 .. Len(functions')
  BY <1>1, BodyKeeps DEF Shape
<1>3. DOMAIN functions'[c].blocks = 1 .. Len(functions'[c].blocks)
      /\ Len(functions'[c].blocks) \in Nat
  BY <1>2, BlockFacts, FunctionFacts
<1>4. insertion[2] \in DOMAIN functions'[c].blocks
  BY <1>1, <1>3
<1>5. InBlocks(functions', c, v)
  BY <1>4, NewInBlock DEF InBlocks, InBlock
<1>6. v \in 1 .. Len(values')
  <2>1. \E w : values' = Append(values, w)
    BY BodyValue, ValuesBuild DEF Inserts, BeginElse, BeginCondition, WithReturn, Builds
  <2>2. Len(values) \in Nat /\ Len(values') = Len(values) + 1
    BY <2>1, Appended
  <2> QED BY <2>2
<1> QED BY <1>1, <1>5, <1>6 DEF Broken

-----------------------------------------------------------------------------
(* The function of a tracked motif *)

LEMMA RootFacts ==
  ASSUME Shape, Walk, Entered(stack)
  PROVE  /\ Tree \in 1 .. Len(program.trees) /\ Tree \in DOMAIN program.trees /\ Tree \in Nat
         /\ stack[1].node = program.trees[Tree] /\ stack[1].node \in DOMAIN nodes
         /\ nodes[stack[1].node].kind = "motif" /\ Source!IsMotif(program, Tree)
         /\ Begun = Tree
<1>1. stack # <<>> /\ stack[1].of # <<>>
  BY DEF Entered
<1>2. next > 1 /\ stack[1].node = program.trees[Tree]
  BY <1>1 DEF Walk
<1>3. next \in Nat /\ Len(program.trees) \in Nat /\ DOMAIN program.trees = 1 .. Len(program.trees)
  BY DEF Shape, Generatable
<1>4. Tree \in 1 .. Len(program.trees)
  BY <1>2, <1>3 DEF Tree, Shape
<1>5. stack \in Seq(FrameType(nodes, Len(values))) /\ Len(stack) \in Nat \ {0}
  BY <1>1, TopIs
<1>6. 1 \in 1 .. Len(stack)
  BY <1>5
<1>7. stack[1].node \in DOMAIN nodes
  <2>1. stack[1] \in FrameType(nodes, Len(values))
    BY <1>5, <1>6
  <2> QED BY <2>1 DEF FrameType
<1>8. nodes[stack[1].node].kind = "motif"
  <2>1. FrameOK(nodes, stack[1], functions) /\ nodes[stack[1].node].kind \in Roots
    BY <1>6 DEF Shape, StackOK
  <2> QED BY <1>1, <2>1 DEF FrameOK, Roots
<1>9. Source!IsMotif(program, Tree)
  BY <1>2, <1>8 DEF Source!IsMotif, nodes
<1>10. Begun = Tree
  BY DEF Begun, Tree, Entered
<1> QED BY <1>2, <1>3, <1>4, <1>7, <1>8, <1>9, <1>10

LEMMA TrackedFunction ==
  ASSUME Shape, SymbolsInv, Entered(stack), Tracked
  PROVE  /\ currentFunction \in 3 .. Len(functions)
         /\ functions[currentFunction].name = Source!NameOf(program, Tree)
         /\ functions[currentFunction].result =
              (IF Source!NameOf(program, Tree) = "main" THEN "i32" ELSE "double")
         /\ ~ Source!IsFresh(program, Tree) =>
              /\ Source!IsExpression(program, Tree) /\ functions[currentFunction].params = <<>>
<1> DEFINE c == currentFunction
           x == Source!NameOf(program, Tree)
<1>1. Tree \in DOMAIN program.trees /\ Begun = Tree /\ Tree \in Nat
  BY RootFacts DEF SymbolsInv
<1>2. c \in 1 .. Len(functions) /\ functions[c].name = x
  BY EnteredFacts DEF SymbolsInv, Bound
<1>3. \/ Source!IsFresh(program, Tree)
      \/ /\ Source!IsExpression(program, Tree) /\ Source!DeclaredOnce(program)
         /\ \A j \in 1 .. Tree - 1 : Source!NameOf(program, j) = "main" => Source!IsExpression(program, j)
  BY <1>1 DEF Tracked, Source!DeclaredOnce
<1>4. x # "print" /\ x # "printf"
  BY <1>3 DEF Source!IsFresh, Source!Library, Source!IsExpression
<1>5. c \in 3 .. Len(functions)
  <2>1. c # 1 /\ c # 2
    BY <1>2, <1>4 DEF SymbolsInv, Symbols, LibrarySymbols
  <2> QED BY <1>2, <2>1
<1>6. x # Renamed
  <2>1. PICK n \in DOMAIN nodes : nodes[n].name = x
    <3>1. stack[1].node = program.trees[Tree] /\ stack[1].node \in DOMAIN nodes
          /\ nodes[stack[1].node].kind = "motif" /\ Source!IsMotif(program, Tree)
      BY RootFacts DEF SymbolsInv
    <3>2. nodes[stack[1].node].kids[1] \in DOMAIN nodes
      <4>1. Len(nodes[stack[1].node].kids) \in {1, 2}
        BY <3>1, NodeFacts DEF Shape
      <4>2. 1 \in 1 .. Len(nodes[stack[1].node].kids)
        <5>1. PICK k \in {1, 2} : k = Len(nodes[stack[1].node].kids)
          BY <4>1
        <5>2. 1 \in 1 .. k
          OBVIOUS
        <5> QED BY <5>1, <5>2
      <4> QED BY <3>1, <4>2, NodeFacts DEF Shape
    <3>3. x = nodes[nodes[stack[1].node].kids[1]].name
      BY <3>1 DEF Source!NameOf, Source!Proto, nodes
    <3> QED BY <3>2, <3>3
  <2> QED BY <2>1, NamesArePlain DEF Shape
<1>7. Symbol(c)
  BY <1>5 DEF SymbolsInv, Symbols
<1>8. functions[c].result = IF x = "main" THEN "i32" ELSE "double"
  BY <1>2, <1>4, <1>6, <1>7 DEF Symbol, Source!ResultOf
<1>9. ASSUME ~ Source!IsFresh(program, Tree)
      PROVE  Source!IsExpression(program, Tree) /\ functions[c].params = <<>>
  <2>1. /\ Source!IsExpression(program, Tree) /\ x = "main"
        /\ \A j \in 1 .. Tree - 1 : Source!NameOf(program, j) = "main" => Source!IsExpression(program, j)
    BY <1>3, <1>9 DEF Source!IsExpression
  <2>2. PICK k \in 1 .. Tree : DeclaredBy(c, k)
    BY <1>1, <1>2, <1>6, <1>7 DEF Symbol
  <2>3. /\ k # Tree /\ Source!NameOf(program, k) = "main"
        /\ Len(functions[c].params) = Len(Source!ParamsOf(program, k))
    BY <1>2, <1>9, <2>1, <2>2 DEF DeclaredBy
  <2>4. Source!ParamsOf(program, k) = <<>>
    <3>1. k \in 1 .. Tree - 1
      BY <1>1, <2>3
    <3> QED BY <2>1, <2>3, <3>1 DEF Source!IsExpression
  <2>5. Len(functions[c].params) = 0 /\ functions[c].params \in Seq(Types)
    BY <1>2, <2>3, <2>4, FunctionFacts DEF Shape
  <2> QED BY <2>1, <2>5
<1> QED BY <1>2, <1>5, <1>8, <1>9

\* No function takes the value of a branch.
LEMMA ParamTypes ==
  ASSUME Shape, Symbols, NEW f \in 1 .. Len(functions), NEW i \in DOMAIN functions[f].params
  PROVE  functions[f].params[i] # "void"
<1>1. CASE f = 1
  BY <1>1 DEF Symbols, LibrarySymbols
<1>2. CASE f = 2
  BY <1>2 DEF Symbols, LibrarySymbols
<1>3. CASE f \in 3 .. Len(functions)
  BY <1>3 DEF Symbols, Symbol
<1> QED BY <1>1, <1>2, <1>3

-----------------------------------------------------------------------------
(* Operands that no instruction can have *)

LEMMA CallTypes ==
  ASSUME NEW fs, NEW vs, NEW w, w.op = "call", WellTyped(fs, vs, w), w.args \in Seq(Nat),
         fs[w.of[1]].params \in Seq(Types), Len(w.args) = Len(fs[w.of[1]].params)
  PROVE  \A i \in DOMAIN w.args :
           i \in DOMAIN fs[w.of[1]].params /\ vs[w.args[i]].type = fs[w.of[1]].params[i]
<1> DEFINE params == fs[w.of[1]].params
           type   == [i \in DOMAIN w.args |-> vs[w.args[i]].type]
<1>1. w.op # "br" /\ w.op \notin Arithmetic \cup {"<"}
  BY DEF Arithmetic
<1>2. IF fs[w.of[1]].vararg THEN IsPrefix(params, type) ELSE params = type
  BY <1>1 DEF WellTyped
<1>3. PICK n \in Nat : n = Len(w.args) /\ DOMAIN w.args = 1 .. n
  OBVIOUS
<1>4. Len(params) = n /\ DOMAIN params = 1 .. n /\ params \in Seq(Types)
  BY <1>3
<1>5. \A i \in 1 .. n : type[i] = vs[w.args[i]].type
  BY <1>3
<1>6. CASE params = type
  BY <1>3, <1>4, <1>5, <1>6
<1>7. CASE IsPrefix(params, type)
  <2>1. type = [i \in 1 .. n |-> vs[w.args[i]].type]
    BY <1>3
  <2>2. SubSeq(params, 1, n) = SubSeq(type, 1, n)
    BY <1>4, <1>7 DEF IsPrefix
  <2> HIDE DEF params, type
  <2>3. \A i \in 1 .. n : SubSeq(params, 1, n)[i] = params[i]
    BY <1>4
  <2>4. \A i \in 1 .. n : SubSeq(type, 1, n)[i] = type[i]
    <3> DEFINE S == { type[i] : i \in 1 .. n }
    <3>1. type \in Seq(S) /\ Len(type) = n
      <4>1. type \in [1 .. n -> S]
        BY <2>1
      <4> HIDE DEF S
      <4> QED BY <4>1
    <3> HIDE DEF S
    <3> QED BY <3>1
  <2>5. \A i \in 1 .. n : params[i] = type[i]
    BY <2>2, <2>3, <2>4
  <2> QED BY <1>3, <1>4, <1>5, <2>5 DEF params, type
<1> QED BY <1>2, <1>6, <1>7

LEMMA VoidArgument ==
  ASSUME NEW fs, NEW vs, NEW c, NEW w, w.args \in Seq(Nat), NEW k \in DOMAIN w.args,
         vs[w.args[k]].type = "void",
         \/ w.op \in Arithmetic \cup {"<"}
         \/ w.op = "br"
         \/ /\ w.op = "call" /\ fs[w.of[1]].params \in Seq(Types)
            /\ Len(w.args) = Len(fs[w.of[1]].params)
            /\ \A i \in DOMAIN fs[w.of[1]].params : fs[w.of[1]].params[i] # "void"
         \/ w.op = "ret" /\ Len(w.args) = 1 /\ fs[c].result # "void"
  PROVE  ~ InstructionVerified(fs, vs, c, w)
<1> SUFFICES ASSUME InstructionVerified(fs, vs, c, w) PROVE FALSE
  OBVIOUS
<1>1. WellTyped(fs, vs, w) /\ ReturnsResult(fs, vs, c, w)
  BY DEF InstructionVerified
<1> DEFINE type == [i \in DOMAIN w.args |-> vs[w.args[i]].type]
<1>2. type[k] = "void" /\ DOMAIN type = DOMAIN w.args
  OBVIOUS
<1>3. CASE w.op \in Arithmetic \cup {"<"}
  <2>1. type = <<"double", "double">>
    BY <1>1, <1>3 DEF WellTyped, Arithmetic
  <2> HIDE DEF type
  <2> QED BY <1>2, <2>1
<1>4. CASE w.op = "br"
  <2>1. type = <<"i1">>
    BY <1>1, <1>4 DEF WellTyped, Arithmetic
  <2> HIDE DEF type
  <2> QED BY <1>2, <2>1
<1>5. CASE /\ w.op = "call" /\ fs[w.of[1]].params \in Seq(Types)
           /\ Len(w.args) = Len(fs[w.of[1]].params)
           /\ \A i \in DOMAIN fs[w.of[1]].params : fs[w.of[1]].params[i] # "void"
  BY <1>1, <1>5, CallTypes
<1>6. CASE w.op = "ret" /\ Len(w.args) = 1 /\ fs[c].result # "void"
  <2>1. k = 1
    BY <1>6
  <2> QED BY <1>1, <1>6, <2>1 DEF ReturnsResult
<1> QED BY <1>3, <1>4, <1>5, <1>6

\* The instruction that is inserted, and what of the innermost call it uses.
Uses(w, i) ==
  /\ w.args \in Seq(1 .. Len(values)) /\ \E k \in DOMAIN w.args : w.args[k] = Top.got[i]
  /\ \/ w.op \in Arithmetic \cup {"<"}
     \/ w.op = "br"
     \/ w.op = "ret" /\ Len(w.args) = 1
     \/ /\ w.op = "call" /\ w.of[1] \in 1 .. Len(functions)
        /\ Len(w.args) = Len(functions[w.of[1]].params)

LEMMA InsertedUses ==
  ASSUME Shape, BodyStep, Inserts, NEW i \in DOMAIN Top.got,
         TopNode.kind = "cond" => i = Len(Top.got)
  PROVE  \E w : values' = Append(values, w) /\ Uses(w, i)
<1>1. /\ stack # <<>> /\ Top.got \in Seq(1 .. Len(values)) /\ Len(Top.got) \in Nat
      /\ DOMAIN Top.got = 1 .. Len(Top.got) /\ FrameOK(nodes, Top, functions)
  BY BodyFacts, TopFacts
<1>2. Top.got[i] \in 1 .. Len(values)
  BY <1>1
<1>3. CASE BeginElse \/ BeginCondition
  <2> DEFINE w == ReturnOf(<<Got(Len(Top.got))>>)
  <2>1. TopNode.kind = "cond" /\ values' = Append(values, w)
    BY <1>3 DEF BeginElse, BeginCondition, WithReturn, At
  <2>2. i = Len(Top.got) /\ Got(Len(Top.got)) = Top.got[i]
    BY <2>1 DEF Got
  <2>3. w.op = "ret" /\ w.args = <<Top.got[i]>>
    BY <2>2 DEF ReturnOf, Instruction, Value
  <2> HIDE DEF w
  <2>4. w.args \in Seq(1 .. Len(values)) /\ Len(w.args) = 1 /\ 1 \in DOMAIN w.args
        /\ w.args[1] = Top.got[i]
    BY <1>2, <2>3
  <2>5. Uses(w, i)
    BY <2>3, <2>4 DEF Uses
  <2> QED BY <2>1, <2>5
<1>4. CASE ValueSteps /\ ~ Idle /\ ~ Built.constant
  <2>1. values' = Append(values, Built) /\ Ready
    BY <1>4, ValuesBuild DEF Builds
  <2>2. CASE TopNode.kind = "number"
    <3>1. Len(Top.got) = 0
      BY <2>1, <2>2 DEF Ready
    <3> QED BY <1>1, <3>1
  <2>3. CASE TopNode.kind = "binary"
    <3>1. Built.op = TopNode.name /\ Built.args = <<Got(1), Got(2)>> /\ Built.op \in Arithmetic \cup {"<"}
      BY <2>1, <2>3 DEF Built, Operation, Value, Ready
    <3>2. Len(Top.got) = 2
      BY <2>1, <2>3 DEF Ready
    <3>3. Got(1) \in 1 .. Len(values) /\ Got(2) \in 1 .. Len(values) /\ (i = 1 \/ i = 2)
      BY <1>1, <3>2 DEF Got
    <3>4. Built.args \in Seq(1 .. Len(values)) /\ i \in DOMAIN Built.args /\ Built.args[i] = Top.got[i]
      BY <3>1, <3>3 DEF Got
    <3>5. Uses(Built, i)
      BY <3>1, <3>4 DEF Uses
    <3> QED BY <2>1, <3>5
  <2>4. CASE TopNode.kind = "call"
    <3>1. Built.op = "call" /\ Built.args = Top.got /\ Built.of = <<Top.of[1]>>
      BY <2>4 DEF Built, CallOf, Instruction, Value
    <3>2. /\ Top.of[1] \in 1 .. Len(functions)
          /\ Len(functions[Top.of[1]].params) = Len(TopNode.kids)
          /\ Len(Top.got) = Len(TopNode.kids)
      BY <1>1, <2>1, <2>4 DEF FrameOK, Ready, TopNode
    <3>3. Built.of[1] = Top.of[1]
      BY <3>1
    <3>4. Uses(Built, i)
      BY <1>1, <3>1, <3>2, <3>3 DEF Uses
    <3> QED BY <2>1, <3>4
  <2>5. CASE TopNode.kind = "cond"
    <3>1. Built.op = "br" /\ Built.args = <<Got(3)>>
      BY <2>5 DEF Built, Branch, Instruction, Value
    <3>2. Got(3) = Top.got[i]
      BY <2>1, <2>5 DEF Got, Ready
    <3>3. Built.args \in Seq(1 .. Len(values)) /\ 1 \in DOMAIN Built.args /\ Built.args[1] = Top.got[i]
      BY <1>2, <3>1, <3>2
    <3>4. Uses(Built, i)
      BY <3>1, <3>3 DEF Uses
    <3> QED BY <2>1, <3>4
  <2> QED BY <2>1, <2>2, <2>3, <2>4, <2>5 DEF Ready
<1> QED BY <1>3, <1>4 DEF Inserts

\* An instruction that uses what it cannot breaks the function.
LEMMA ForeignBreaks ==
  ASSUME Shape, Shape', SymbolsInv, BodyStep, ~ Idle, Inserts, Tracked,
         NEW i \in DOMAIN Top.got, TopNode.kind = "cond" => i = Len(Top.got),
         Foreign(Top.got[i])
  PROVE  Broken'
<1> DEFINE c == currentFunction
<1>1. PICK w : values' = Append(values, w) /\ Uses(w, i)
  BY InsertedUses
<1>2. Len(values) \in Nat /\ values'[Len(values) + 1] = w
      /\ \A v \in 1 .. Len(values) : values'[v] = values[v]
  BY <1>1, Appended
<1>3. PICK k \in DOMAIN w.args : w.args[k] = Top.got[i]
  BY <1>1 DEF Uses
<1>4. w.args[k] \in 1 .. Len(values) /\ w.args \in Seq(Nat)
  BY <1>1 DEF Uses
<1>5. values'[w.args[k]] = values[Top.got[i]]
  BY <1>2, <1>3, <1>4
<1>6. c \in 3 .. Len(functions) /\ functions[c].result \in {"i32", "double"}
  BY BodyFacts, TrackedFunction
<1>7. /\ Len(functions) \in Nat
      /\ \A f \in 1 .. Len(functions) :
           functions'[f].params = functions[f].params /\ functions'[f].result = functions[f].result
  BY BodyKeeps
<1>8. ~ InstructionVerified(functions', values', c, w)
  <2>1. CASE values[Top.got[i]].op = "param" /\ values[Top.got[i]].of[1] # c
    BY <1>5, <2>1 DEF InstructionVerified, OwnParameters
  <2>2. CASE values[Top.got[i]].op = "br"
    <3>1. values'[w.args[k]].type = "void"
      <4>1. MadeOK(values[Top.got[i]])
        BY <1>3, <1>4 DEF SymbolsInv, Made
      <4> QED BY <1>5, <2>2, <4>1 DEF MadeOK
    <3>2. \/ w.op \in Arithmetic \cup {"<"}
          \/ w.op = "br"
          \/ /\ w.op = "call" /\ functions'[w.of[1]].params \in Seq(Types)
             /\ Len(w.args) = Len(functions'[w.of[1]].params)
             /\ \A j \in DOMAIN functions'[w.of[1]].params : functions'[w.of[1]].params[j] # "void"
          \/ w.op = "ret" /\ Len(w.args) = 1 /\ functions'[c].result # "void"
      <4>1. CASE w.op = "call"
        <5>1. w.of[1] \in 1 .. Len(functions) /\ Len(w.args) = Len(functions[w.of[1]].params)
          BY <1>1, <4>1 DEF Uses, Arithmetic
        <5>2. functions[w.of[1]].params \in Seq(Types)
          BY <5>1, FunctionFacts DEF Shape
        <5>3. \A j \in DOMAIN functions[w.of[1]].params : functions[w.of[1]].params[j] # "void"
          BY <5>1, ParamTypes DEF SymbolsInv
        <5> QED BY <1>7, <4>1, <5>1, <5>2, <5>3
      <4>2. CASE w.op = "ret"
        <5>1. Len(w.args) = 1
          BY <1>1, <4>2 DEF Uses, Arithmetic
        <5> QED BY <1>6, <1>7, <4>2, <5>1
      <4> QED BY <1>1, <4>1, <4>2 DEF Uses
    <3> QED BY <1>4, <3>1, <3>2, VoidArgument
  <2> QED BY <2>1, <2>2 DEF Foreign
<1> QED BY <1>2, <1>8, BreaksBy

\* How each step between the beginning of a motif and its end moves the stack.
LEMMA StepMoves ==
  ASSUME Shape, BodyStep, ~ Idle
  PROVE  \/ VisitSteps /\ Pushes
         \/ BeginCall /\ Marks /\ TopNode.kind = "call" /\ Top.got = <<>>
         \/ ValueSteps /\ Ready /\ Builds(Built) /\ Pops(Len(values) + 1)
         \/ /\ Variable /\ TopNode.kind = "variable" /\ Top.got = <<>>
            /\ TopNode.name \in DOMAIN namedValues /\ Pops(namedValues[TopNode.name])
            /\ namedValues[TopNode.name] \in 1 .. Len(values)
<1>1. stack # <<>> /\ TopNode.kind \in ExpressionKinds /\ Entered(stack)
      /\ Top.got \in Seq(1 .. Len(values))
  BY BodyFacts, TopFacts
<1>2. Len(Top.got) = 0 => Top.got = <<>>
  BY <1>1
<1>3. CASE ValueSteps
  <2>1. Builds(Built) /\ Ready
    BY <1>3, ValuesBuild
  <2>2. Len(values) + 1 \in Nat
    BY ValuesAreCounted
  <2>3. Pops(Len(values) + 1)
    BY <1>1, <2>1, <2>2, ReturnPops DEF Builds
  <2> QED BY <1>3, <2>1, <2>3
<1>4. CASE Variable
  <2>1. /\ stack' = Returned(namedValues[TopNode.name]) /\ TopNode.name \in DOMAIN namedValues
        /\ TopNode.kind = "variable" /\ Len(Top.got) = 0
    BY <1>4 DEF Variable, At
  <2>2. namedValues[TopNode.name] \in 1 .. Len(values)
    BY <2>1 DEF Shape, NamesOK
  <2>3. namedValues[TopNode.name] \in Nat
    BY <2>2, ValuesAreCounted
  <2>4. Pops(namedValues[TopNode.name])
    BY <1>1, <2>1, <2>3, ReturnPops
  <2> QED BY <1>2, <1>4, <2>1, <2>2, <2>4
<1>5. CASE VisitSteps
  BY <1>1, <1>5, VisitsPush
<1>6. CASE BeginCall
  <2> DEFINE f == Named(functions, TopNode.name)
  <2>1. TopNode.kind = "call" /\ Len(Top.got) = 0
    BY <1>6 DEF BeginCall, At
  <2>2. CASE Halt("threw")
    BY <2>2 DEF Halt, Idle
  <2>3. CASE stack' = With(<<f>>)
    <3>1. f \in Nat
      BY NamedFacts DEF Shape
    <3>2. <<f>> \in Seq(Nat)
      BY <3>1
    <3>3. Marks
      BY <1>1, <2>3, <3>2, WithMarks
    <3> QED BY <1>2, <1>6, <2>1, <3>3
  <2> QED BY <1>6, <2>2, <2>3 DEF BeginCall
<1> QED BY <1>3, <1>4, <1>5, <1>6 DEF BodyStep

\* What a step that pops uses of what it cannot.
LEMMA PoppedForeign ==
  ASSUME Shape, SymbolsInv, ValueSteps, ~ Idle, NEW i \in DOMAIN Top.got,
         TopNode.kind = "cond" => i = Len(Top.got), Foreign(Top.got[i])
  PROVE  Inserts
<1>1. Ready /\ stack # <<>> /\ Top.got \in Seq(1 .. Len(values)) /\ Len(Top.got) \in Nat
      /\ DOMAIN Top.got = 1 .. Len(Top.got)
  BY ValuesBuild, TopFacts
<1>2. Top.got[i] \in 1 .. Len(values)
  BY <1>1
<1>3. ~ values[Top.got[i]].constant
  BY <1>2 DEF Foreign, SymbolsInv, Made, MadeOK
<1>4. ~ Built.constant
  <2>1. CASE TopNode.kind = "number"
    BY <1>1, <2>1 DEF Ready
  <2>2. CASE TopNode.kind = "binary"
    <3>1. i = 1 \/ i = 2
      BY <1>1, <2>2 DEF Ready
    <3>2. Built.constant = (values[Got(1)].constant /\ values[Got(2)].constant)
      BY <2>2 DEF Built, Operation, Value
    <3> QED BY <1>3, <3>1, <3>2 DEF Got
  <2>3. CASE TopNode.kind = "call"
    BY <2>3 DEF Built, CallOf, Instruction, Value
  <2>4. CASE TopNode.kind = "cond"
    BY <2>4 DEF Built, Branch, Instruction, Value
  <2> QED BY <1>1, <2>1, <2>2, <2>3, <2>4 DEF Ready
<1> QED BY <1>4 DEF Inserts

LEMMA ForeignStays ==
  ASSUME Shape, Shape', BodyStep, ~ Idle, NEW v \in 1 .. Len(values), Foreign(v)
  PROVE  \/ values'[v].op = "br"
         \/ values'[v].op = "param" /\ values'[v].of[1] # currentFunction'
<1>1. currentFunction' = currentFunction /\ values'[v] = values[v]
  BY BodyFacts, BodyKeeps
<1> QED BY <1>1 DEF Foreign

\* A frame that stays, with what it has got, still holds it.
LEMMA NestedFrame ==
  ASSUME Shape, Shape', BodyStep, ~ Idle, NEW j \in 2 .. Len(stack), j \in 2 .. Len(stack'),
         NEW i \in DOMAIN stack[j].got, i \in DOMAIN stack'[j].got,
         stack'[j].node = stack[j].node, stack'[j].got[i] = stack[j].got[i],
         nodes[stack[j].node].kind = "cond" => i = Len(stack'[j].got) /\ j = Len(stack'),
         Foreign(stack[j].got[i])
  PROVE  Nested'
<1>1. nodes' = nodes
  BY BodyFacts DEF nodes
<1>2. stack[j].got[i] \in 1 .. Len(values)
  <2>1. stack[j] \in FrameType(nodes, Len(values))
    <3>1. stack \in Seq(FrameType(nodes, Len(values)))
      BY DEF Shape, StackOK
    <3>2. j \in 1 .. Len(stack)
      OBVIOUS
    <3> QED BY <3>1, <3>2
  <2>2. stack[j].got \in Seq(1 .. Len(values))
    BY <2>1 DEF FrameType
  <2> QED BY <2>2
<1>3. \/ values'[stack'[j].got[i]].op = "br"
      \/ /\ values'[stack'[j].got[i]].op = "param"
         /\ values'[stack'[j].got[i]].of[1] # currentFunction'
  BY <1>2, ForeignStays
<1>4. nodes'[stack'[j].node].kind = "cond" => i = Len(stack'[j].got) /\ j = Len(stack')
  BY <1>1
<1> HIDE DEF nodes
<1> QED BY <1>3, <1>4, Zenon DEF Nested, Unspent, Foreign

LEMMA FrameFacts ==
  ASSUME Shape, NEW j \in 1 .. Len(stack)
  PROVE  /\ stack[j].node \in DOMAIN nodes /\ stack[j].got \in Seq(1 .. Len(values))
         /\ stack[j].of \in Seq(Nat) /\ Len(stack[j].got) \in Nat
         /\ DOMAIN stack[j].got = 1 .. Len(stack[j].got) /\ Len(stack) \in Nat
         /\ FrameOK(nodes, stack[j], functions)
         /\ j > 1 => nodes[stack[j].node].kind \in ExpressionKinds
<1>1. stack \in Seq(FrameType(nodes, Len(values)))
  BY DEF Shape, StackOK
<1>2. stack[j] \in FrameType(nodes, Len(values)) /\ Len(stack) \in Nat
  BY <1>1
<1>3. stack[j].node \in DOMAIN nodes /\ stack[j].got \in Seq(1 .. Len(values)) /\ stack[j].of \in Seq(Nat)
  BY <1>2 DEF FrameType
<1>4. FrameOK(nodes, stack[j], functions) /\ (j > 1 => nodes[stack[j].node].kind \in ExpressionKinds)
  BY DEF Shape, StackOK
<1> QED BY <1>2, <1>3, <1>4

LEMMA NestedCondStays ==
  ASSUME Shape, Shape', SymbolsInv, BodyStep, ~ Idle,
         NEW j \in 3 .. Len(stack), nodes[stack[j].node].kind = "cond"
  PROVE  Nested'
<1>1. nodes' = nodes /\ stack # <<>>
  BY BodyFacts DEF nodes
<1>2. PICK m \in Nat : m = Len(stack)
  BY <1>1, TopIs
<1>3. CASE j < m \/ Marks \/ Pushes
  <2>1. j \in 3 .. Len(stack') /\ stack'[j].node = stack[j].node
    <3>1. CASE Marks \/ Pushes
      BY <1>2, <3>1 DEF Marks, Pushes, Below
    <3>2. CASE j < m /\ ~ Marks /\ ~ Pushes
      <4>1. PICK v : Pops(v)
        BY <3>2, StepMoves
      <4>2. Len(stack') = m - 1 /\ Below(stack, stack', (m - 1) - 1)
            /\ stack'[m - 1].node = stack[m - 1].node
        BY <1>2, <4>1 DEF Pops
      <4>3. CASE j = m - 1
        BY <1>2, <4>2, <4>3
      <4>4. CASE j < m - 1
        BY <1>2, <4>2, <4>4 DEF Below
      <4> QED BY <1>2, <3>2, <4>3, <4>4
    <3> QED BY <1>3, <3>1, <3>2
  <2>2. nodes'[stack'[j].node].kind = "cond" /\ j > 2 /\ j \in 2 .. Len(stack')
    BY <1>1, <2>1
  <2> HIDE DEF nodes
  <2> QED BY <2>2, Zenon DEF Nested
<1>4. CASE j = m /\ ~ Marks /\ ~ Pushes
  <2>1. TopNode.kind = "cond"
    BY <1>1, <1>2, <1>4, TopIs
  <2>2. Builds(Built) /\ Pops(Len(values) + 1)
    BY <1>4, <2>1, StepMoves
  <2>3. Built.op = "br"
    BY <2>1 DEF Built, Branch, Instruction, Value
  <2>4. values'[Len(values) + 1].op = "br"
    BY <2>2, <2>3, Appended DEF Builds
  <2>5. Len(stack') = m - 1 /\ stack'[m - 1].got = Append(stack[m - 1].got, Len(values) + 1)
    BY <1>2, <2>2 DEF Pops
  <2>6. stack[m - 1].got \in Seq(1 .. Len(values)) /\ Len(values) \in Nat
    <3>1. m - 1 \in 1 .. Len(stack)
      BY <1>2, <1>4
    <3> QED BY <3>1, FrameFacts, ValuesAreCounted
  <2>7. stack[m - 1].got \in Seq(Nat) /\ Len(values) + 1 \in Nat
    BY <2>6
  <2> DEFINE k == Len(stack[m - 1].got) + 1
  <2>8. k \in DOMAIN stack'[m - 1].got /\ k = Len(stack'[m - 1].got)
        /\ stack'[m - 1].got[k] = Len(values) + 1
    BY <2>5, <2>7, AppendProperties
  <2>9. m - 1 \in 2 .. Len(stack') /\ m - 1 = Len(stack')
    BY <1>2, <1>4, <2>5
  <2> HIDE DEF nodes, k
  <2>10. values'[stack'[m - 1].got[k]].op = "br"
    BY <2>4, <2>8
  <2> QED BY <2>8, <2>9, <2>10, Zenon DEF Nested, Unspent, Foreign
<1> QED BY <1>2, <1>3, <1>4

LEMMA NestedGotStays ==
  ASSUME Shape, Shape', SymbolsInv, BodyStep, ~ Idle, Tracked,
         NEW j \in 2 .. Len(stack), NEW i \in DOMAIN stack[j].got,
         Unspent(stack, j, i), Foreign(stack[j].got[i])
  PROVE  Doomed'
<1>1. stack # <<>>
  BY BodyFacts
<1>2. PICK m \in Nat : m = Len(stack)
  BY <1>1, TopIs
<1>3. stack[j].got \in Seq(1 .. Len(values)) /\ Len(stack[j].got) \in Nat
      /\ i \in 1 .. Len(stack[j].got)
  BY FrameFacts
<1>4. Top = stack[m] /\ TopNode = nodes[stack[m].node] /\ Top.got \in Seq(1 .. Len(values))
  BY <1>1, <1>2, TopIs
<1>5. Inserts /\ j = m => Broken'
  BY <1>4, ForeignBreaks DEF Unspent
<1>6. CASE BeginCall /\ Marks
  <2>1. Len(stack') = m /\ stack'[j].node = stack[j].node /\ stack'[j].got = stack[j].got
    <3>1. Len(stack') = m /\ Below(stack, stack', m - 1)
          /\ stack'[m].node = stack[m].node /\ stack'[m].got = stack[m].got
      BY <1>2, <1>6 DEF Marks
    <3>2. j < m => j \in 1 .. m - 1
      BY <1>2
    <3> QED BY <1>2, <3>1, <3>2 DEF Below
  <2> QED BY <1>2, <2>1, NestedFrame DEF Unspent, Doomed
<1>7. CASE VisitSteps /\ Pushes
  <2>1. Len(stack') = m + 1 /\ stack'[j].node = stack[j].node /\ stack'[j].got = stack[j].got
    <3>1. Len(stack') = m + 1 /\ Below(stack, stack', m - 1)
          /\ stack'[m].node = stack[m].node /\ stack'[m].got = stack[m].got
      BY <1>2, <1>7 DEF Pushes
    <3>2. j < m => j \in 1 .. m - 1
      BY <1>2
    <3> QED BY <1>2, <3>1, <3>2 DEF Below
  <2>2. CASE nodes[stack[j].node].kind = "cond"
    <3>1. j = m /\ TopNode.kind = "cond" /\ Len(Top.got) # 0
      BY <1>2, <1>3, <1>4, <2>2 DEF Unspent
    <3>2. Inserts
      BY <1>7, <3>1 DEF VisitSteps, Operand, Argument, BeginIf, InCall, At, Inserts
    <3> QED BY <1>5, <3>1, <3>2 DEF Doomed
  <2>3. CASE nodes[stack[j].node].kind # "cond"
    <3>1. j \in 2 .. Len(stack')
      BY <1>2, <2>1
    <3> QED BY <1>2, <2>1, <2>3, <3>1, NestedFrame DEF Doomed
  <2> QED BY <2>2, <2>3
<1>8. ASSUME NEW v \in Nat, Pops(v), j < m PROVE Doomed'
  <2>1. nodes[stack[j].node].kind # "cond"
    BY <1>2, <1>8 DEF Unspent
  <2>2. Len(stack') = m - 1 /\ Below(stack, stack', (m - 1) - 1)
        /\ stack'[m - 1].node = stack[m - 1].node /\ stack'[m - 1].got = Append(stack[m - 1].got, v)
    BY <1>2, <1>8 DEF Pops
  <2>3. j \in 2 .. Len(stack')
    BY <1>2, <1>8, <2>2
  <2>4. stack'[j].node = stack[j].node /\ i \in DOMAIN stack'[j].got
        /\ stack'[j].got[i] = stack[j].got[i]
    <3>1. CASE j < m - 1
      <4>1. j \in 1 .. (m - 1) - 1
        BY <1>2, <3>1
      <4> QED BY <2>2, <4>1 DEF Below
    <3>2. CASE j = m - 1
      <4>1. stack[j].got \in Seq(Nat) /\ stack'[j].got = Append(stack[j].got, v)
            /\ stack'[j].node = stack[j].node
        BY <1>3, <2>2, <3>2, ValuesAreCounted
      <4> QED BY <1>3, <1>8, <4>1, AppendProperties
    <3> QED BY <1>2, <1>8, <3>1, <3>2
  <2> QED BY <2>1, <2>3, <2>4, NestedFrame DEF Doomed
<1>9. CASE j = m /\ ValueSteps
  <2>1. Inserts
    <3>1. Foreign(Top.got[i]) /\ i \in DOMAIN Top.got
          /\ (TopNode.kind = "cond" => i = Len(Top.got))
      BY <1>4, <1>9 DEF Unspent
    <3> QED BY <1>9, <3>1, PoppedForeign
  <2> QED BY <1>5, <1>9, <2>1 DEF Doomed
<1>10. CASE j = m /\ Variable /\ Top.got = <<>>
  BY <1>3, <1>4, <1>10
<1>11. ASSUME ValueSteps, Pops(Len(values) + 1) PROVE Doomed'
  <2>1. Len(values) + 1 \in Nat
    BY ValuesAreCounted
  <2> QED BY <1>2, <1>8, <1>9, <1>11, <2>1
<1>12. ASSUME Variable, Top.got = <<>>, Pops(namedValues[TopNode.name]),
              namedValues[TopNode.name] \in 1 .. Len(values)
       PROVE  Doomed'
  <2>1. namedValues[TopNode.name] \in Nat
    BY <1>12, ValuesAreCounted
  <2> QED BY <1>2, <1>8, <1>10, <1>12, <2>1
<1> QED BY <1>6, <1>7, <1>11, <1>12, StepMoves

LEMMA DoomedStays ==
  ASSUME Shape, Shape', CallsInv, SymbolsInv, BodyStep, ~ Idle, Tracked, Doomed
  PROVE  Doomed'
<1>1. CASE Broken
  BY <1>1, BrokenStays DEF Doomed
<1>2. CASE Nested
  <2>1. PICK j \in 2 .. Len(stack) :
          \/ j > 2 /\ nodes[stack[j].node].kind = "cond"
          \/ \E i \in DOMAIN stack[j].got : Unspent(stack, j, i) /\ Foreign(stack[j].got[i])
    BY <1>2 DEF Nested
  <2>2. CASE j > 2 /\ nodes[stack[j].node].kind = "cond"
    <3>1. j \in 3 .. Len(stack)
      BY <2>2
    <3> QED BY <2>2, <3>1, NestedCondStays DEF Doomed
  <2>3. ASSUME NEW i \in DOMAIN stack[j].got, Unspent(stack, j, i), Foreign(stack[j].got[i])
        PROVE  Doomed'
    BY <2>3, NestedGotStays
  <2> QED BY <2>1, <2>2, <2>3
<1> QED BY <1>1, <1>2 DEF Doomed

-----------------------------------------------------------------------------
(* A value that is built from the values of the children is what its node  *)
(* means.                                                                  *)

\* What getValue has got is what the children mean.
ArgsMatch == \A i \in DOMAIN Top.got : Matches(Top.got[i], KidsAt(Top.node)[i])

LEMMA BuiltArgs ==
  ASSUME Shape, ValueSteps, TopNode.kind # "cond"
  PROVE  /\ Ready /\ Top.node \in DOMAIN nodes /\ stack # <<>>
         /\ Top.got \in Seq(1 .. Len(values)) /\ Len(Top.got) \in Nat
         /\ DOMAIN Top.got = 1 .. Len(Top.got)
         /\ TopNode.kind \in {"number", "binary", "call"}
         /\ TopNode.kind = "number" =>
              Built = Constant("number", "double", <<Top.node>>)
         /\ TopNode.kind = "binary" =>
              /\ TopNode.name \in Arithmetic \cup {"<"}
              /\ DOMAIN Top.got = {1, 2} /\ DOMAIN KidsAt(Top.node) = {1, 2}
              /\ Built.op = TopNode.name /\ Built.of = <<>> /\ Built.args = <<Top.got[1], Top.got[2]>>
              /\ Built.type = (IF TopNode.name = "<" THEN "i1" ELSE values[Top.got[1]].type)
              /\ Built.constant = (values[Top.got[1]].constant /\ values[Top.got[2]].constant)
         /\ TopNode.kind = "call" =>
              /\ Top.of[1] \in 1 .. Len(functions) /\ Top.of # <<>>
              /\ DOMAIN Top.got = DOMAIN KidsAt(Top.node) /\ Len(Top.got) = Len(KidsAt(Top.node))
              /\ Len(functions[Top.of[1]].params) = Len(Top.got)
              /\ Built.op = "call" /\ Built.of = <<Top.of[1]>> /\ Built.args = Top.got
              /\ Built.type = functions[Top.of[1]].result /\ ~ Built.constant
<1>1. Ready /\ stack # <<>> /\ TopNode.kind \in {"number", "binary", "call"}
  BY ValuesBuild DEF Ready
<1>2. /\ Top.node \in DOMAIN nodes /\ Top.got \in Seq(1 .. Len(values)) /\ Len(Top.got) \in Nat
      /\ DOMAIN Top.got = 1 .. Len(Top.got) /\ FrameOK(nodes, Top, functions)
  BY <1>1, TopFacts
<1>3. /\ DOMAIN KidsAt(Top.node) = 1 .. Len(KidsAt(Top.node)) /\ TopNode = nodes[Top.node]
      /\ TopNode.kind = "binary" => Len(KidsAt(Top.node)) = 2
  BY <1>2, NodeFacts DEF Shape, KidsAt, TopNode
<1>4. TopNode.kind = "number" => Built = Constant("number", "double", <<Top.node>>)
  BY DEF Built
<1>5. ASSUME TopNode.kind = "binary"
      PROVE  /\ TopNode.name \in Arithmetic \cup {"<"}
             /\ DOMAIN Top.got = {1, 2} /\ DOMAIN KidsAt(Top.node) = {1, 2}
             /\ Built.op = TopNode.name /\ Built.of = <<>> /\ Built.args = <<Top.got[1], Top.got[2]>>
             /\ Built.type = (IF TopNode.name = "<" THEN "i1" ELSE values[Top.got[1]].type)
             /\ Built.constant = (values[Top.got[1]].constant /\ values[Top.got[2]].constant)
  <2>1. Len(Top.got) = 2 /\ TopNode.name \in Arithmetic \cup {"<"}
    BY <1>1, <1>5 DEF Ready
  <2>2. Built = Operation(values, TopNode.name, Top.got[1], Top.got[2])
    BY <1>5 DEF Built, Got
  <2>3. /\ Built.op = TopNode.name /\ Built.of = <<>> /\ Built.args = <<Top.got[1], Top.got[2]>>
        /\ Built.type = (IF TopNode.name = "<" THEN "i1" ELSE values[Top.got[1]].type)
        /\ Built.constant = (values[Top.got[1]].constant /\ values[Top.got[2]].constant)
    BY <2>2 DEF Operation, Value
  <2>4. 1 .. 2 = {1, 2}
    OBVIOUS
  <2>5. DOMAIN Top.got = {1, 2} /\ DOMAIN KidsAt(Top.node) = {1, 2}
    BY <1>2, <1>3, <1>5, <2>1, <2>4
  <2> QED BY <2>1, <2>3, <2>5
<1>6. ASSUME TopNode.kind = "call"
      PROVE  /\ Top.of[1] \in 1 .. Len(functions) /\ Top.of # <<>>
             /\ DOMAIN Top.got = DOMAIN KidsAt(Top.node) /\ Len(Top.got) = Len(KidsAt(Top.node))
             /\ Len(functions[Top.of[1]].params) = Len(Top.got)
             /\ Built.op = "call" /\ Built.of = <<Top.of[1]>> /\ Built.args = Top.got
             /\ Built.type = functions[Top.of[1]].result /\ ~ Built.constant
  <2>1. Len(Top.got) = Len(TopNode.kids) /\ Top.of # <<>>
    BY <1>1, <1>6 DEF Ready
  <2>2. Top.of[1] \in 1 .. Len(functions) /\ Len(functions[Top.of[1]].params) = Len(TopNode.kids)
    BY <1>2, <1>3, <1>6, <2>1 DEF FrameOK
  <2>3. Built = CallOf(functions, Top.of[1], Top.got)
    BY <1>6 DEF Built
  <2>4. /\ Built.op = "call" /\ Built.of = <<Top.of[1]>> /\ Built.args = Top.got
        /\ Built.type = functions[Top.of[1]].result /\ ~ Built.constant
    BY <2>3 DEF CallOf, Instruction, Value
  <2> QED BY <1>2, <1>3, <1>6, <2>1, <2>2, <2>4 DEF KidsAt
<1> QED BY <1>1, <1>2, <1>4, <1>5, <1>6

\* What the new value reads back as.
LEMMA NewTerm ==
  ASSUME Shape, Shape', CallsInv, BodyStep, NEW w, values' = Append(values, w),
         w.args \in Seq(1 .. Len(values)),
         w.op = "call" => w.of[1] \in 1 .. Len(functions)
  PROVE  Terms'[Len(values) + 1] =
           NamedTerm(functions, w, [i \in DOMAIN w.args |-> Terms[w.args[i]]])
<1>0. PICK n \in Nat : n = Len(values) + 1
  BY ValuesAreCounted
<1>1. /\ Len(values) \in Nat /\ Len(values') = n /\ values'[n] = w
  BY <1>0, Appended
<1>2. n \in 1 .. Len(values')
  BY <1>1
<1>3. Terms'[n] = TermStep(Terms, n)'
  <2>1. Terms' = [v \in 1 .. Len(values') |-> TermStep(Terms, v)']
    BY TermsSolveNext DEF Shape
  <2> HIDE DEF Terms
  <2> QED BY <1>2, <2>1
<1>4. \A i \in DOMAIN w.args : w.args[i] \in 1 .. Len(values)
  OBVIOUS
<1>5. [Next]_vars /\ \A f \in 1 .. Len(functions) : functions'[f].name = functions[f].name
  BY BodyKeeps
<1>6. \A v \in 1 .. Len(values) : Terms'[v] = Terms[v]
  BY <1>5, TermsStay
<1> HIDE DEF Terms
<1>7. [i \in DOMAIN w.args |-> Terms'[w.args[i]]] = [i \in DOMAIN w.args |-> Terms[w.args[i]]]
  BY <1>4, <1>6
<1>8. TermStep(Terms, n)' = NamedTerm(functions', w, [i \in DOMAIN w.args |-> Terms'[w.args[i]]])
  <2>2. TermStep(Terms, n)' = NamedTerm(functions', values'[n],
          [i \in DOMAIN values'[n].args |-> Terms'[values'[n].args[i]]])
    BY DEF TermStep, TermOf, NamedTerm
  <2> QED BY <1>1, <2>2
<1> DEFINE args == [i \in DOMAIN w.args |-> Terms[w.args[i]]]
<1>9. NamedTerm(functions', w, args) = NamedTerm(functions, w, args)
  <2> HIDE DEF args
  <2> QED BY <1>5 DEF NamedTerm
<1> QED BY <1>0, <1>3, <1>7, <1>8, <1>9

LEMMA BuiltTerm ==
  ASSUME Shape, Shape', CallsInv, Callees, BodyStep, ValueSteps, Builds(Built),
         TopNode.kind # "cond", ArgsMatch
  PROVE  Terms'[Len(values) + 1] = MeaningOf(Top.node)
<1> DEFINE n == Top.node
           kids == KidsAt(n)
           args == [i \in DOMAIN kids |-> MeaningOf(kids[i])]
<1>1. /\ n \in DOMAIN nodes /\ TopNode.kind \in {"number", "binary", "call"} /\ TopNode = nodes[n]
      /\ Top.got \in Seq(1 .. Len(values)) /\ values' = Append(values, Built) /\ stack # <<>>
      /\ Len(Top.got) \in Nat /\ DOMAIN Top.got = 1 .. Len(Top.got)
  BY BuiltArgs DEF TopNode, Builds
<1>2. MeaningOf(n) = Source!TermOf(program, Tree, n, args)
  BY <1>1, TreesSolve DEF Shape
<1>3. \A i \in DOMAIN Top.got : Terms[Top.got[i]] = MeaningOf(kids[i])
  BY DEF ArgsMatch, Matches
<1> HIDE DEF args, Terms, MeaningOf
<1>4. CASE TopNode.kind = "number"
  <2>1. Built = Constant("number", "double", <<n>>)
    BY <1>4, BuiltArgs
  <2>2. Built.op = "number" /\ Built.of = <<n>> /\ Built.args = <<>>
    BY <2>1 DEF Constant, Value
  <2>3. Terms'[Len(values) + 1] =
          NamedTerm(functions, Built, [i \in DOMAIN Built.args |-> Terms[Built.args[i]]])
    <3>1. Built.args \in Seq(1 .. Len(values)) /\ Built.op # "call"
      BY <2>2
    <3> QED BY <1>1, <3>1, NewTerm
  <2>4. [i \in DOMAIN Built.args |-> Terms[Built.args[i]]] = <<>>
    BY <2>2
  <2>5. NamedTerm(functions, Built, <<>>) = Source!Term("number", <<n>>, <<>>)
    BY <2>2 DEF NamedTerm
  <2>6. Source!TermOf(program, Tree, n, args) = Source!Term("number", <<n>>, <<>>)
    BY <1>1, <1>4 DEF Source!TermOf, nodes
  <2> QED BY <1>2, <2>3, <2>4, <2>5, <2>6
<1>5. CASE TopNode.kind = "binary"
  <2>1. /\ TopNode.name \in Arithmetic \cup {"<"}
        /\ DOMAIN Top.got = {1, 2} /\ DOMAIN kids = {1, 2}
        /\ Built.op = TopNode.name /\ Built.of = <<>> /\ Built.args = <<Top.got[1], Top.got[2]>>
    BY <1>5, BuiltArgs
  <2>2. Built.op # "call" /\ Built.op # "param"
    BY <2>1 DEF Arithmetic
  <2>3. Top.got[1] \in 1 .. Len(values) /\ Top.got[2] \in 1 .. Len(values)
    BY <1>1, <2>1
  <2>4. /\ Built.args \in Seq(1 .. Len(values)) /\ DOMAIN Built.args = {1, 2}
        /\ \A i \in {1, 2} : Built.args[i] = Top.got[i]
    BY <2>1, <2>3
  <2>5. Terms'[Len(values) + 1] =
          NamedTerm(functions, Built, [i \in DOMAIN Built.args |-> Terms[Built.args[i]]])
    BY <1>1, <2>2, <2>4, NewTerm
  <2>6. [i \in DOMAIN Built.args |-> Terms[Built.args[i]]] = args
    BY <1>3, <2>1, <2>4 DEF args
  <2>7. NamedTerm(functions, Built, args) = Source!Term(TopNode.name, <<>>, args)
    BY <2>1, <2>2 DEF NamedTerm
  <2>8. Source!TermOf(program, Tree, n, args) = Source!Term(TopNode.name, <<>>, args)
    BY <1>1, <1>5 DEF Source!TermOf, nodes
  <2> QED BY <1>2, <2>5, <2>6, <2>7, <2>8
<1>6. CASE TopNode.kind = "call"
  <2>1. /\ Top.of[1] \in 1 .. Len(functions) /\ Top.of # <<>>
        /\ DOMAIN Top.got = DOMAIN kids
        /\ Built.op = "call" /\ Built.of = <<Top.of[1]>> /\ Built.args = Top.got
    BY <1>6, BuiltArgs
  <2>2. Built.of[1] = Top.of[1]
    BY <2>1
  <2>3. functions[Top.of[1]].name = TopNode.name
    <3>1. Top = stack[Len(stack)] /\ Len(stack) \in 1 .. Len(stack)
      BY <1>1, TopIs
    <3> QED BY <1>1, <1>6, <2>1, <3>1 DEF Callees
  <2>5. Terms'[Len(values) + 1] =
          NamedTerm(functions, Built, [i \in DOMAIN Built.args |-> Terms[Built.args[i]]])
    BY <1>1, <2>1, <2>2, NewTerm
  <2>6. [i \in DOMAIN Built.args |-> Terms[Built.args[i]]] = args
    BY <1>3, <2>1 DEF args
  <2>7. NamedTerm(functions, Built, args) = Source!Term("call", <<TopNode.name>>, args)
    BY <2>1, <2>2, <2>3 DEF NamedTerm
  <2>8. Source!TermOf(program, Tree, n, args) = Source!Term("call", <<TopNode.name>>, args)
    BY <1>1, <1>6 DEF Source!TermOf, nodes
  <2> QED BY <1>2, <2>5, <2>6, <2>7, <2>8
<1> QED BY <1>1, <1>4, <1>5, <1>6

LEMMA BuiltFolds ==
  ASSUME Shape, ValueSteps, TopNode.kind # "cond", ArgsMatch, Built.constant
  PROVE  /\ Folded(Top.node)
         /\ TopNode.kind = "binary" =>
              \A i \in {1, 2} : Folded(KidsAt(Top.node)[i]) /\ values[Top.got[i]].constant
<1> DEFINE n == Top.node
           kids == KidsAt(n)
<1>1. /\ n \in DOMAIN nodes /\ TopNode.kind \in {"number", "binary", "call"} /\ TopNode = nodes[n]
  BY BuiltArgs DEF TopNode
<1>2. Folded(n) = (\/ nodes[n].kind = "number"
                   \/ nodes[n].kind = "binary" /\ \A m \in Source!Range(kids) : Folded(m))
  BY <1>1, TreesSolve DEF Shape
<1>3. CASE TopNode.kind = "number"
  BY <1>1, <1>2, <1>3
<1>4. CASE TopNode.kind = "binary"
  <2>1. DOMAIN Top.got = {1, 2} /\ DOMAIN kids = {1, 2}
        /\ values[Top.got[1]].constant /\ values[Top.got[2]].constant
    BY <1>4, BuiltArgs
  <2>2. \A i \in {1, 2} : Folded(kids[i]) /\ values[Top.got[i]].constant
    BY <2>1 DEF ArgsMatch, Matches
  <2>3. \A m \in Source!Range(kids) : Folded(m)
    BY <2>1, <2>2 DEF Source!Range
  <2> HIDE DEF Folded
  <2> QED BY <1>1, <1>2, <1>4, <2>2, <2>3
<1>5. CASE TopNode.kind = "call"
  BY <1>5, BuiltArgs
<1> QED BY <1>1, <1>3, <1>4, <1>5

\* An instruction that is inserted is well typed, or breaks the function.
LEMMA InsertedTyped ==
  ASSUME Shape, Shape', BodyStep, ~ Idle, Inserts, NEW w, values' = Append(values, w),
         ~ Broken'
  PROVE  WellTyped(functions', values', w)
<1>1. values'[Len(values) + 1] = w
  BY Appended
<1>2. InstructionVerified(functions', values', currentFunction, w)
  BY <1>1, BreaksBy
<1> QED BY <1>2 DEF InstructionVerified

LEMMA NodeTypes ==
  ASSUME Generatable(program), NEW n \in DOMAIN nodes
  PROVE  TypeOfNode(n) # "i8*"
<1> DEFINE types == [i \in DOMAIN KidsAt(n) |-> TypeOfNode(KidsAt(n)[i])]
<1>1. TypeOfNode(n) = Source!TypeOf(program, Tree, n, types)
  BY TreesSolve
<1> HIDE DEF types
<1>2. \A name : Source!ResultOf(name) \in {"void", "i32", "double"}
  BY DEF Source!ResultOf
<1>3. Source!TypeOf(program, Tree, n, types) \in {"void", "i32", "double", "i1", "none"}
  BY <1>2 DEF Source!TypeOf
<1> QED BY <1>1, <1>3

\* The type of a node whose children are all doubles.
LEMMA TypeOfDoubles ==
  ASSUME Generatable(program), NEW n \in DOMAIN nodes,
         \A i \in DOMAIN KidsAt(n) : TypeOfNode(KidsAt(n)[i]) = "double"
  PROVE  /\ nodes[n].kind = "binary" /\ nodes[n].name \in Arithmetic => TypeOfNode(n) = "double"
         /\ nodes[n].kind = "binary" /\ nodes[n].name = "<" => TypeOfNode(n) = "i1"
         /\ nodes[n].kind = "call" =>
              TypeOfNode(n) =
                IF /\ nodes[n].name \in Source!Callable(program, Tree) \ {"printf"}
                   /\ Source!ArityOf(program, nodes[n].name) = Len(KidsAt(n))
                  THEN Source!ResultOf(nodes[n].name)
                  ELSE "none"
<1> DEFINE types == [i \in DOMAIN KidsAt(n) |-> TypeOfNode(KidsAt(n)[i])]
<1>1. TypeOfNode(n) = Source!TypeOf(program, Tree, n, types)
  BY TreesSolve
<1>2. \A i \in DOMAIN types : types[i] = "double"
  OBVIOUS
<1> HIDE DEF types, TypeOfNode
<1>3. nodes[n].kind = "binary" =>
        Source!TypeOf(program, Tree, n, types) =
          CASE nodes[n].name \in {"+", "-", "*", "/"} -> "double"
            [] nodes[n].name = "<"                    -> "i1"
            [] OTHER                                  -> "none"
  BY <1>2 DEF Source!TypeOf, nodes
<1>4. nodes[n].kind = "call" =>
        Source!TypeOf(program, Tree, n, types) =
          IF /\ nodes[n].name \in Source!Callable(program, Tree) \ {"printf"}
             /\ Source!ArityOf(program, nodes[n].name) = Len(nodes[n].kids)
            THEN Source!ResultOf(nodes[n].name)
            ELSE "none"
  BY <1>2 DEF Source!TypeOf, nodes
<1>5. nodes[n].kind = "binary" /\ nodes[n].name \in Arithmetic => TypeOfNode(n) = "double"
  BY <1>1, <1>3 DEF Arithmetic
<1>6. nodes[n].kind = "binary" /\ nodes[n].name = "<" => TypeOfNode(n) = "i1"
  BY <1>1, <1>3
<1> QED BY <1>1, <1>4, <1>5, <1>6 DEF KidsAt

LEMMA BinaryTyped ==
  ASSUME Shape, Shape', BodyStep, ~ Idle, ValueSteps, Builds(Built), TopNode.kind = "binary",
         ArgsMatch, ~ Source!MixesConstants(program), ~ Broken'
  PROVE  /\ Built.type = TypeOfNode(Top.node)
         /\ Built.constant => Built.type = "double" \/ nodes[Top.node].name = "<"
<1> DEFINE n == Top.node
           kids == KidsAt(n)
<1>1. /\ n \in DOMAIN nodes /\ TopNode = nodes[n]
      /\ TopNode.name \in Arithmetic \cup {"<"}
      /\ DOMAIN Top.got = {1, 2} /\ DOMAIN kids = {1, 2}
      /\ Built.op = TopNode.name /\ Built.args = <<Top.got[1], Top.got[2]>>
      /\ Built.type = (IF TopNode.name = "<" THEN "i1" ELSE values[Top.got[1]].type)
      /\ Top.got \in Seq(1 .. Len(values)) /\ Generatable(program)
  BY BuiltArgs DEF TopNode, Shape
<1>2. \A i \in {1, 2} :
        /\ values[Top.got[i]].type = TypeOfNode(kids[i])
        /\ values[Top.got[i]].constant =>
             values[Top.got[i]].type = "double" \/ nodes[kids[i]].name = "<"
  BY <1>1 DEF ArgsMatch, Matches
<1>3. \A i \in {1, 2} : values[Top.got[i]].type = "double"
  <2>1. CASE Built.constant
    <3>1. Folded(n) /\ \A i \in {1, 2} : values[Top.got[i]].constant
      BY <1>1, <2>1, BuiltFolds
    <3>2. \A m \in Source!Range(kids) : nodes[m].name # "<"
      <4>1. Source!Constants(program)[n] /\ n \in DOMAIN program.nodes
            /\ program.nodes[n].kind = "binary" /\ kids = program.nodes[n].kids
        BY <1>1, <3>1 DEF Folded, nodes, KidsAt
      <4> HIDE DEF kids, n
      <4> QED BY <4>1 DEF Source!MixesConstants, nodes
    <3>3. \A i \in {1, 2} : kids[i] \in Source!Range(kids)
      BY <1>1 DEF Source!Range
    <3> QED BY <1>2, <3>1, <3>2, <3>3
  <2>2. CASE ~ Built.constant
    <3>1. values' = Append(values, Built) /\ Inserts
      BY <2>2 DEF Builds, Inserts
    <3>2. WellTyped(functions', values', Built)
      BY <3>1, InsertedTyped
    <3>3. [i \in DOMAIN Built.args |-> values'[Built.args[i]].type] = <<"double", "double">>
      BY <1>1, <3>2 DEF WellTyped, Arithmetic
    <3>4. DOMAIN Built.args = {1, 2} /\ \A i \in {1, 2} : Built.args[i] = Top.got[i]
      BY <1>1
    <3>5. \A i \in {1, 2} : values'[Top.got[i]].type = "double"
      <4>1. \A i \in {1, 2} : [j \in DOMAIN Built.args |-> values'[Built.args[j]].type][i] = "double"
        BY <3>3
      <4> QED BY <3>4, <4>1
    <3>6. \A i \in {1, 2} : Top.got[i] \in 1 .. Len(values)
      BY <1>1
    <3> QED BY <3>5, <3>6, BodyKeeps
  <2> QED BY <2>1, <2>2
<1>4. \A i \in DOMAIN kids : TypeOfNode(kids[i]) = "double"
  BY <1>1, <1>2, <1>3
<1>5. TypeOfNode(n) = IF TopNode.name = "<" THEN "i1" ELSE "double"
  <2> HIDE DEF TypeOfNode
  <2>1. /\ TopNode.kind = "binary" /\ TopNode.name \in Arithmetic => TypeOfNode(n) = "double"
        /\ TopNode.kind = "binary" /\ TopNode.name = "<" => TypeOfNode(n) = "i1"
    BY <1>1, <1>4, TypeOfDoubles
  <2> QED BY <1>1, <2>1
<1> HIDE DEF TypeOfNode
<1> QED BY <1>1, <1>3, <1>5

\* How many arguments a name takes: as many as its first declaration.
LEMMA ArityIs ==
  ASSUME Generatable(program), NEW k \in DOMAIN program.trees, Source!IsFresh(program, k)
  PROVE  Source!ArityOf(program, Source!NameOf(program, k)) = Len(Source!ParamsOf(program, k))
<1> DEFINE x == Source!NameOf(program, k)
           j == CHOOSE i \in DOMAIN program.trees :
                  Source!NameOf(program, i) = x /\ Source!IsFresh(program, i)
<1>1. x \notin Source!Library
  BY DEF Source!IsFresh
<1>2. DOMAIN program.trees = 1 .. Len(program.trees) /\ Len(program.trees) \in Nat
  BY DEF Generatable
<1>3. j \in DOMAIN program.trees /\ Source!NameOf(program, j) = x /\ Source!IsFresh(program, j)
  OBVIOUS
<1>4. j = k
  <2>1. ASSUME NEW a \in 1 .. Len(program.trees), NEW b \in 1 .. Len(program.trees), a < b,
               Source!IsFresh(program, b)
        PROVE  Source!NameOf(program, a) # Source!NameOf(program, b)
    <3>1. a \in 1 .. b - 1
      BY <1>2, <2>1
    <3> QED BY <2>1, <3>1 DEF Source!IsFresh
  <2> HIDE DEF j
  <2> QED BY <1>2, <1>3, <2>1
<1>5. Source!ArityOf(program, x) = Len(Source!ParamsOf(program, j))
  BY <1>1 DEF Source!ArityOf
<1> QED BY <1>4, <1>5

LEMMA CallTyped ==
  ASSUME Shape, Shape', SymbolsInv, Callees, BodyStep, ~ Idle, ValueSteps, Builds(Built),
         TopNode.kind = "call", ArgsMatch, ~ Source!MixesConstants(program), ~ Broken'
  PROVE  Built.type = TypeOfNode(Top.node) /\ ~ Built.constant
<1> DEFINE n == Top.node
           kids == KidsAt(n)
           f == Top.of[1]
           x == TopNode.name
<1>1. /\ n \in DOMAIN nodes /\ TopNode = nodes[n] /\ stack # <<>> /\ Entered(stack)
      /\ f \in 1 .. Len(functions) /\ Top.of # <<>>
      /\ DOMAIN Top.got = DOMAIN kids /\ Len(Top.got) = Len(kids)
      /\ Len(functions[f].params) = Len(Top.got)
      /\ Built.op = "call" /\ Built.of = <<f>> /\ Built.args = Top.got
      /\ Built.type = functions[f].result /\ ~ Built.constant
      /\ Top.got \in Seq(1 .. Len(values)) /\ Generatable(program) /\ Len(Top.got) \in Nat
      /\ DOMAIN Top.got = 1 .. Len(Top.got)
  BY BuiltArgs, BodyFacts DEF TopNode, Shape
<1>2. functions[f].name = x
  <2>1. Top = stack[Len(stack)] /\ Len(stack) \in 1 .. Len(stack)
    BY <1>1, TopIs
  <2> QED BY <1>1, <2>1 DEF Callees
<1>3. /\ Symbols /\ Tree \in 1 .. Len(program.trees) /\ Begun = Tree
      /\ functions[f].params \in Seq(Types) /\ Len(functions) \in Nat
  BY <1>1, RootFacts, FunctionFacts, BodyKeeps DEF SymbolsInv, Shape
<1>4. \A i \in DOMAIN kids : TypeOfNode(kids[i]) = functions[f].params[i]
  <2>1. values' = Append(values, Built) /\ Inserts
    BY <1>1 DEF Builds, Inserts
  <2>2. WellTyped(functions', values', Built)
    BY <2>1, InsertedTyped
  <2>3. functions'[f].params = functions[f].params /\ Built.of[1] = f /\ Built.args \in Seq(Nat)
    BY <1>1, BodyKeeps
  <2>4. \A i \in DOMAIN Built.args :
          values'[Built.args[i]].type = functions'[Built.of[1]].params[i]
    <3>1. /\ functions'[Built.of[1]].params \in Seq(Types)
          /\ Len(Built.args) = Len(functions'[Built.of[1]].params)
      BY <1>1, <1>3, <2>3
    <3>2. Built.op = "call"
      BY <1>1
    <3> HIDE DEF f, n, kids, x
    <3>3. \A i \in DOMAIN Built.args :
             /\ i \in DOMAIN functions'[Built.of[1]].params
             /\ values'[Built.args[i]].type = functions'[Built.of[1]].params[i]
      BY <2>2, <2>3, <3>1, <3>2, CallTypes
    <3> QED BY <3>3
  <2>5. \A i \in DOMAIN Top.got : values'[Top.got[i]] = values[Top.got[i]]
    <3>1. \A i \in DOMAIN Top.got : Top.got[i] \in 1 .. Len(values)
      BY <1>1
    <3> QED BY <3>1, BodyKeeps
  <2>6. \A i \in DOMAIN Top.got : values[Top.got[i]].type = TypeOfNode(kids[i])
    BY DEF ArgsMatch, Matches
  <2>7. \A i \in DOMAIN Top.got : values'[Top.got[i]].type = functions[f].params[i]
    BY <1>1, <2>3, <2>4
  <2> HIDE DEF TypeOfNode, f
  <2> QED BY <1>1, <2>5, <2>6, <2>7
<1>5. f # 1
  <2>1. SUFFICES ASSUME f = 1 PROVE FALSE
    OBVIOUS
  <2>2. functions[f].params = <<"i8*">>
    BY <1>3, <2>1 DEF Symbols, LibrarySymbols
  <2>3. Len(Top.got) = 1 /\ functions[f].params[1] = "i8*"
    BY <1>1, <2>2
  <2>4. 1 \in DOMAIN kids
    BY <1>1, <2>3
  <2>5. kids[1] \in DOMAIN nodes
    <3>1. DOMAIN nodes = 1 .. Len(nodes) /\ n \in 1 .. Len(nodes) /\ kids[1] \in 1 .. n - 1
          /\ Len(nodes) \in Nat
      BY <1>1, <2>4, KidsAreOlder
    <3> QED BY <3>1
  <2>6. TypeOfNode(kids[1]) # "i8*"
    BY <1>1, <2>5, NodeTypes
  <2> HIDE DEF TypeOfNode
  <2> QED BY <1>4, <2>3, <2>4, <2>6
<1>6. \A i \in DOMAIN kids : functions[f].params[i] = "double"
  <2>1. CASE f = 2
    <3>1. functions[2].params = <<"double">>
      BY <1>3 DEF Symbols, LibrarySymbols
    <3>2. functions[f].params = <<"double">>
      BY <2>1, <3>1
    <3>3. DOMAIN kids = 1 .. 1
      BY <1>1, <3>2
    <3> QED BY <3>2, <3>3
  <2>2. CASE f \in 3 .. Len(functions)
    <3>1. Symbol(f)
      BY <1>3, <2>2 DEF Symbols
    <3>2. DOMAIN functions[f].params = DOMAIN kids
      <4>1. DOMAIN functions[f].params = 1 .. Len(functions[f].params)
        BY <1>3
      <4> QED BY <1>1, <4>1
    <3> QED BY <3>1, <3>2 DEF Symbol
  <2>3. f = 2 \/ f \in 3 .. Len(functions)
    BY <1>1, <1>3, <1>5
  <2> QED BY <2>1, <2>2, <2>3
<1>7. TypeOfNode(n) =
        IF x \in Source!Callable(program, Tree) \ {"printf"} /\ Source!ArityOf(program, x) = Len(kids)
          THEN Source!ResultOf(x) ELSE "none"
  BY <1>1, <1>4, <1>6, TypeOfDoubles
<1>8. x # Renamed
  BY <1>1, NamesArePlain
<1>9. x # "printf"
  <2>1. functions[1].name = "printf" /\ 1 \in 1 .. Len(functions)
    BY <1>3 DEF Symbols, LibrarySymbols
  <2>2. functions[f].name = functions[1].name => f = 1
    BY <1>1, <1>2, <1>3, <1>8, <2>1 DEF Symbols
  <2> QED BY <1>2, <1>5, <2>1, <2>2
<1> HIDE DEF TypeOfNode
<1>10. CASE f = 2
  <2>1. x = "print" /\ Len(functions[f].params) = 1 /\ functions[f].result = "void"
    <3>1. /\ functions[2].name = "print" /\ functions[2].params = <<"double">>
          /\ functions[2].result = "void"
      BY <1>3 DEF Symbols, LibrarySymbols
    <3> QED BY <1>2, <1>10, <3>1
  <2>2. x \in Source!Callable(program, Tree) \ {"printf"} /\ Source!ArityOf(program, x) = 1
        /\ Source!ResultOf(x) = "void"
    BY <2>1 DEF Source!Callable, Source!Library, Source!ArityOf, Source!ResultOf
  <2> QED BY <1>1, <1>7, <2>1, <2>2
<1>11. CASE f \in 3 .. Len(functions)
  <2>1. Symbol(f)
    BY <1>3, <1>11 DEF Symbols
  <2>2. functions[f].result = Source!ResultOf(x)
    BY <1>2, <1>8, <2>1 DEF Symbol
  <2>3. PICK k \in 1 .. Tree : DeclaredBy(f, k)
    BY <1>2, <1>3, <1>8, <2>1 DEF Symbol
  <2>4. k \in DOMAIN program.trees /\ Source!IsFresh(program, k) /\ Source!NameOf(program, k) = x
        /\ Len(functions[f].params) = Len(Source!ParamsOf(program, k))
    BY <1>2, <1>3, <2>3 DEF DeclaredBy, Shape, Generatable
  <2>5. Source!ArityOf(program, x) = Len(Source!ParamsOf(program, k))
    BY <1>1, <2>4, ArityIs
  <2>6. x \in Source!Callable(program, Tree)
    BY <2>3, <2>4 DEF Source!Callable
  <2> QED BY <1>1, <1>7, <1>9, <2>2, <2>4, <2>5, <2>6
<1> QED BY <1>1, <1>3, <1>5, <1>10, <1>11

\* Matches, after the step.
LEMMA MatchedNext ==
  ASSUME program' = program, next' = next, NEW v \in 1 .. Len(values'), NEW n \in DOMAIN nodes,
         Terms'[v] = MeaningOf(n), values'[v].constant => Folded(n),
         ~ Source!MixesConstants(program) =>
           /\ values'[v].type = TypeOfNode(n)
           /\ values'[v].constant => values'[v].type = "double" \/ nodes[n].name = "<"
  PROVE  <<v, n>> \in Matched'
<1>1. nodes' = nodes /\ Tree' = Tree
  BY DEF nodes, Tree
<1>2. MeaningOf(n)' = MeaningOf(n) /\ TypeOfNode(n)' = TypeOfNode(n) /\ Folded(n)' = Folded(n)
  BY <1>1 DEF MeaningOf, TypeOfNode, Folded
<1>3. Source!MixesConstants(program') = Source!MixesConstants(program)
  OBVIOUS
<1> HIDE DEF Terms, MeaningOf, TypeOfNode, Folded
<1>4. Matches(v, n)'
  BY <1>1, <1>2, <1>3 DEF Matches
<1>5. <<v, n>> \in (1 .. Len(values')) \X DOMAIN nodes'
  BY <1>1
<1>6. <<v, n>>[1] = v /\ <<v, n>>[2] = n
  OBVIOUS
<1> DEFINE M(a, b) == Matches(a, b)'
<1>7. Matched' = { vn \in (1 .. Len(values')) \X DOMAIN nodes' : M(vn[1], vn[2]) }
  BY DEF Matched
<1>8. M(v, n)
  BY <1>4
<1> HIDE DEF M
<1> QED BY <1>5, <1>6, <1>7, <1>8

LEMMA ValueMatches ==
  ASSUME Shape, Shape', CallsInv, SymbolsInv, Callees, BodyStep, ~ Idle, ValueSteps, Builds(Built),
         TopNode.kind # "cond", ArgsMatch, ~ Broken'
  PROVE  <<Len(values) + 1, Top.node>> \in Matched'
<1>1. /\ Top.node \in DOMAIN nodes /\ TopNode = nodes[Top.node]
      /\ TopNode.kind \in {"number", "binary", "call"} /\ Generatable(program)
  BY BuiltArgs DEF TopNode, Shape
<1>2. values' = Append(values, Built) /\ program' = program /\ next' = next
  BY DEF Builds
<1>3. Len(values) + 1 \in 1 .. Len(values') /\ values'[Len(values) + 1] = Built
  BY <1>2, Appended
<1>4. Terms'[Len(values) + 1] = MeaningOf(Top.node)
  BY BuiltTerm
<1>5. Built.constant => Folded(Top.node)
  BY BuiltFolds
<1>6. ASSUME ~ Source!MixesConstants(program)
      PROVE  /\ Built.type = TypeOfNode(Top.node)
             /\ Built.constant => Built.type = "double" \/ nodes[Top.node].name = "<"
  <2>1. CASE TopNode.kind = "number"
    <3>1. Built.type = "double"
      BY <2>1, BuiltArgs DEF Constant, Value
    <3>2. TypeOfNode(Top.node) =
            Source!TypeOf(program, Tree, Top.node,
              [i \in DOMAIN KidsAt(Top.node) |-> TypeOfNode(KidsAt(Top.node)[i])])
      BY <1>1, TreesSolve
    <3>3. program.nodes[Top.node].kind = "number"
      BY <1>1, <2>1 DEF nodes
    <3> HIDE DEF TypeOfNode
    <3>4. TypeOfNode(Top.node) = "double"
      BY <3>2, <3>3 DEF Source!TypeOf
    <3> QED BY <3>1, <3>4
  <2>2. CASE TopNode.kind = "binary"
    BY <1>6, <2>2, BinaryTyped
  <2>3. CASE TopNode.kind = "call"
    BY <1>6, <2>3, CallTyped
  <2> QED BY <1>1, <2>1, <2>2, <2>3
<1> HIDE DEF Terms, MeaningOf, TypeOfNode, Folded, Built
<1>7. /\ values'[Len(values) + 1].constant => Folded(Top.node)
      /\ ~ Source!MixesConstants(program) =>
           /\ values'[Len(values) + 1].type = TypeOfNode(Top.node)
           /\ values'[Len(values) + 1].constant =>
                values'[Len(values) + 1].type = "double" \/ nodes[Top.node].name = "<"
  BY <1>3, <1>5, <1>6
<1> QED BY <1>1, <1>2, <1>3, <1>4, <1>7, MatchedNext

\* A variable of a motif that declares its name.
LEMMA VariableMatches ==
  ASSUME Shape, Shape', CallsInv, SymbolsInv, BodyStep, ~ Idle, Variable,
         Source!IsFresh(program, Tree)
  PROVE  <<namedValues[TopNode.name], Top.node>> \in Matched'
<1> DEFINE n == Top.node
           x == TopNode.name
           v == namedValues[x]
           names == Source!ParamsOf(program, Tree)
<1>1. stack # <<>> /\ Entered(stack) /\ program' = program /\ next' = next /\ [Next]_vars
  BY BodyFacts, BodyKeeps
<1>2. n \in DOMAIN nodes /\ TopNode = nodes[n] /\ Generatable(program)
  BY <1>1, TopFacts DEF TopNode, Shape
<1>3. TopNode.kind = "variable" /\ x \in DOMAIN namedValues
  BY DEF Variable, At
<1>4. v \in 1 .. Len(values) /\ values'[v] = values[v] /\ v \in 1 .. Len(values')
  <2>1. v \in 1 .. Len(values)
    BY <1>3 DEF Shape, NamesOK
  <2> QED BY <2>1, BodyKeeps
<1>5. values[v].op = "param" /\ values[v].type = "double" /\ ~ values[v].constant
  BY <1>3, <1>4 DEF SymbolsInv, Made, MadeOK
<1>6. x \in Source!Range(names) /\ values[v].of[2] = Max({ i \in DOMAIN names : names[i] = x })
  BY <1>1, <1>3 DEF SymbolsInv, Bound
<1>7. Terms'[v] = Source!Term("param", <<values[v].of[2]>>, <<>>)
  <2>1. Terms'[v] = Terms[v]
    BY <1>1, <1>4, TermsStay
  <2>2. Terms = [u \in 1 .. Len(values) |-> TermStep(Terms, u)]
    BY TermsSolve DEF Shape
  <2> HIDE DEF Terms
  <2>3. Terms[v] = TermStep(Terms, v)
    BY <1>4, <2>2
  <2>4. TermStep(Terms, v) = Source!Term("param", <<values[v].of[2]>>, <<>>)
    BY <1>5 DEF TermStep, TermOf
  <2> QED BY <2>1, <2>3, <2>4
<1>8. program.nodes[n].kind = "variable" /\ program.nodes[n].name = x
  BY <1>2, <1>3 DEF nodes
<1>9. MeaningOf(n) = Source!Term("param", <<values[v].of[2]>>, <<>>)
  <2>1. MeaningOf(n) = Source!TermOf(program, Tree, n,
                          [i \in DOMAIN KidsAt(n) |-> MeaningOf(KidsAt(n)[i])])
    BY <1>2, TreesSolve
  <2> HIDE DEF MeaningOf
  <2>2. MeaningOf(n) =
          Source!Term("param", <<Source!Max({ i \in DOMAIN names : names[i] = x })>>, <<>>)
    BY <1>8, <2>1 DEF Source!TermOf
  <2>3. Source!Max({ i \in DOMAIN names : names[i] = x }) = Max({ i \in DOMAIN names : names[i] = x })
    BY DEF Source!Max, Max
  <2> QED BY <1>6, <2>2, <2>3
<1>10. TypeOfNode(n) = "double"
  <2>1. TypeOfNode(n) = Source!TypeOf(program, Tree, n,
                          [i \in DOMAIN KidsAt(n) |-> TypeOfNode(KidsAt(n)[i])])
    BY <1>2, TreesSolve
  <2> HIDE DEF TypeOfNode
  <2> QED BY <1>6, <1>8, <2>1 DEF Source!TypeOf
<1> HIDE DEF Terms, MeaningOf, TypeOfNode, Folded, v, n
<1>11. Terms'[v] = MeaningOf(n) /\ values'[v].type = TypeOfNode(n) /\ ~ values'[v].constant
  BY <1>4, <1>5, <1>7, <1>9, <1>10
<1>12. <<v, n>> \in Matched'
  BY <1>1, <1>2, <1>4, <1>11, MatchedNext
<1> QED BY <1>12 DEF v, n

=============================================================================
