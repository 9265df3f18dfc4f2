------------------------------ MODULE Recursion ------------------------------
(***************************************************************************)
(* Functions on 1 .. n that are defined by recursion: the value at v is    *)
(* Step(f, v), which looks at f below v only.  A definition f[v \in 1 .. n] *)
(* == Step(f, v) means a function that is chosen to be equal to its body;  *)
(* that there is one, and only one, is what every proof about such a       *)
(* definition begins with.  A module that has the definition instantiates  *)
(* Step with its body.                                                     *)
(***************************************************************************)
EXTENDS Naturals, WellFoundedInduction, NaturalsInduction, TLAPS

CONSTANT Step(_, _)

\* Step looks below its second argument.
Looks(n) ==
  \A v \in 1 .. n : \A g, h :
    (\A u \in 1 .. v - 1 : g[u] = h[u]) => Step(g, v) = Step(h, v)

LEMMA Least ==
  ASSUME NEW T \in SUBSET Nat, T # {}
  PROVE  \E x \in T : \A y \in T : x <= y
<1> DEFINE R == OpToRel(<, Nat)
<1>1. IsWellFoundedOn(R, Nat)
  BY NatLessThanWellFounded
<1>2. PICK x \in T : \A y \in T : ~ (<<y, x>> \in R)
  <2> HIDE DEF R
  <2> QED BY <1>1, WFMin
<1>3. \A y \in T : ~ (y < x)
  BY <1>2 DEF OpToRel
<1> QED BY <1>3

(* There is at most one such function.                                     *)
LEMMA Unique ==
  ASSUME NEW n \in Nat, Looks(n),
         NEW f, \A v \in 1 .. n : f[v] = Step(f, v),
         NEW g, \A v \in 1 .. n : g[v] = Step(g, v)
  PROVE  \A v \in 1 .. n : f[v] = g[v]
<1> DEFINE T == { v \in 1 .. n : f[v] # g[v] }
<1>1. SUFFICES ASSUME T # {} PROVE FALSE
  OBVIOUS
<1>2. T \in SUBSET Nat
  OBVIOUS
<1>3. PICK x \in T : \A y \in T : x <= y
  <2> HIDE DEF T
  <2> QED BY <1>1, <1>2, Least
<1>4. x \in 1 .. n /\ f[x] # g[x]
  BY <1>3
<1>5. \A u \in 1 .. x - 1 : f[u] = g[u]
  BY <1>3, <1>4
<1>6. Step(f, x) = Step(g, x)
  BY <1>4, <1>5 DEF Looks
<1> QED BY <1>4, <1>6

(* There is one: a function on 1 .. n - 1 has one more value.              *)
LEMMA Solvable ==
  ASSUME NEW n \in Nat, Looks(n)
  PROVE  \E f : f = [v \in 1 .. n |-> Step(f, v)]
<1> DEFINE Bad == { m \in 0 .. n : ~ \E f : f = [v \in 1 .. m |-> Step(f, v)] }
<1>1. SUFFICES Bad = {}
  OBVIOUS
<1>2. SUFFICES ASSUME Bad # {} PROVE FALSE
  OBVIOUS
<1>3. PICK m \in Bad : \A y \in Bad : m <= y
  <2>1. Bad \in SUBSET Nat
    OBVIOUS
  <2> HIDE DEF Bad
  <2> QED BY <1>2, <2>1, Least
<1>4. m \in 0 .. n /\ ~ \E f : f = [v \in 1 .. m |-> Step(f, v)]
  BY <1>3
<1>5. m # 0
  <2>1. ASSUME m = 0 PROVE FALSE
    <3> DEFINE e == [v \in {} |-> v]
    <3>1. e = [v \in 1 .. m |-> Step(e, v)]
      BY <2>1
    <3> QED BY <3>1, <1>4
  <2> QED BY <2>1
<1>6. m - 1 \in 0 .. n /\ m - 1 \notin Bad
  BY <1>3, <1>4, <1>5
<1>7. PICK g : g = [v \in 1 .. m - 1 |-> Step(g, v)]
  BY <1>6
<1> DEFINE h == [v \in 1 .. m |-> IF v < m THEN g[v] ELSE Step(g, m)]
<1>8. \A u \in 1 .. m - 1 : h[u] = g[u]
  BY <1>4
<1>9. \A v \in 1 .. m : h[v] = Step(h, v)
  <2>1. ASSUME NEW v \in 1 .. m PROVE h[v] = Step(h, v)
    <3>1. v \in 1 .. n
      BY <1>4
    <3>2. \A u \in 1 .. v - 1 : h[u] = g[u]
      BY <1>8, <1>4
    <3>3. Step(h, v) = Step(g, v)
      <4> HIDE DEF h
      <4> QED BY <3>1, <3>2 DEF Looks
    <3>4. h[v] = Step(g, v)
      <4>1. CASE v < m
        <5>1. g[v] = Step(g, v)
          BY <4>1, <1>7, <1>4
        <5> QED BY <4>1, <5>1
      <4>2. CASE v = m
        BY <4>2
      <4> QED BY <4>1, <4>2, <1>4
    <3> QED BY <3>3, <3>4
  <2> QED BY <2>1
<1>10. h = [v \in 1 .. m |-> h[v]]
  OBVIOUS
<1>11. h = [v \in 1 .. m |-> Step(h, v)]
  <2> HIDE DEF h
  <2> QED BY <1>9, <1>10
<1> HIDE DEF h
<1> QED BY <1>11, <1>4

(* The function chosen is one.                                             *)
LEMMA Solves ==
  ASSUME NEW n \in Nat, Looks(n),
         NEW f, f = CHOOSE g : g = [v \in 1 .. n |-> Step(g, v)]
  PROVE  f = [v \in 1 .. n |-> Step(f, v)]
  BY Solvable

=============================================================================
