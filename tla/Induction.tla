------------------------------ MODULE Induction ------------------------------
(* Induction over the naturals and recursion, for the proofs. A theorem     *)
(* with an operator as parameter cannot be cited; a set takes its place,    *)
(* whose complement has a least element.                                    *)
EXTENDS Naturals, WellFoundedInduction, TLAPS

\* A set of naturals that is not empty has a least element.
LEMMA LeastElement ==
  ASSUME NEW T, T \subseteq Nat, T # {}
  PROVE  \E x \in T : \A y \in T : x <= y
<1> DEFINE R == OpToRel(<, Nat)
<1>1. IsWellFoundedOn(R, Nat)
  BY NatLessThanWellFounded
<1> HIDE DEF R
<1>2. PICK x \in T : \A y \in T : <<y, x>> \notin R
  BY <1>1, WFMin
<1>3. \A y \in T : ~(y < x)
  BY <1>2 DEF R, OpToRel
<1>4. QED
  BY <1>2, <1>3

\* A set with 0 and the successors of its elements has all naturals.
LEMMA AllNaturals ==
  ASSUME NEW T, 0 \in T, \A n \in Nat : n \in T => n + 1 \in T
  PROVE  Nat \subseteq T
<1>1. SUFFICES ASSUME Nat \ T # {} PROVE FALSE
  OBVIOUS
<1>2. PICK x \in Nat \ T : \A y \in Nat \ T : x <= y
  BY <1>1, LeastElement
<1>3. x # 0
  OBVIOUS
<1>4. x - 1 \in Nat /\ x - 1 \notin Nat \ T
  BY <1>2, <1>3
<1>5. QED
  BY <1>4

\* A function f is defined by recursion on 0 .. N; op gives its value at n from that at n - 1.
Recurs(S, e, N, op) == e \in S /\ N \in Nat /\ op \in [S \X (1 .. N) -> S]
IsRecursive(f, S, e, N, op) ==
  f \in [0 .. N -> S] /\ f[0] = e /\ \A n \in 1 .. N : f[n] = op[<<f[n - 1], n>>]

LEMMA Recursion ==
  ASSUME NEW S, NEW e, NEW N, NEW op, Recurs(S, e, N, op)
  PROVE  \E f : IsRecursive(f, S, e, N, op)
<1> USE DEF Recurs
<1> DEFINE Solves(f, m) == f[0] = e /\ \A n \in 1 .. m : f[n] = op[<<f[n - 1], n>>]
           T == {m \in Nat : m <= N => \E f \in [0 .. m -> S] : Solves(f, m)}
<1>1. 0 \in T
  <2> DEFINE f == [n \in 0 .. 0 |-> e]
  <2>1. f \in [0 .. 0 -> S] /\ Solves(f, 0)
    OBVIOUS
  <2> HIDE DEF f, Solves
  <2>2. QED
    BY <2>1
<1>2. ASSUME NEW m \in Nat, m \in T PROVE m + 1 \in T
  <2> SUFFICES ASSUME m + 1 <= N PROVE \E f \in [0 .. m + 1 -> S] : Solves(f, m + 1)
    OBVIOUS
  <2>1. PICK f \in [0 .. m -> S] : Solves(f, m)
    BY <1>2
  <2> DEFINE g == [n \in 0 .. m + 1 |-> IF n = m + 1 THEN op[<<f[m], m + 1>>] ELSE f[n]]
  <2>2. \A n \in 0 .. m : g[n] = f[n] /\ f[n] \in S
    OBVIOUS
  <2>3. g[m + 1] = op[<<f[m], m + 1>>] /\ op[<<f[m], m + 1>>] \in S
    <3>1. f[m] \in S /\ m + 1 \in 1 .. N
      OBVIOUS
    <3>2. QED
      BY <3>1
  <2>4. g \in [0 .. m + 1 -> S]
    <3>1. \A n \in 0 .. m + 1 : g[n] \in S
      <4> HIDE DEF g
      <4>1. QED
        BY <2>2, <2>3
    <3>2. QED
      BY <3>1
  <2> HIDE DEF g
  <2>5. Solves(g, m + 1)
    <3>1. g[0] = e
      BY <2>1, <2>2
    <3>2. \A n \in 1 .. m + 1 : g[n] = op[<<g[n - 1], n>>]
      <4>1. ASSUME NEW n \in 1 .. m + 1 PROVE g[n] = op[<<g[n - 1], n>>]
        <5>1. CASE n = m + 1
          <6>1. g[n - 1] = f[m]
            BY <2>2, <5>1
          <6>2. QED
            BY <6>1, <5>1, <2>3
        <5>2. CASE n # m + 1
          <6>1. n \in 1 .. m /\ n \in 0 .. m /\ n - 1 \in 0 .. m
            BY <5>2
          <6>2. QED
            BY <6>1, <2>1, <2>2
        <5>3. QED
          BY <5>1, <5>2
      <4>2. QED
        BY <4>1
    <3>3. QED
      BY <3>1, <3>2
  <2> HIDE DEF Solves
  <2>6. QED
    BY <2>4, <2>5
<1>3. Nat \subseteq T
  <2> HIDE DEF T
  <2>1. QED
    BY <1>1, <1>2, AllNaturals
<1>4. \E f \in [0 .. N -> S] : Solves(f, N)
  <2> HIDE DEF Solves
  <2>1. QED
    BY <1>3
<1>5. QED
  BY <1>4 DEF IsRecursive
=============================================================================
