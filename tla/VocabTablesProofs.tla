------------------------- MODULE VocabTablesProofs -------------------------
(* Theorems about VocabTables, for any codebases, tokens and integer range, *)
(* and about the indexers, the cache of embeddings and the detection of     *)
(* changed files beside them.                                               *)
EXTENDS Vocabulary, Induction, FiniteSetTheorems, SequenceTheorems

-----------------------------------------------------------------------------
\* Sums. SumFunction adds the values at the elements of a set in the order that
\* CHOOSE gives them; g has the sums over all subsets of S.
Chosen(s) == CHOOSE x \in s : TRUE
IsSumOf(g, f, S) ==
  g = [s \in SUBSET S |-> IF s = {} THEN 0 ELSE f[Chosen(s)] + g[s \ {Chosen(s)}]]

LEMMA SubsetFacts ==
  ASSUME NEW S, IsFiniteSet(S)
  PROVE  \A s \in SUBSET S :
           IsFiniteSet(s) /\ Cardinality(s) \in Nat /\ (Cardinality(s) = 0 <=> s = {})
  BY FS_Subset, FS_CardinalityType, FS_EmptySet

LEMMA OneLess ==
  ASSUME NEW s, IsFiniteSet(s), s # {}
  PROVE  /\ Chosen(s) \in s /\ IsFiniteSet(s \ {Chosen(s)})
         /\ Cardinality(s \ {Chosen(s)}) + 1 = Cardinality(s)
<1>1. Chosen(s) \in s
  BY DEF Chosen
<1>2. Cardinality(s \ {Chosen(s)}) = Cardinality(s) - 1 /\ IsFiniteSet(s \ {Chosen(s)})
  BY <1>1, FS_RemoveElement
<1>3. Cardinality(s) \in Nat
  BY FS_CardinalityType
<1>4. QED
  BY <1>1, <1>2, <1>3

\* The sums exist: those over smaller sets give those over sets of one more.
LEMMA SumsExist ==
  ASSUME NEW S, IsFiniteSet(S), NEW f
  PROVE  \E g : IsSumOf(g, f, S)
<1> DEFINE Small(n) == {s \in SUBSET S : Cardinality(s) <= n}
           Def(g, s) == IF s = {} THEN 0 ELSE f[Chosen(s)] + g[s \ {Chosen(s)}]
           T == {n \in Nat : \E g : g = [s \in Small(n) |-> Def(g, s)]}
<1>1. \A s \in SUBSET S : IsFiniteSet(s) /\ Cardinality(s) \in Nat /\ (Cardinality(s) = 0 => s = {})
  BY SubsetFacts
<1>2. 0 \in T
  <2>1. Small(0) = {{}}
    BY <1>1, FS_EmptySet
  <2> DEFINE g == [s \in Small(0) |-> 0]
  <2>2. g = [s \in Small(0) |-> Def(g, s)]
    BY <2>1
  <2> QED
    BY <2>2
<1>3. ASSUME NEW n \in Nat, n \in T PROVE n + 1 \in T
  <2>1. PICK g : g = [s \in Small(n) |-> Def(g, s)]
    BY <1>3
  <2> DEFINE h == [s \in Small(n + 1) |-> Def(g, s)]
  <2>2. ASSUME NEW s \in Small(n + 1) PROVE Def(g, s) = Def(h, s)
    <3>1. CASE s = {}
      BY <3>1
    <3>2. CASE s # {}
      <4>1. s \ {Chosen(s)} \in Small(n) /\ s \ {Chosen(s)} \in Small(n + 1)
        BY <1>1, <3>2, OneLess
      <4>2. h[s \ {Chosen(s)}] = Def(g, s \ {Chosen(s)}) /\ g[s \ {Chosen(s)}] = Def(g, s \ {Chosen(s)})
        BY <4>1, <2>1
      <4> QED
        BY <4>2, <3>2
    <3> QED
      BY <3>1, <3>2
  <2>3. h = [s \in Small(n + 1) |-> Def(h, s)]
    BY <2>2
  <2>4. \E k : k = [s \in Small(n + 1) |-> Def(k, s)]
    <3> HIDE DEF h, Def, Small
    <3> QED
      BY <2>3
  <2> HIDE DEF Def, Small
  <2> QED
    BY <2>4
<1>4. Cardinality(S) \in T
  <2> HIDE DEF T
  <2> QED
    BY <1>2, <1>3, AllNaturals, FS_CardinalityType
<1>5. Small(Cardinality(S)) = SUBSET S
  BY FS_Subset, FS_CardinalityType
<1> QED
  BY <1>4, <1>5 DEF IsSumOf

LEMMA SumIs ==
  ASSUME NEW S, IsFiniteSet(S), NEW f, DOMAIN f = S
  PROVE  \E g : IsSumOf(g, f, S) /\ SumFunction(f) = g[S]
<1> DEFINE g == CHOOSE g : IsSumOf(g, f, S)
<1>1. IsSumOf(g, f, S)
  BY SumsExist
<1>2. SumFunction(f) = g[S]
  BY DEF SumFunction, SumFunctionOnSet, FoldFunctionOnSet, MapThenFoldSet, IsSumOf, Chosen
<1> QED
  BY <1>1, <1>2

\* Where functions differ in one place, their sums differ by as much.
LEMMA SumOfPart ==
  ASSUME NEW S, IsFiniteSet(S), NEW f \in [S -> Int], NEW g \in [S -> Int], NEW c \in S,
         \A d \in S \ {c} : g[d] = f[d]
  PROVE  /\ SumFunction(f) \in Int
         /\ SumFunction(g) = SumFunction(f) - f[c] + g[c]
<1>1. PICK F : IsSumOf(F, f, S) /\ SumFunction(f) = F[S]
  BY SumIs
<1>2. PICK G : IsSumOf(G, g, S) /\ SumFunction(g) = G[S]
  BY SumIs
<1> DEFINE P(s) == F[s] \in Int /\ G[s] = F[s] + (IF c \in s THEN g[c] - f[c] ELSE 0)
           T == {n \in Nat : \A s \in SUBSET S : Cardinality(s) = n => P(s)}
<1>3. \A s \in SUBSET S : IsFiniteSet(s) /\ Cardinality(s) \in Nat /\ (Cardinality(s) = 0 => s = {})
  BY SubsetFacts
<1>4. 0 \in T
  BY <1>1, <1>2, <1>3 DEF IsSumOf
<1>5. ASSUME NEW n \in Nat, n \in T PROVE n + 1 \in T
  <2>1. SUFFICES ASSUME NEW s \in SUBSET S, Cardinality(s) = n + 1 PROVE P(s)
    OBVIOUS
  <2> DEFINE x == Chosen(s)
             r == s \ {x}
  <2>2. s # {} /\ x \in s /\ r \in SUBSET S /\ Cardinality(r) = n
    BY <1>3, <2>1, OneLess, FS_EmptySet
  <2>3. P(r)
    BY <1>5, <2>2
  <2>4. F[s] = f[x] + F[r] /\ G[s] = g[x] + G[r]
    BY <1>1, <1>2, <2>2 DEF IsSumOf
  <2>5. f[x] \in Int /\ g[x] \in Int /\ f[c] \in Int /\ g[c] \in Int
    BY <2>2
  <2> HIDE DEF x
  <2> QED
    BY <2>2, <2>3, <2>4, <2>5
<1>6. Cardinality(S) \in T
  <2> HIDE DEF T
  <2> QED
    BY <1>4, <1>5, AllNaturals, FS_CardinalityType
<1>7. P(S)
  BY <1>6
<1> QED
  BY <1>1, <1>2, <1>7

\* A sum of naturals is none less than each of them.
LEMMA SumOfNats ==
  ASSUME NEW S, IsFiniteSet(S), NEW f \in [S -> Nat]
  PROVE  /\ SumFunction(f) \in Nat
         /\ (\A d \in S : f[d] = 0) => SumFunction(f) = 0
         /\ \A d \in S : f[d] <= SumFunction(f)
<1>1. PICK F : IsSumOf(F, f, S) /\ SumFunction(f) = F[S]
  BY SumIs
<1> DEFINE P(s) == F[s] \in Nat /\ ((\A d \in S : f[d] = 0) => F[s] = 0) /\ \A d \in s : f[d] <= F[s]
           T == {n \in Nat : \A s \in SUBSET S : Cardinality(s) = n => P(s)}
<1>3. \A s \in SUBSET S : IsFiniteSet(s) /\ Cardinality(s) \in Nat /\ (Cardinality(s) = 0 => s = {})
  BY SubsetFacts
<1>4. 0 \in T
  BY <1>1, <1>3 DEF IsSumOf
<1>5. ASSUME NEW n \in Nat, n \in T PROVE n + 1 \in T
  <2>1. SUFFICES ASSUME NEW s \in SUBSET S, Cardinality(s) = n + 1 PROVE P(s)
    OBVIOUS
  <2> DEFINE x == Chosen(s)
             r == s \ {x}
  <2>2. s # {} /\ x \in s /\ r \in SUBSET S /\ Cardinality(r) = n
    BY <1>3, <2>1, OneLess, FS_EmptySet
  <2>3. P(r)
    BY <1>5, <2>2
  <2>4. F[s] = f[x] + F[r]
    BY <1>1, <2>2 DEF IsSumOf
  <2>5. f[x] \in Nat /\ \A d \in s : f[d] \in Nat
    BY <2>2
  <2> HIDE DEF x
  <2>6. F[s] \in Nat /\ F[r] <= F[s] /\ f[x] <= F[s]
    BY <2>3, <2>4, <2>5
  <2>7. (\A d \in S : f[d] = 0) => F[s] = 0
    BY <2>2, <2>3, <2>4
  <2>8. \A d \in s : f[d] <= F[s]
    BY <2>2, <2>3, <2>5, <2>6
  <2> QED
    BY <2>6, <2>7, <2>8
<1>6. Cardinality(S) \in T
  <2> HIDE DEF T
  <2> QED
    BY <1>4, <1>5, AllNaturals, FS_CardinalityType
<1>7. P(S)
  BY <1>6
<1> QED
  BY <1>1, <1>7

-----------------------------------------------------------------------------
TableInv == TypeOK /\ IndicesAreUnique /\ ContributionsAreBacked

\* What every transaction does to the indices.
Appended == /\ idx' \in [Token -> Nat \cup {NoIndex}]
            /\ \A t \in Known : idx'[t] = idx[t]
            /\ IndicesAreUnique'

LEMMA AmountFacts == Amount \subseteq Nat /\ 0 \in Amount /\ NoCount \notin Amount
  BY TablesAssumption DEF Amount, NoCount

LEMMA AtLeast0Facts ==
  ASSUME NEW n \in Int
  PROVE  AtLeast0(n) \in Nat /\ (n > 0 => AtLeast0(n) = n) /\ (n <= 0 => AtLeast0(n) = 0)
  BY DEF AtLeast0

\* Tokens that get the next indices leave the others alone.
LEMMA AppendAppends ==
  ASSUME TypeOK, IndicesAreUnique, NEW tokens \in SUBSET Token, AppendIndices(tokens)
  PROVE  Appended /\ tokens \subseteq Known'
<1> DEFINE fresh == tokens \ Known
<1>1. PICK n \in 0 .. Cardinality(Token) :
        /\ IsNextIndex(n)
        /\ \E order \in Bijection(fresh, n .. n + Cardinality(fresh) - 1) :
             idx' = [t \in Token |-> IF t \in fresh THEN order[t] ELSE idx[t]]
  BY DEF AppendIndices
<1>2. PICK order \in Bijection(fresh, n .. n + Cardinality(fresh) - 1) :
        idx' = [t \in Token |-> IF t \in fresh THEN order[t] ELSE idx[t]]
  BY <1>1
<1>3. IsFiniteSet(fresh) /\ Cardinality(fresh) \in Nat /\ Cardinality(Token) \in Nat
  BY TablesAssumption, FS_Subset, FS_CardinalityType
<1>4. n \in Nat
  BY <1>3
<1>5. \A t \in fresh : order[t] \in n .. n + Cardinality(fresh) - 1
  BY DEF Bijection, Injection
<1>6. \A t \in fresh : order[t] \in Nat /\ order[t] >= n
  BY <1>3, <1>4, <1>5
<1>7. \A t, u \in fresh : order[t] = order[u] => t = u
  BY DEF Bijection, Injection, IsInjective
<1>8. fresh \subseteq Token /\ Known \subseteq Token
  BY DEF Known
<1>9. idx' \in [Token -> Nat \cup {NoIndex}]
  BY <1>2, <1>6, <1>8 DEF TypeOK
<1>10. \A t \in Known : idx'[t] = idx[t]
  BY <1>2, <1>8
<1>11. Known' = Known \cup fresh
  BY <1>2, <1>6, <1>8 DEF Known, NoIndex
<1>12. \A t \in Known : idx[t] \in Nat /\ idx[t] < n
  BY <1>1 DEF IsNextIndex, Known, TypeOK
<1>13. ASSUME NEW t \in Known', NEW u \in Known', idx'[t] = idx'[u]
       PROVE  t = u
  <2>1. CASE t \in fresh /\ u \in fresh
    BY <1>2, <1>7, <1>8, <1>13, <2>1
  <2>2. CASE t \in Known /\ u \in Known
    BY <1>10, <1>13, <2>2 DEF IndicesAreUnique
  <2>3. CASE t \in fresh /\ u \in Known
    <3>1. idx'[t] = order[t] /\ idx'[u] = idx[u]
      BY <1>2, <1>8, <1>10, <2>3
    <3>2. /\ order[t] \in Nat /\ order[t] >= n
          /\ idx[u] \in Nat /\ idx[u] < n
      BY <1>6, <1>12, <2>3
    <3>3. order[t] # idx[u]
      BY <1>4, <3>2
    <3>4. QED
      BY <1>13, <3>1, <3>3
  <2>4. CASE t \in Known /\ u \in fresh
    <3>1. idx'[u] = order[u] /\ idx'[t] = idx[t]
      BY <1>2, <1>8, <1>10, <2>4
    <3>2. /\ idx[t] \in Nat /\ idx[t] < n
          /\ order[u] \in Nat /\ order[u] >= n
      BY <1>6, <1>12, <2>4
    <3>3. idx[t] # order[u]
      BY <1>4, <3>2
    <3>4. QED
      BY <1>13, <3>1, <3>3
  <2>5. QED
    BY <1>11, <2>1, <2>2, <2>3, <2>4
<1>14. tokens \subseteq Known'
  BY <1>11
<1>15. QED
  BY <1>9, <1>10, <1>13, <1>14 DEF Appended, IndicesAreUnique

LEMMA UnchangedAppends ==
  ASSUME TypeOK, IndicesAreUnique, UNCHANGED idx
  PROVE  Appended /\ Known' = Known
  BY DEF TypeOK, IndicesAreUnique, Appended, Known

LEMMA KnownIsKept == ASSUME TypeOK, Appended PROVE Known \subseteq Known'
  BY DEF Appended, Known, TypeOK

\* What is left without a codebase is an INTEGER.
LEMMA WithoutType ==
  ASSUME TypeOK, NEW c \in Codebase
  PROVE  /\ Without(c) \in [Token -> Amount]
         /\ \A t \in Token : Without(c)[t] <= docFreq[t]
<1>1. ASSUME NEW t \in Token
      PROVE  AtLeast0(docFreq[t] - contrib[c][t]) \in 0 .. docFreq[t]
  <2>1. docFreq[t] \in Nat /\ contrib[c][t] \in Nat
    BY AmountFacts DEF TypeOK
  <2>2. QED
    BY <2>1, AtLeast0Facts
<1>2. \A t \in Token : docFreq[t] \in Amount
  BY DEF TypeOK
<1>3. \A t \in Token : 0 .. docFreq[t] \subseteq Amount
  BY <1>2, TablesAssumption DEF Amount
<1>4. \A t \in Token : docFreq[t] \in Nat
  BY <1>2, AmountFacts
<1>5. QED
  BY <1>1, <1>3, <1>4 DEF Without

\* The delta that an update applies leaves no contribution negative.
LEMMA DeltaFacts ==
  ASSUME TypeOK, NEW c \in Codebase, NEW t \in Token,
         NEW added \in [Token -> Nat], NEW removed \in [Token -> Nat]
  PROVE  /\ Delta(c, added, removed, t) \in Int
         /\ contrib[c][t] + Delta(c, added, removed, t) \in Nat
         /\ Delta(c, added, removed, t) > 0 => added[t] > 0
<1>1. contrib[c][t] \in Nat /\ added[t] \in Nat /\ removed[t] \in Nat
  BY DEF TypeOK
<1>2. QED
  BY <1>1, AtLeast0Facts DEF Delta

-----------------------------------------------------------------------------
LEMMA InitTableInv == Init => TableInv
<1> SUFFICES ASSUME Init PROVE TableInv
  OBVIOUS
<1>1. PICK old \in SUBSET Token :
        /\ \E order \in Bijection(old, 0 .. Cardinality(old) - 1) :
             idx = [t \in Token |-> IF t \in old THEN order[t] ELSE NoIndex]
        /\ docFreq \in [Token -> 0 .. MaxResidue]
  BY DEF Init
<1>2. PICK order \in Bijection(old, 0 .. Cardinality(old) - 1) :
        idx = [t \in Token |-> IF t \in old THEN order[t] ELSE NoIndex]
  BY <1>1
<1>3. Cardinality(old) \in Nat
  BY TablesAssumption, FS_Subset, FS_CardinalityType
<1>4. \A t \in old : order[t] \in 0 .. Cardinality(old) - 1
  BY DEF Bijection, Injection
<1>5. \A t \in old : order[t] \in Nat
  BY <1>3, <1>4
<1>6. \A t, u \in old : order[t] = order[u] => t = u
  BY DEF Bijection, Injection, IsInjective
<1>7. idx \in [Token -> Nat \cup {NoIndex}]
  BY <1>2, <1>5
<1>8. IndicesAreUnique
  <2>1. Known = old
    BY <1>2, <1>5 DEF Known, NoIndex
  <2>2. QED
    BY <1>2, <1>6, <2>1 DEF IndicesAreUnique
<1>9. docFreq \in [Token -> Amount]
  <2>1. 0 .. MaxResidue \subseteq Amount
    BY TablesAssumption DEF Amount
  <2>2. QED
    BY <1>1, <2>1
<1>10. /\ contrib \in [Codebase -> [Token -> Nat]]
       /\ docCount \in [Codebase -> Amount \cup {NoCount}]
       /\ ContributionsAreBacked
  BY DEF Init, ContributionsAreBacked
<1>11. QED
  BY <1>7, <1>8, <1>9, <1>10 DEF TableInv, TypeOK

LEMMA RegisterStep ==
  ASSUME TableInv, NEW c \in Codebase, NEW f \in [Token -> Amount], NEW n \in Amount,
         Register(c, f, n)
  PROVE  TableInv' /\ Appended
<1> DEFINE tokens == {t \in Token : f[t] > 0}
<1>1. TypeOK /\ IndicesAreUnique /\ ContributionsAreBacked
  BY DEF TableInv
<1>2. Appended /\ tokens \subseteq Known'
  BY <1>1, AppendAppends DEF Register
<1>3. \A t \in Token : Without(c)[t] + f[t] \in Amount
  <2> TAKE t \in Token
  <2>1. Without(c)[t] \in Amount /\ f[t] \in Amount
    BY <1>1, WithoutType
  <2>2. f[t] > 0 => Without(c)[t] + f[t] <= MaxInteger
    BY DEF Register, DeltaFits
  <2>3. QED
    BY <2>1, <2>2, TablesAssumption DEF Amount
<1>4. docFreq' \in [Token -> Amount]
  BY <1>3 DEF Register
<1>5. contrib' \in [Codebase -> [Token -> Nat]] /\ docCount' \in [Codebase -> Amount \cup {NoCount}]
  <2>1. f \in [Token -> Nat]
    BY AmountFacts
  <2>2. QED
    BY <1>1, <2>1 DEF Register, TypeOK
<1>6. ASSUME NEW d \in Codebase, NEW t \in Token, contrib'[d][t] > 0
      PROVE  docCount'[d] # NoCount /\ t \in Known'
  <2>1. CASE d = c
    <3>1. contrib'[d][t] = f[t] /\ docCount'[d] = n
      BY <1>1, <2>1 DEF Register, TypeOK
    <3>2. QED
      BY <1>2, <1>6, <3>1, AmountFacts
  <2>2. CASE d # c
    <3>1. contrib'[d][t] = contrib[d][t] /\ docCount'[d] = docCount[d]
      BY <1>1, <2>2 DEF Register, TypeOK
    <3>2. QED
      BY <1>1, <1>2, <1>6, <3>1, KnownIsKept DEF ContributionsAreBacked
  <2>3. QED
    BY <2>1, <2>2
<1>7. QED
  BY <1>2, <1>4, <1>5, <1>6 DEF TableInv, TypeOK, ContributionsAreBacked, Appended

LEMMA UnregisterStep ==
  ASSUME TableInv, NEW c \in Codebase, Unregister(c)
  PROVE  TableInv' /\ Appended
<1>1. TypeOK /\ IndicesAreUnique /\ ContributionsAreBacked
  BY DEF TableInv
<1>2. Appended /\ Known' = Known
  BY <1>1, UnchangedAppends DEF Unregister
<1>3. docFreq' \in [Token -> Amount]
  BY <1>1, WithoutType DEF Unregister
<1>4. contrib' \in [Codebase -> [Token -> Nat]] /\ docCount' \in [Codebase -> Amount \cup {NoCount}]
  BY <1>1 DEF Unregister, TypeOK
<1>5. ASSUME NEW d \in Codebase, NEW t \in Token, contrib'[d][t] > 0
      PROVE  docCount'[d] # NoCount /\ t \in Known'
  <2>1. d # c
    BY <1>1, <1>5 DEF Unregister, TypeOK
  <2>2. contrib'[d][t] = contrib[d][t] /\ docCount'[d] = docCount[d]
    BY <1>1, <2>1 DEF Unregister, TypeOK
  <2>3. QED
    BY <1>1, <1>2, <1>5, <2>2 DEF ContributionsAreBacked
<1>6. QED
  BY <1>2, <1>3, <1>4, <1>5 DEF TableInv, TypeOK, ContributionsAreBacked, Appended

LEMMA UpdateStep ==
  ASSUME TableInv, NEW c \in Codebase, NEW added \in [Token -> 0 .. MaxUpdate],
         NEW removed \in [Token -> 0 .. MaxUpdate], NEW net \in -MaxInteger .. MaxInteger,
         Update(c, added, removed, net)
  PROVE  TableInv' /\ Appended
<1> DEFINE tokens == {t \in Token : added[t] > 0}
           delta(t) == Delta(c, added, removed, t)
<1>1. TypeOK /\ IndicesAreUnique /\ ContributionsAreBacked
  BY DEF TableInv
<1>2. Appended /\ tokens \subseteq Known'
  BY <1>1, AppendAppends DEF Update
<1>3. added \in [Token -> Nat] /\ removed \in [Token -> Nat]
  BY TablesAssumption
<1>4. \A t \in Token : /\ delta(t) \in Int
                       /\ contrib[c][t] + delta(t) \in Nat
                       /\ delta(t) > 0 => added[t] > 0
  BY <1>1, <1>3, DeltaFacts
<1>5. docFreq' \in [Token -> Amount]
  <2>1. \A t \in Token : delta(t) > 0 => docFreq[t] + delta(t) <= MaxInteger
    BY DEF Update, DeltaFits
  <2>2. \A t \in Token : docFreq[t] \in Amount
    BY <1>1 DEF TypeOK
  <2> HIDE DEF delta
  <2>3. \A t \in Token : AtLeast0(docFreq[t] + delta(t)) \in Amount
    BY <1>4, <2>1, <2>2, TablesAssumption DEF AtLeast0, Amount
  <2>4. docFreq' = [t \in Token |-> AtLeast0(docFreq[t] + delta(t))]
    BY DEF Update, delta
  <2>5. QED
    BY <2>3, <2>4
<1>6. contrib' = [contrib EXCEPT ![c] = [t \in Token |-> AtLeast0(@[t] + delta(t))]]
  BY DEF Update
<1>7. \A t \in Token : AtLeast0(contrib[c][t] + delta(t)) = contrib[c][t] + delta(t)
  BY <1>4 DEF AtLeast0
<1>8. docCount' = [docCount EXCEPT ![c] = AtLeast0(Count(c) + net)]
  BY DEF Update
<1>9. AtLeast0(Count(c) + net) \in Amount
  <2>1. Count(c) \in Int /\ net \in Int
    BY <1>1, TablesAssumption DEF TypeOK, Count, AtLeast0, Amount, NoCount
  <2>2. AtLeast0(Count(c) + net) \in Nat
    BY <2>1, AtLeast0Facts
  <2>3. AtLeast0(Count(c) + net) <= MaxInteger
    BY DEF Update
  <2>4. QED
    BY <2>2, <2>3, TablesAssumption DEF Amount
<1> HIDE DEF delta
<1>10. contrib' \in [Codebase -> [Token -> Nat]]
  BY <1>1, <1>4, <1>6, <1>7 DEF TypeOK
<1>11. docCount' \in [Codebase -> Amount \cup {NoCount}]
  BY <1>1, <1>8, <1>9 DEF TypeOK
<1>12. ASSUME NEW d \in Codebase, NEW t \in Token, contrib'[d][t] > 0
       PROVE  docCount'[d] # NoCount /\ t \in Known'
  <2>1. CASE d = c
    <3>1. contrib'[d][t] = contrib[c][t] + delta(t)
      BY <1>1, <1>6, <1>7, <2>1 DEF TypeOK
    <3>2. docCount'[d] # NoCount
      BY <1>1, <1>8, <1>9, <2>1, AmountFacts DEF TypeOK
    <3>3. CASE delta(t) > 0
      BY <1>2, <1>4, <3>2, <3>3
    <3>4. CASE ~(delta(t) > 0)
      <4>1. contrib[c][t] \in Nat
        BY <1>1 DEF TypeOK
      <4>2. contrib[c][t] > 0
        BY <1>4, <1>12, <3>1, <3>4, <4>1
      <4>3. QED
        BY <1>1, <1>2, <3>2, <4>2, KnownIsKept DEF ContributionsAreBacked
    <3>5. QED
      BY <3>3, <3>4
  <2>2. CASE d # c
    <3>1. contrib'[d][t] = contrib[d][t] /\ docCount'[d] = docCount[d]
      BY <1>1, <1>6, <1>8, <2>2 DEF TypeOK
    <3>2. QED
      BY <1>1, <1>2, <1>12, <3>1, KnownIsKept DEF ContributionsAreBacked
  <2>3. QED
    BY <2>1, <2>2
<1>13. QED
  BY <1>2, <1>5, <1>10, <1>11, <1>12 DEF TableInv, TypeOK, ContributionsAreBacked, Appended

LEMMA RebuildStep == ASSUME TableInv, Rebuild PROVE TableInv' /\ Appended
<1>1. TypeOK /\ IndicesAreUnique /\ ContributionsAreBacked
  BY DEF TableInv
<1>2. Appended /\ Known' = Known
  BY <1>1, UnchangedAppends DEF Rebuild
<1>3. docFreq' \in [Token -> Amount]
  BY <1>1 DEF Rebuild, TypeOK
<1>4. QED
  BY <1>1, <1>2, <1>3 DEF TableInv, TypeOK, Rebuild, ContributionsAreBacked, Appended

LEMMA TableStep == TableInv /\ [Next]_vars => TableInv' /\ Appended
<1> SUFFICES ASSUME TableInv, [Next]_vars PROVE TableInv' /\ Appended
  OBVIOUS
<1>1. CASE UNCHANGED vars
  BY <1>1 DEF vars, TableInv, TypeOK, IndicesAreUnique, ContributionsAreBacked, Appended, Known
<1>2. ASSUME NEW c \in Codebase, NEW f \in [Token -> Amount], NEW n \in Amount,
             Register(c, f, n)
      PROVE  TableInv' /\ Appended
  BY <1>2, RegisterStep
<1>3. ASSUME NEW c \in Codebase, Unregister(c) PROVE TableInv' /\ Appended
  BY <1>3, UnregisterStep
<1>4. ASSUME NEW c \in Codebase, NEW added \in [Token -> 0 .. MaxUpdate],
             NEW removed \in [Token -> 0 .. MaxUpdate],
             NEW net \in -MaxInteger .. MaxInteger, Update(c, added, removed, net)
      PROVE  TableInv' /\ Appended
  BY <1>4, UpdateStep
<1>5. CASE Rebuild
  BY <1>5, RebuildStep
<1>6. QED
  BY <1>1, <1>2, <1>3, <1>4, <1>5 DEF Next

LEMMA TableInvariant == Spec => []TableInv
  BY InitTableInv, TableStep, PTL DEF Spec

-----------------------------------------------------------------------------
(* Counts and frequencies stay in the range of SQLite, whatever codebases  *)
(* register, update and remove.                                            *)
THEOREM TypeCorrect == Spec => []TypeOK
<1>1. TableInv => TypeOK
  BY DEF TableInv
<1>2. QED
  BY <1>1, TableInvariant, PTL

(* No two tokens share an index.                                           *)
THEOREM UniqueIndices == Spec => []IndicesAreUnique
<1>1. TableInv => IndicesAreUnique
  BY DEF TableInv
<1>2. QED
  BY <1>1, TableInvariant, PTL

(* A token keeps the index it got: a stored sparse vector never changes    *)
(* its meaning.                                                            *)
THEOREM StableIndices == Spec => IndicesAreStable
<1>1. TableInv /\ [Next]_vars => [\A t \in Known : idx'[t] = idx[t]]_vars
  BY TableStep DEF Appended
<1>2. QED
  BY <1>1, TableInvariant, PTL DEF Spec, IndicesAreStable

(* A contribution always has its codebase's document count and its token's *)
(* index beside it.                                                        *)
THEOREM BackedContributions == Spec => []ContributionsAreBacked
<1>1. TableInv => ContributionsAreBacked
  BY DEF TableInv
<1>2. QED
  BY <1>1, TableInvariant, PTL

(* Together: the tables are in order, whatever codebases do.               *)
THEOREM TableSafety == Spec => TablesAreInOrder
  BY TypeCorrect, UniqueIndices, StableIndices, BackedContributions, PTL DEF TablesAreInOrder

-----------------------------------------------------------------------------
\* The sums over all codebases.
CountInv == TableInv /\ TotalIsInteger /\ SharesAreCovered

Shares(t) == [c \in Codebase |-> contrib[c][t]]
Counts == [c \in Codebase |-> Count(c)]

LEMMA CountType == ASSUME TypeOK PROVE \A c \in Codebase : Count(c) \in Nat
<1>1. Amount \cup {NoCount} \subseteq Int
  BY AmountFacts DEF NoCount
<1>2. \A c \in Codebase : docCount[c] \in Int
  BY <1>1 DEF TypeOK
<1>3. QED
  BY <1>2, AtLeast0Facts DEF Count

LEMMA SharesFacts ==
  ASSUME TypeOK, NEW t \in Token
  PROVE  /\ Contributed(t) \in Nat
         /\ \A c \in Codebase : contrib[c][t] \in Nat /\ contrib[c][t] <= Contributed(t)
<1>1. Shares(t) \in [Codebase -> Nat]
  BY DEF TypeOK, Shares
<1>2. /\ SumFunction(Shares(t)) \in Nat
      /\ \A c \in Codebase : Shares(t)[c] <= SumFunction(Shares(t))
  BY <1>1, SumOfNats, TablesAssumption
<1>3. QED
  BY <1>1, <1>2 DEF Contributed, Shares

\* A transaction of one codebase changes a sum as it changes the codebase's share.
LEMMA SharesChange ==
  ASSUME TypeOK, TypeOK', NEW c \in Codebase, \A d \in Codebase \ {c} : contrib'[d] = contrib[d],
         NEW t \in Token
  PROVE  Contributed(t)' = Contributed(t) - contrib[c][t] + contrib'[c][t]
<1> DEFINE g == [d \in Codebase |-> contrib'[d][t]]
<1>1. Shares(t) \in [Codebase -> Int] /\ g \in [Codebase -> Int]
  BY DEF TypeOK, Shares
<1>2. \A d \in Codebase \ {c} : g[d] = Shares(t)[d]
  BY DEF Shares
<1>3. SumFunction(g) = SumFunction(Shares(t)) - Shares(t)[c] + g[c]
  <2> HIDE DEF g
  <2>1. QED
    BY <1>1, <1>2, SumOfPart, TablesAssumption
<1>4. QED
  BY <1>3 DEF Contributed, Shares

\* What TotalFits allows is the total afterwards.
LEMMA TotalStays ==
  ASSUME TypeOK, NEW c \in Codebase, NEW n \in Amount, TotalFits(c, n),
         docCount' = [docCount EXCEPT ![c] = n]
  PROVE  TotalIsInteger'
<1>1. \A d \in Codebase : Count(d)' = IF d = c THEN n ELSE Count(d)
  BY AmountFacts DEF TypeOK, Count, AtLeast0
<1>2. [d \in Codebase |-> Count(d)'] = [d \in Codebase |-> IF d = c THEN n ELSE Count(d)]
  BY <1>1
<1>3. QED
  BY <1>2 DEF TotalFits, TotalIsInteger

LEMMA InitCountInv == Init => CountInv
<1> SUFFICES ASSUME Init PROVE CountInv
  OBVIOUS
<1>1. TableInv /\ TypeOK
  BY InitTableInv DEF TableInv
<1>2. TotalIsInteger
  <2>1. Counts \in [Codebase -> Nat] /\ \A c \in Codebase : Counts[c] = 0
    BY DEF Init, Counts, Count, AtLeast0, NoCount
  <2>2. SumFunction(Counts) = 0
    BY <2>1, SumOfNats, TablesAssumption
  <2>3. QED
    BY <2>2, TablesAssumption DEF TotalIsInteger, Counts
<1>3. ASSUME NEW t \in Token PROVE Residue(t) >= 0
  <2>1. Shares(t) \in [Codebase -> Nat] /\ \A c \in Codebase : Shares(t)[c] = 0
    BY DEF Init, Shares
  <2>2. SumFunction(Shares(t)) = 0
    BY <2>1, SumOfNats, TablesAssumption
  <2>3. docFreq[t] \in Nat
    BY <1>1, AmountFacts DEF TypeOK
  <2>4. QED
    BY <2>2, <2>3 DEF Residue, Contributed, Shares
<1>4. QED
  BY <1>1, <1>2, <1>3 DEF CountInv, SharesAreCovered

\* What a transaction does to the sums.
Accounted == TotalIsInteger' /\ \A t \in Token : Residue(t)' >= 0 /\ Residue(t)' <= Residue(t)

LEMMA RegisterAccounts ==
  ASSUME CountInv, TableInv', NEW c \in Codebase, NEW f \in [Token -> Amount], NEW n \in Amount,
         Register(c, f, n)
  PROVE  Accounted
<1>1. TypeOK /\ TypeOK'
  BY DEF CountInv, TableInv
<1>2. TotalIsInteger'
  BY <1>1, TotalStays DEF Register
<1>3. \A d \in Codebase \ {c} : contrib'[d] = contrib[d]
  BY <1>1 DEF Register, TypeOK
<1>4. ASSUME NEW t \in Token PROVE Residue(t)' >= 0 /\ Residue(t)' <= Residue(t)
  <2>1. Contributed(t)' = Contributed(t) - contrib[c][t] + contrib'[c][t]
    BY <1>1, <1>3, SharesChange
  <2>2. contrib'[c][t] = f[t] /\ f[t] \in Nat
    BY <1>1, AmountFacts DEF Register, TypeOK
  <2>3. docFreq[t] \in Nat /\ docFreq'[t] = AtLeast0(docFreq[t] - contrib[c][t]) + f[t]
    BY <1>1, AmountFacts DEF Register, Without, TypeOK
  <2>4. Contributed(t) \in Nat /\ contrib[c][t] \in Nat /\ contrib[c][t] <= Contributed(t)
    BY <1>1, SharesFacts
  <2>5. docFreq[t] >= Contributed(t)
    BY <2>3, <2>4 DEF CountInv, SharesAreCovered, Residue
  <2>6. docFreq'[t] = docFreq[t] - contrib[c][t] + f[t]
    BY <2>3, <2>4, <2>5 DEF AtLeast0
  <2>7. QED
    BY <2>1, <2>2, <2>3, <2>4, <2>5, <2>6 DEF Residue
<1>5. QED
  BY <1>2, <1>4 DEF Accounted

LEMMA UnregisterAccounts ==
  ASSUME CountInv, TableInv', NEW c \in Codebase, Unregister(c)
  PROVE  Accounted
<1>1. TypeOK /\ TypeOK'
  BY DEF CountInv, TableInv
<1>2. TotalIsInteger'
  <2> DEFINE g == [d \in Codebase |-> IF d = c THEN 0 ELSE Count(d)]
  <2>1. \A d \in Codebase : Count(d)' = g[d]
    BY <1>1 DEF Unregister, TypeOK, Count, AtLeast0, NoCount
  <2>2. Counts \in [Codebase -> Nat] /\ g \in [Codebase -> Int] /\ Counts \in [Codebase -> Int]
    BY <1>1, CountType DEF Counts
  <2>3. (\A d \in Codebase \ {c} : g[d] = Counts[d]) /\ g[c] = 0 /\ Counts[c] \in Nat
    BY <2>2 DEF Counts
  <2>4. [d \in Codebase |-> Count(d)'] = g
    BY <2>1
  <2> HIDE DEF g
  <2>5. SumFunction(Counts) \in Int /\ SumFunction(g) = SumFunction(Counts) - Counts[c] + g[c]
    BY <2>2, <2>3, SumOfPart, TablesAssumption
  <2>6. SumFunction(Counts) <= MaxInteger
    BY DEF CountInv, TotalIsInteger, Counts
  <2>7. SumFunction(g) <= MaxInteger
    BY <2>3, <2>5, <2>6, TablesAssumption
  <2>8. QED
    BY <2>4, <2>7 DEF TotalIsInteger
<1>3. \A d \in Codebase \ {c} : contrib'[d] = contrib[d]
  BY <1>1 DEF Unregister, TypeOK
<1>4. ASSUME NEW t \in Token PROVE Residue(t)' >= 0 /\ Residue(t)' <= Residue(t)
  <2>1. Contributed(t)' = Contributed(t) - contrib[c][t] + contrib'[c][t]
    BY <1>1, <1>3, SharesChange
  <2>2. contrib'[c][t] = 0
    BY <1>1 DEF Unregister, TypeOK
  <2>3. docFreq[t] \in Nat /\ docFreq'[t] = AtLeast0(docFreq[t] - contrib[c][t])
    BY <1>1, AmountFacts DEF Unregister, Without, TypeOK
  <2>4. Contributed(t) \in Nat /\ contrib[c][t] \in Nat /\ contrib[c][t] <= Contributed(t)
    BY <1>1, SharesFacts
  <2>5. docFreq[t] >= Contributed(t)
    BY <2>3, <2>4 DEF CountInv, SharesAreCovered, Residue
  <2>6. docFreq'[t] = docFreq[t] - contrib[c][t]
    BY <2>3, <2>4, <2>5 DEF AtLeast0
  <2>7. QED
    BY <2>1, <2>2, <2>3, <2>4, <2>5, <2>6 DEF Residue
<1>5. QED
  BY <1>2, <1>4 DEF Accounted

LEMMA UpdateAccounts ==
  ASSUME CountInv, TableInv', NEW c \in Codebase, NEW added \in [Token -> 0 .. MaxUpdate],
         NEW removed \in [Token -> 0 .. MaxUpdate], NEW net \in -MaxInteger .. MaxInteger,
         Update(c, added, removed, net)
  PROVE  Accounted
<1>1. TypeOK /\ TypeOK'
  BY DEF CountInv, TableInv
<1>2. TotalIsInteger'
  <2>1. Count(c) \in Nat /\ net \in Int
    BY <1>1, CountType, TablesAssumption
  <2>2. AtLeast0(Count(c) + net) \in Amount
    BY <2>1, AtLeast0Facts, TablesAssumption DEF Update, Amount
  <2>3. QED
    BY <1>1, <2>2, TotalStays DEF Update
<1>3. \A d \in Codebase \ {c} : contrib'[d] = contrib[d]
  BY <1>1 DEF Update, TypeOK
<1>4. ASSUME NEW t \in Token PROVE Residue(t)' >= 0 /\ Residue(t)' <= Residue(t)
  <2> DEFINE delta == Delta(c, added, removed, t)
  <2>1. Contributed(t)' = Contributed(t) - contrib[c][t] + contrib'[c][t]
    BY <1>1, <1>3, SharesChange
  <2>2. delta \in Int /\ contrib[c][t] + delta \in Nat
    <3>1. added \in [Token -> Nat] /\ removed \in [Token -> Nat]
      BY TablesAssumption
    <3>2. QED
      BY <1>1, <3>1, DeltaFacts
  <2>3. contrib'[c][t] = AtLeast0(contrib[c][t] + delta)
    BY <1>1 DEF Update, TypeOK
  <2>4. docFreq[t] \in Nat /\ docFreq'[t] = AtLeast0(docFreq[t] + delta)
    BY <1>1, AmountFacts DEF Update, TypeOK
  <2>5. Contributed(t) \in Nat /\ contrib[c][t] \in Nat /\ contrib[c][t] <= Contributed(t)
    BY <1>1, SharesFacts
  <2>6. docFreq[t] >= Contributed(t)
    BY <2>4, <2>5 DEF CountInv, SharesAreCovered, Residue
  <2> HIDE DEF delta
  <2>7. docFreq'[t] = docFreq[t] + delta /\ contrib'[c][t] = contrib[c][t] + delta
    BY <2>2, <2>3, <2>4, <2>5, <2>6 DEF AtLeast0
  <2>8. QED
    BY <2>1, <2>2, <2>4, <2>5, <2>6, <2>7 DEF Residue
<1>5. QED
  BY <1>2, <1>4 DEF Accounted

LEMMA RebuildAccounts == ASSUME CountInv, Rebuild PROVE Accounted
<1>1. TypeOK
  BY DEF CountInv, TableInv
<1>2. TotalIsInteger' /\ \A t \in Token : Contributed(t)' = Contributed(t)
  BY DEF CountInv, Rebuild, TotalIsInteger, Count, Contributed
<1>3. ASSUME NEW t \in Token PROVE Residue(t)' >= 0 /\ Residue(t)' <= Residue(t)
  <2>1. docFreq[t] \in Nat /\ Contributed(t) \in Nat
    BY <1>1, AmountFacts, SharesFacts DEF TypeOK
  <2>2. docFreq'[t] \in {docFreq[t], Contributed(t)}
    BY <1>1 DEF Rebuild, TypeOK
  <2>3. docFreq[t] >= Contributed(t)
    BY <2>1 DEF CountInv, SharesAreCovered, Residue
  <2>4. QED
    BY <1>2, <2>1, <2>2, <2>3 DEF Residue
<1>4. QED
  BY <1>2, <1>3 DEF Accounted

LEMMA CountStep == CountInv /\ [Next]_vars => CountInv' /\ \A t \in Token : Residue(t)' <= Residue(t)
<1> SUFFICES ASSUME CountInv, [Next]_vars
             PROVE  CountInv' /\ \A t \in Token : Residue(t)' <= Residue(t)
  OBVIOUS
<1>1. TableInv'
  BY TableStep DEF CountInv
<1>2. Accounted
  <2>1. CASE UNCHANGED vars
    <3>1. TotalIsInteger' /\ \A t \in Token : Residue(t)' = Residue(t)
      BY <2>1 DEF vars, CountInv, TotalIsInteger, Count, Residue, Contributed
    <3>2. \A t \in Token : docFreq[t] \in Nat /\ Contributed(t) \in Nat
      BY AmountFacts, SharesFacts DEF CountInv, TableInv, TypeOK
    <3>3. QED
      BY <3>1, <3>2 DEF Accounted, CountInv, SharesAreCovered, Residue
  <2>2. ASSUME NEW c \in Codebase, NEW f \in [Token -> Amount], NEW n \in Amount,
               Register(c, f, n)
        PROVE  Accounted
    BY <1>1, <2>2, RegisterAccounts
  <2>3. ASSUME NEW c \in Codebase, Unregister(c) PROVE Accounted
    BY <1>1, <2>3, UnregisterAccounts
  <2>4. ASSUME NEW c \in Codebase, NEW added \in [Token -> 0 .. MaxUpdate],
               NEW removed \in [Token -> 0 .. MaxUpdate],
               NEW net \in -MaxInteger .. MaxInteger, Update(c, added, removed, net)
        PROVE  Accounted
    BY <1>1, <2>4, UpdateAccounts
  <2>5. CASE Rebuild
    BY <2>5, RebuildAccounts
  <2>6. QED
    BY <2>1, <2>2, <2>3, <2>4, <2>5 DEF Next
<1>3. QED
  BY <1>1, <1>2 DEF Accounted, CountInv, SharesAreCovered

(* The total of documents stays an INTEGER, the aggregate covers what the  *)
(* codebases contributed, and no transaction adds a frequency that nobody  *)
(* contributes, for any finite sets of codebases and tokens.               *)
THEOREM CountSafety == Spec => CountsAreSound
<1>1. CountInv => TotalIsInteger /\ SharesAreCovered
  BY DEF CountInv
<1>2. CountInv /\ [Next]_vars => [\A t \in Token : Residue(t)' <= Residue(t)]_vars
  BY CountStep
<1>3. QED
  BY <1>1, <1>2, InitCountInv, CountStep, PTL DEF Spec, CountsAreSound, NoNewResidue


-----------------------------------------------------------------------------
(* The facts: FactIndex, for every finite set of facts and tokens, all of  *)
(* their texts, and any number of failures. First, what a contribution     *)
(* counts.                                                                 *)
Old(p, f) == IF p[f] = Absent THEN {} ELSE p[f]

LEMMA SameSets ==
  \A S : (Facts!IsFiniteSet(S) <=> IsFiniteSet(S)) /\ Facts!Cardinality(S) = Cardinality(S)
BY DEF Facts!IsFiniteSet, IsFiniteSet, Facts!Cardinality, Cardinality

LEMMA TextFacts ==
  ASSUME Facts!FactIndexAssumption
  PROVE  /\ Absent \notin FactText /\ \A text \in FactText : text \subseteq Token
         /\ Facts!NoFacts \in Facts!Corpus
BY DEF Facts!FactIndexAssumption, Facts!NoFacts, Facts!Corpus

LEMMA CountsAreNatural ==
  ASSUME Facts!FactIndexAssumption, NEW p
  PROVE  /\ IsFiniteSet(Facts!Present(p)) /\ Cardinality(Facts!Present(p)) \in Nat
         /\ \A t \in Token : IsFiniteSet(Facts!Holders(p, t)) /\ Cardinality(Facts!Holders(p, t)) \in Nat
<1>1. IsFiniteSet(Fact) /\ Facts!Present(p) \in SUBSET Fact /\ \A t \in Token : Facts!Holders(p, t) \in SUBSET Fact
  BY SameSets DEF Facts!FactIndexAssumption, Facts!Present, Facts!Holders
<1>2. \A S \in SUBSET Fact : IsFiniteSet(S) /\ Cardinality(S) \in Nat
  BY <1>1, FS_Subset, FS_CardinalityType
<1>3. QED
  BY <1>1, <1>2

\* A set gains or loses one element, which decides its cardinality.
LEMMA OneMoreOrLess ==
  ASSUME NEW S, NEW T, NEW f, IsFiniteSet(S), S \ {f} = T \ {f}
  PROVE  /\ IsFiniteSet(T)
         /\ Cardinality(T) = Cardinality(S) + (IF f \in T THEN 1 ELSE 0) - (IF f \in S THEN 1 ELSE 0)
<1> DEFINE R == S \ {f}
<1>1. IsFiniteSet(R) /\ f \notin R
  BY FS_RemoveElement
<1>2. /\ S = R \cup {f} \/ (S = R /\ f \notin S)
      /\ T = R \cup {f} \/ (T = R /\ f \notin T)
  OBVIOUS
<1> HIDE DEF R
<1>3. IsFiniteSet(R \cup {f}) /\ Cardinality(R \cup {f}) = Cardinality(R) + 1
  BY <1>1, FS_AddElement
<1>4. Cardinality(R) \in Nat
  BY <1>1, FS_CardinalityType
<1>5. ASSUME NEW U, U = R \cup {f} \/ (U = R /\ f \notin U)
      PROVE  IsFiniteSet(U) /\ Cardinality(U) = Cardinality(R) + (IF f \in U THEN 1 ELSE 0)
  <2>1. CASE U = R \cup {f}
    <3>1. f \in U
      BY <2>1
    <3>2. QED
      BY <1>3, <2>1, <3>1
  <2>2. CASE U = R /\ f \notin U
    BY <1>1, <1>4, <2>2
  <2>3. QED
    BY <1>5, <2>1, <2>2
<1>6. /\ Cardinality(S) = Cardinality(R) + (IF f \in S THEN 1 ELSE 0)
      /\ IsFiniteSet(T) /\ Cardinality(T) = Cardinality(R) + (IF f \in T THEN 1 ELSE 0)
  BY <1>2, <1>5
<1>7. QED
  BY <1>4, <1>6

\* One fact gets another text: the delta of index_fact and of its inverse.
LEMMA OneText ==
  ASSUME Facts!FactIndexAssumption, NEW p \in Facts!Corpus, NEW f \in Fact, NEW text \in FactText
  PROVE  LET q == [p EXCEPT ![f] = text]
         IN  /\ q \in Facts!Corpus
             /\ Cardinality(Facts!Present(q)) = Cardinality(Facts!Present(p)) + (IF p[f] = Absent THEN 1 ELSE 0)
             /\ \A t \in Token : Cardinality(Facts!Holders(q, t)) =
                  Cardinality(Facts!Holders(p, t)) + Facts!Single(text)[t] - Facts!Single(Old(p, f))[t]
<1> DEFINE q == [p EXCEPT ![f] = text]
<1>1. /\ q \in Facts!Corpus /\ q[f] = text /\ text # Absent
      /\ \A g \in Fact \ {f} : q[g] = p[g]
  BY TextFacts DEF Facts!Corpus
<1> HIDE DEF q
<1>2. Cardinality(Facts!Present(q)) = Cardinality(Facts!Present(p)) + (IF p[f] = Absent THEN 1 ELSE 0)
  <2>1. Facts!Present(p) \ {f} = Facts!Present(q) \ {f}
    BY <1>1 DEF Facts!Present
  <2>2. f \in Facts!Present(q) /\ (f \in Facts!Present(p) <=> p[f] # Absent)
    BY <1>1 DEF Facts!Present
  <2>3. Cardinality(Facts!Present(q)) = Cardinality(Facts!Present(p)) + (IF f \in Facts!Present(q) THEN 1 ELSE 0)
                                  - (IF f \in Facts!Present(p) THEN 1 ELSE 0)
    BY <2>1, CountsAreNatural, OneMoreOrLess
  <2>4. Cardinality(Facts!Present(p)) \in Nat
    BY CountsAreNatural
  <2>5. QED
    BY <2>2, <2>3, <2>4
<1>3. ASSUME NEW t \in Token
      PROVE  Cardinality(Facts!Holders(q, t)) =
               Cardinality(Facts!Holders(p, t)) + Facts!Single(text)[t] - Facts!Single(Old(p, f))[t]
  <2>1. Facts!Holders(p, t) \ {f} = Facts!Holders(q, t) \ {f}
    BY <1>1 DEF Facts!Present, Facts!Holders
  <2>2. (f \in Facts!Holders(q, t) <=> t \in text) /\ (f \in Facts!Holders(p, t) <=> t \in Old(p, f))
    BY <1>1 DEF Facts!Present, Facts!Holders, Old
  <2>3. Cardinality(Facts!Holders(q, t)) = Cardinality(Facts!Holders(p, t)) + (IF f \in Facts!Holders(q, t) THEN 1 ELSE 0)
                                     - (IF f \in Facts!Holders(p, t) THEN 1 ELSE 0)
    BY <2>1, CountsAreNatural, OneMoreOrLess
  <2>4. QED
    BY <2>2, <2>3 DEF Facts!Single
<1>4. QED
  BY <1>1, <1>2, <1>3 DEF q

\* Some facts that are absent get texts: the delta of _retire_unwritten.
LEMMA ManyTexts ==
  ASSUME Facts!FactIndexAssumption, NEW p \in Facts!Corpus, NEW q \in Facts!Corpus, NEW U \in SUBSET Fact,
         \A f \in Fact : IF f \in U THEN p[f] = Absent /\ q[f] # Absent ELSE p[f] = q[f]
  PROVE  /\ Cardinality(U) \in Nat /\ Cardinality(Facts!Present(q)) = Cardinality(Facts!Present(p)) + Cardinality(U)
         /\ \A t \in Token :
              /\ Cardinality({f \in U : t \in q[f]}) \in Nat
              /\ Cardinality(Facts!Holders(q, t)) =
                   Cardinality(Facts!Holders(p, t)) + Cardinality({f \in U : t \in q[f]})
<1>1. \A S \in SUBSET Fact : IsFiniteSet(S) /\ Cardinality(S) \in Nat
  BY FS_Subset, FS_CardinalityType, SameSets DEF Facts!FactIndexAssumption
<1>2. \A S, T \in SUBSET Fact : S \cap T = {} => Cardinality(S \cup T) = Cardinality(S) + Cardinality(T)
  <2> SUFFICES ASSUME NEW S \in SUBSET Fact, NEW T \in SUBSET Fact, S \cap T = {}
               PROVE  Cardinality(S \cup T) = Cardinality(S) + Cardinality(T)
    OBVIOUS
  <2>1. Cardinality(S \cup T) = Cardinality(S) + Cardinality(T) - Cardinality({})
    BY <1>1, FS_Union
  <2>2. QED
    BY <1>1, <2>1, FS_EmptySet
<1>3. Facts!Present(q) = Facts!Present(p) \cup U /\ Facts!Present(p) \cap U = {} /\ Facts!Present(p) \in SUBSET Fact
  BY DEF Facts!Present
<1>4. ASSUME NEW t \in Token
      PROVE  Cardinality(Facts!Holders(q, t)) =
               Cardinality(Facts!Holders(p, t)) + Cardinality({f \in U : t \in q[f]})
  <2> DEFINE W == {f \in U : t \in q[f]}
  <2>1. /\ Facts!Holders(q, t) = Facts!Holders(p, t) \cup W /\ Facts!Holders(p, t) \cap W = {}
        /\ Facts!Holders(p, t) \in SUBSET Fact /\ W \in SUBSET Fact
    BY DEF Facts!Holders, Facts!Present
  <2> HIDE DEF W
  <2>2. QED
    BY <1>2, <2>1 DEF W
<1>5. \A t \in Token : {f \in U : t \in q[f]} \in SUBSET Fact
  OBVIOUS
<1>6. QED
  BY <1>1, <1>2, <1>3, <1>4, <1>5

\* The contribution will be that of the texts p.
WillDescribe(p) ==
  /\ docs' = Cardinality(Facts!Present(p))
  /\ \A t \in Token : freq'[t] = Cardinality(Facts!Holders(p, t))

\* Clamping changes nothing where the contribution is that of texts.
LEMMA UpdateText ==
  ASSUME Facts!FactIndexAssumption, NEW p \in Facts!Corpus, NEW f \in Fact, NEW text \in FactText, Facts!Describes(p),
         Facts!UpdateBy(Facts!Single(text), Facts!Single(Old(p, f)), IF p[f] = Absent THEN 1 ELSE 0)
  PROVE  WillDescribe([p EXCEPT ![f] = text])
<1> DEFINE q == [p EXCEPT ![f] = text]
<1>1. /\ docs = Cardinality(Facts!Present(p)) /\ \A t \in Token : freq[t] = Cardinality(Facts!Holders(p, t))
      /\ Cardinality(Facts!Present(q)) = Cardinality(Facts!Present(p)) + (IF p[f] = Absent THEN 1 ELSE 0)
      /\ \A t \in Token : Cardinality(Facts!Holders(q, t)) =
           Cardinality(Facts!Holders(p, t)) + Facts!Single(text)[t] - Facts!Single(Old(p, f))[t]
  BY OneText, SameSets DEF Facts!Describes
<1>2. Cardinality(Facts!Present(q)) \in Nat /\ \A t \in Token : Cardinality(Facts!Holders(q, t)) \in Nat
  BY CountsAreNatural
<1> HIDE DEF q
<1>3. docs' = Cardinality(Facts!Present(q))
  BY <1>1, <1>2 DEF Facts!UpdateBy, Facts!AtLeast0
<1>4. \A t \in Token : freq'[t] = Cardinality(Facts!Holders(q, t))
  BY <1>1, <1>2 DEF Facts!UpdateBy, Facts!AtLeast0
<1>5. QED
  BY <1>3, <1>4 DEF WillDescribe, q

\* The inverse of the same update.
LEMMA RevertText ==
  ASSUME Facts!FactIndexAssumption, NEW p \in Facts!Corpus, NEW f \in Fact, NEW text \in FactText,
         Facts!Describes([p EXCEPT ![f] = text]),
         Facts!UpdateBy(Facts!Single(Old(p, f)), Facts!Single(text), -(IF p[f] = Absent THEN 1 ELSE 0))
  PROVE  WillDescribe(p)
<1> DEFINE q == [p EXCEPT ![f] = text]
<1>1. /\ docs = Cardinality(Facts!Present(q)) /\ \A t \in Token : freq[t] = Cardinality(Facts!Holders(q, t))
  BY SameSets DEF Facts!Describes
<1>2. /\ Cardinality(Facts!Present(q)) = Cardinality(Facts!Present(p)) + (IF p[f] = Absent THEN 1 ELSE 0)
      /\ \A t \in Token : Cardinality(Facts!Holders(q, t)) =
           Cardinality(Facts!Holders(p, t)) + Facts!Single(text)[t] - Facts!Single(Old(p, f))[t]
  BY OneText
<1>3. Cardinality(Facts!Present(p)) \in Nat /\ \A t \in Token : Cardinality(Facts!Holders(p, t)) \in Nat
  BY CountsAreNatural
<1>4. \A t \in Token : Facts!Single(text)[t] \in Nat /\ Facts!Single(Old(p, f))[t] \in Nat
  BY DEF Facts!Single
<1> HIDE DEF q
<1>5. docs' = Cardinality(Facts!Present(p))
  BY <1>1, <1>2, <1>3 DEF Facts!UpdateBy, Facts!AtLeast0
<1>6. ASSUME NEW t \in Token PROVE freq'[t] = Cardinality(Facts!Holders(p, t))
  <2>1. freq'[t] = Facts!AtLeast0(freq[t] + Facts!Single(Old(p, f))[t] - Facts!Single(text)[t])
    BY DEF Facts!UpdateBy
  <2>2. freq[t] + Facts!Single(Old(p, f))[t] - Facts!Single(text)[t] = Cardinality(Facts!Holders(p, t))
    BY <1>1, <1>2, <1>3, <1>4
  <2>3. QED
    BY <1>3, <2>1, <2>2 DEF Facts!AtLeast0
<1>7. QED
  BY <1>5, <1>6 DEF WillDescribe

\* What was registered for facts that stayed absent is retired.
LEMMA RetireTexts ==
  ASSUME Facts!FactIndexAssumption, NEW p \in Facts!Corpus, NEW q \in Facts!Corpus, NEW U \in SUBSET Fact,
         \A f \in Fact : IF f \in U THEN p[f] = Absent /\ q[f] # Absent ELSE p[f] = q[f],
         Facts!Describes(q),
         Facts!UpdateBy(Facts!NoTokens, [t \in Token |-> Cardinality({f \in U : t \in q[f]})], -Cardinality(U))
  PROVE  WillDescribe(p)
<1>1. docs = Cardinality(Facts!Present(q)) /\ \A t \in Token : freq[t] = Cardinality(Facts!Holders(q, t))
  BY SameSets DEF Facts!Describes
<1>2. /\ Cardinality(U) \in Nat /\ Cardinality(Facts!Present(q)) = Cardinality(Facts!Present(p)) + Cardinality(U)
      /\ \A t \in Token :
           /\ Cardinality({f \in U : t \in q[f]}) \in Nat
           /\ Cardinality(Facts!Holders(q, t)) =
                Cardinality(Facts!Holders(p, t)) + Cardinality({f \in U : t \in q[f]})
  BY ManyTexts
<1>3. Cardinality(Facts!Present(p)) \in Nat /\ \A t \in Token : Cardinality(Facts!Holders(p, t)) \in Nat
  BY CountsAreNatural
<1>4. docs' = Cardinality(Facts!Present(p))
  BY <1>1, <1>2, <1>3 DEF Facts!UpdateBy, Facts!AtLeast0
<1>5. ASSUME NEW t \in Token PROVE freq'[t] = Cardinality(Facts!Holders(p, t))
  <2>1. freq'[t] = Facts!AtLeast0(freq[t] + 0 - Cardinality({f \in U : t \in q[f]}))
    BY DEF Facts!UpdateBy, Facts!NoTokens, Facts!Single
  <2>2. freq[t] + 0 - Cardinality({f \in U : t \in q[f]}) = Cardinality(Facts!Holders(p, t))
    BY <1>1, <1>2, <1>3
  <2>3. QED
    BY <1>3, <2>1, <2>2 DEF Facts!AtLeast0
<1>6. QED
  BY <1>4, <1>5 DEF WillDescribe

-----------------------------------------------------------------------------
(* Type correctness.                                                       *)

\* Both ways to change the contribution leave it well formed.
LEMMA RegisterTypes ==
  ASSUME Facts!FactIndexAssumption, known \in SUBSET Token, NEW p \in Facts!Corpus, Facts!RegisterAs(p)
  PROVE  /\ known \subseteq known' /\ known' \in SUBSET Token
         /\ freq' \in [Token -> Nat] /\ docs' \in Nat /\ WillDescribe(p)
         /\ \A f \in Fact : p[f] # Absent => p[f] \subseteq known'
<1>1. \A f \in Fact : p[f] # Absent => p[f] \in SUBSET Token
  BY TextFacts DEF Facts!Corpus
<1>2. known' = known \cup UNION {p[f] : f \in Facts!Present(p)}
  BY DEF Facts!RegisterAs
<1>3. \A f \in Facts!Present(p) : p[f] \subseteq Token /\ p[f] \subseteq known'
  BY <1>1, <1>2 DEF Facts!Present
<1>4. known \subseteq known' /\ known' \in SUBSET Token
  BY <1>2, <1>3
<1>5. freq' \in [Token -> Nat] /\ docs' \in Nat /\ WillDescribe(p)
  BY CountsAreNatural, SameSets DEF Facts!RegisterAs, WillDescribe
<1>6. QED
  BY <1>3, <1>4, <1>5 DEF Facts!Present

LEMMA UpdateTypes ==
  ASSUME known \in SUBSET Token, freq \in [Token -> Nat], docs \in Nat,
         NEW added \in [Token -> Int], NEW removed \in [Token -> Int], NEW net \in Int,
         Facts!UpdateBy(added, removed, net)
  PROVE  /\ known \subseteq known' /\ known' \in SUBSET Token
         /\ freq' \in [Token -> Nat] /\ docs' \in Nat
         /\ \A t \in Token : added[t] > 0 => t \in known'
<1>1. \A i \in Int : Facts!AtLeast0(i) \in Nat
  BY DEF Facts!AtLeast0
<1>2. \A t \in Token : freq[t] + added[t] - removed[t] \in Int
  OBVIOUS
<1>3. docs + net \in Int
  OBVIOUS
<1>4. QED
  BY <1>1, <1>2, <1>3 DEF Facts!UpdateBy

LEMMA PutTypes ==
  ASSUME Facts!FactIndexAssumption, Facts!TypeOK, NEW f \in Fact, NEW text \in FactText, Facts!Put(f, text)
  PROVE  /\ point' \in [Fact -> FactText \cup {Absent}] /\ vec' \in [Fact -> SUBSET known]
         /\ point'[f] = text /\ vec'[f] = text \cap known
         /\ \A g \in Fact \ {f} : point'[g] = point[g] /\ vec'[g] = vec[g]
BY DEF Facts!TypeOK, Facts!Put

LEMMA RemoveTypes ==
  ASSUME Facts!TypeOK, NEW fs \in SUBSET Fact, Facts!Remove(fs)
  PROVE  /\ point' \in [Fact -> FactText \cup {Absent}] /\ vec' \in [Fact -> SUBSET known]
         /\ \A g \in Fact : IF g \in fs THEN point'[g] = Absent
                            ELSE point'[g] = point[g] /\ vec'[g] = vec[g]
BY DEF Facts!TypeOK, Facts!Remove

LEMMA NoCallType == Facts!FactIndexAssumption => Facts!NoCall \in Facts!Call
BY TextFacts DEF Facts!NoCall, Facts!Call

\* The rest of a well-formed state is where it was, or of the type that it must have.
LEMMA TypeParts ==
  ASSUME Facts!TypeOK,
         \/ UNCHANGED Facts!contribution
         \/ known \subseteq known' /\ known' \in SUBSET Token /\ freq' \in [Token -> Nat] /\ docs' \in Nat,
         \/ UNCHANGED Facts!points
         \/ point' \in [Fact -> FactText \cup {Absent}] /\ vec' \in [Fact -> SUBSET known],
         pc' \in Facts!Place, call' \in Facts!Call, lost' \in BOOLEAN, unread' \in BOOLEAN,
         faults' = faults \/ Facts!Fault
  PROVE  Facts!TypeOK'
<1>1. known \subseteq known' /\ known' \subseteq Token /\ freq' \in [Token -> Nat] /\ docs' \in Nat
  BY DEF Facts!TypeOK, Facts!contribution
<1>2. point' \in [Fact -> FactText \cup {Absent}] /\ vec' \in [Fact -> SUBSET known]
  BY DEF Facts!TypeOK, Facts!points
<1>3. vec' \in [Fact -> SUBSET known']
  BY <1>1, <1>2
<1>4. faults' \in Nat
  BY DEF Facts!TypeOK, Facts!Fault
<1>5. QED
  BY <1>1, <1>2, <1>3, <1>4 DEF Facts!TypeOK

\* A clamped update of the counts by texts.
LEMMA UpdateByTexts ==
  ASSUME Facts!TypeOK, NEW X, NEW Y, NEW net \in Int, Facts!UpdateBy(Facts!Single(X), Facts!Single(Y), net)
  PROVE  /\ known \subseteq known' /\ known' \in SUBSET Token
         /\ freq' \in [Token -> Nat] /\ docs' \in Nat
         /\ \A t \in Token : t \in X => t \in known'
<1>1. Facts!Single(X) \in [Token -> Int] /\ Facts!Single(Y) \in [Token -> Int]
  BY DEF Facts!Single
<1>2. \A t \in Token : t \in X => Facts!Single(X)[t] > 0
  BY DEF Facts!Single
<1>3. QED
  BY <1>1, <1>2, UpdateTypes DEF Facts!TypeOK

LEMMA StepTypeOK ==
  ASSUME Facts!FactIndexAssumption, Facts!IInv, [Facts!Next]_Facts!vars
  PROVE  Facts!TypeOK'
<1> USE DEF Facts!Place
<1>0. Facts!TypeOK /\ Facts!CallInv /\ Facts!NoCall \in Facts!Call
  BY NoCallType DEF Facts!IInv
<1>1. ASSUME NEW f \in Fact, NEW text \in FactText, Facts!IndexFact(f, text) PROVE Facts!TypeOK'
  <2>1. call' \in Facts!Call
    BY <1>0, <1>1, TextFacts DEF Facts!IndexFact, Facts!TypeOK, Facts!CallInv, Facts!Call,
                                 Facts!Return
  <2>2. QED
    BY <1>0, <1>1, <2>1, TypeParts DEF Facts!IndexFact, Facts!TypeOK, Facts!Return,
                                       Facts!contribution, Facts!points, Facts!history
<1>2. ASSUME Facts!Rebuild PROVE Facts!TypeOK'
  <2>1. call' \in Facts!Call
    BY <1>0, <1>2, TextFacts DEF Facts!Rebuild, Facts!TypeOK, Facts!CallInv, Facts!Call, Facts!Return
  <2>2. \/ known \subseteq known' /\ known' \in SUBSET Token /\ freq' \in [Token -> Nat] /\ docs' \in Nat
        \/ UNCHANGED Facts!contribution
    BY <1>0, <1>2, RegisterTypes DEF Facts!Rebuild, Facts!TypeOK, Facts!Corpus
  <2>3. QED
    BY <1>0, <1>2, <2>1, <2>2, TypeParts DEF Facts!Rebuild, Facts!TypeOK, Facts!Return,
                                             Facts!contribution, Facts!points, Facts!history
<1>3. ASSUME Facts!ReadPrevious PROVE Facts!TypeOK'
  <2>1. call' \in Facts!Call
    BY <1>0, <1>3, TextFacts DEF Facts!ReadPrevious, Facts!TypeOK, Facts!CallInv, Facts!Call,
                                 Facts!Return
  <2>2. QED
    BY <1>0, <1>3, <2>1, TypeParts DEF Facts!ReadPrevious, Facts!TypeOK, Facts!Return,
                                       Facts!contribution, Facts!points, Facts!history
<1>4. ASSUME Facts!ReadFails PROVE Facts!TypeOK'
  BY <1>0, <1>4, TypeParts DEF Facts!ReadFails, Facts!TypeOK, Facts!Return, Facts!contribution,
                               Facts!points, Facts!history
<1>5. ASSUME Facts!UpdateVocabulary PROVE Facts!TypeOK'
  <2>1. call' \in Facts!Call
    BY <1>0, <1>5, TextFacts DEF Facts!UpdateVocabulary, Facts!TypeOK, Facts!CallInv, Facts!Call,
                                 Facts!Return
  <2>2. \/ known \subseteq known' /\ known' \in SUBSET Token /\ freq' \in [Token -> Nat] /\ docs' \in Nat
        \/ UNCHANGED Facts!contribution
    BY <1>0, <1>5, UpdateByTexts DEF Facts!UpdateVocabulary, Facts!CallInv, Facts!Net, Facts!NoTokens
  <2>3. QED
    BY <1>0, <1>5, <2>1, <2>2, TypeParts DEF Facts!UpdateVocabulary, Facts!TypeOK, Facts!Return,
                                             Facts!contribution, Facts!points, Facts!history
<1>6. ASSUME Facts!StoreFact PROVE Facts!TypeOK'
  <2>1. call' \in Facts!Call
    BY <1>0, <1>6, TextFacts DEF Facts!StoreFact, Facts!TypeOK, Facts!CallInv, Facts!Call,
                                 Facts!Return
  <2>2. \/ point' \in [Fact -> FactText \cup {Absent}] /\ vec' \in [Fact -> SUBSET known]
        \/ UNCHANGED Facts!points
    BY <1>0, <1>6, PutTypes DEF Facts!StoreFact, Facts!CallInv
  <2>3. QED
    BY <1>0, <1>6, <2>1, <2>2, TypeParts DEF Facts!StoreFact, Facts!TypeOK, Facts!Return,
                                             Facts!contribution, Facts!points, Facts!history
<1>7. ASSUME Facts!StoreFails PROVE Facts!TypeOK'
  BY <1>0, <1>7, TypeParts DEF Facts!StoreFails, Facts!TypeOK, Facts!Return, Facts!contribution,
                               Facts!points, Facts!history
<1>8. ASSUME Facts!StoreUnresolved PROVE Facts!TypeOK'
  <2>1. call' \in Facts!Call
    BY <1>0, <1>8, TextFacts DEF Facts!StoreUnresolved, Facts!TypeOK, Facts!CallInv, Facts!Call,
                                 Facts!Return
  <2>2. \/ point' \in [Fact -> FactText \cup {Absent}] /\ vec' \in [Fact -> SUBSET known]
        \/ UNCHANGED Facts!points
    BY <1>0, <1>8, PutTypes, RemoveTypes DEF Facts!StoreUnresolved, Facts!CallInv
  <2>3. QED
    BY <1>0, <1>8, <2>1, <2>2, TypeParts DEF Facts!StoreUnresolved, Facts!TypeOK, Facts!Return,
                                             Facts!contribution, Facts!points, Facts!history
<1>9. ASSUME Facts!Revert PROVE Facts!TypeOK'
  <2>1. call' \in Facts!Call
    BY <1>0, <1>9, TextFacts DEF Facts!Revert, Facts!TypeOK, Facts!CallInv, Facts!Call, Facts!Return
  <2>2. \/ known \subseteq known' /\ known' \in SUBSET Token /\ freq' \in [Token -> Nat] /\ docs' \in Nat
        \/ UNCHANGED Facts!contribution
    BY <1>0, <1>9, UpdateByTexts DEF Facts!Revert, Facts!CallInv, Facts!Net, Facts!NoTokens
  <2>3. QED
    BY <1>0, <1>9, <2>1, <2>2, TypeParts DEF Facts!Revert, Facts!TypeOK, Facts!Return,
                                             Facts!contribution, Facts!points, Facts!history
<1>10. ASSUME NEW f \in Fact, Facts!DeleteFact(f) PROVE Facts!TypeOK'
  <2>1. call' \in Facts!Call
    BY <1>0, <1>10, TextFacts DEF Facts!DeleteFact, Facts!TypeOK, Facts!CallInv, Facts!Call,
                                  Facts!Return
  <2>2. QED
    BY <1>0, <1>10, <2>1, TypeParts DEF Facts!DeleteFact, Facts!TypeOK, Facts!Return,
                                        Facts!contribution, Facts!points, Facts!history
<1>11. ASSUME Facts!Recall PROVE Facts!TypeOK'
  <2>1. call' \in Facts!Call
    BY <1>0, <1>11, TextFacts DEF Facts!Recall, Facts!TypeOK, Facts!CallInv, Facts!Call, Facts!Return
  <2>2. QED
    BY <1>0, <1>11, <2>1, TypeParts DEF Facts!Recall, Facts!TypeOK, Facts!Return, Facts!contribution,
                                        Facts!points, Facts!history
<1>12. ASSUME Facts!DeletePoint PROVE Facts!TypeOK'
  <2>1. call' \in Facts!Call
    BY <1>0, <1>12, TextFacts DEF Facts!DeletePoint, Facts!TypeOK, Facts!CallInv, Facts!Call,
                                  Facts!Return
  <2>2. \/ point' \in [Fact -> FactText \cup {Absent}] /\ vec' \in [Fact -> SUBSET known]
        \/ UNCHANGED Facts!points
    BY <1>0, <1>12, RemoveTypes DEF Facts!DeletePoint, Facts!CallInv
  <2>3. QED
    BY <1>0, <1>12, <2>1, <2>2, TypeParts DEF Facts!DeletePoint, Facts!TypeOK, Facts!Return,
                                              Facts!contribution, Facts!points, Facts!history
<1>13. ASSUME Facts!DeleteFails PROVE Facts!TypeOK'
  <2>1. call' \in Facts!Call
    BY <1>0, <1>13, TextFacts DEF Facts!DeleteFails, Facts!TypeOK, Facts!CallInv, Facts!Call,
                                  Facts!Return
  <2>2. \/ point' \in [Fact -> FactText \cup {Absent}] /\ vec' \in [Fact -> SUBSET known]
        \/ UNCHANGED Facts!points
    BY <1>0, <1>13, RemoveTypes DEF Facts!DeleteFails, Facts!CallInv
  <2>3. QED
    BY <1>0, <1>13, <2>1, <2>2, TypeParts DEF Facts!DeleteFails, Facts!TypeOK, Facts!Return,
                                              Facts!contribution, Facts!points, Facts!history
<1>14. ASSUME Facts!RetireFact PROVE Facts!TypeOK'
  <2>1. call' \in Facts!Call
    BY <1>0, <1>14, TextFacts DEF Facts!RetireFact, Facts!TypeOK, Facts!CallInv, Facts!Call,
                                  Facts!Return
  <2>2. \/ known \subseteq known' /\ known' \in SUBSET Token /\ freq' \in [Token -> Nat] /\ docs' \in Nat
        \/ UNCHANGED Facts!contribution
    BY <1>0, <1>14, UpdateByTexts DEF Facts!RetireFact, Facts!CallInv, Facts!Net, Facts!NoTokens
  <2>3. QED
    BY <1>0, <1>14, <2>1, <2>2, TypeParts DEF Facts!RetireFact, Facts!TypeOK, Facts!Return,
                                              Facts!contribution, Facts!points, Facts!history
<1>15. ASSUME NEW force \in BOOLEAN, NEW corpus \in Facts!Corpus, Facts!IndexAll(force, corpus) PROVE Facts!TypeOK'
  <2>1. call' \in Facts!Call
    BY <1>0, <1>15, TextFacts DEF Facts!IndexAll, Facts!TypeOK, Facts!CallInv, Facts!Call,
                                  Facts!Return
  <2>2. QED
    BY <1>0, <1>15, <2>1, TypeParts DEF Facts!IndexAll, Facts!TypeOK, Facts!Return,
                                        Facts!contribution, Facts!points, Facts!history
<1>16. ASSUME Facts!Scan PROVE Facts!TypeOK'
  <2>1. call' \in Facts!Call
    BY <1>0, <1>16 DEF Facts!Scan, Facts!TypeOK, Facts!Call, Facts!Corpus
  <2>2. QED
    BY <1>0, <1>16, <2>1, TypeParts DEF Facts!Scan, Facts!TypeOK, Facts!Return, Facts!contribution,
                                        Facts!points, Facts!history
<1>17. ASSUME Facts!CorpusFails PROVE Facts!TypeOK'
  BY <1>0, <1>17, TypeParts DEF Facts!CorpusFails, Facts!TypeOK, Facts!Return, Facts!contribution,
                                Facts!points, Facts!history
<1>18. ASSUME Facts!Wipe PROVE Facts!TypeOK'
  <2>1. call' \in Facts!Call
    BY <1>0, <1>18, TextFacts DEF Facts!Wipe, Facts!TypeOK, Facts!CallInv, Facts!Call, Facts!Return
  <2>2. \/ point' \in [Fact -> FactText \cup {Absent}] /\ vec' \in [Fact -> SUBSET known]
        \/ UNCHANGED Facts!points
    BY <1>0, <1>18, RemoveTypes DEF Facts!Wipe, Facts!CallInv
  <2>3. QED
    BY <1>0, <1>18, <2>1, <2>2, TypeParts DEF Facts!Wipe, Facts!TypeOK, Facts!Return,
                                              Facts!contribution, Facts!points, Facts!history
<1>19. ASSUME Facts!WipeUnanswered PROVE Facts!TypeOK'
  <2>1. call' \in Facts!Call
    BY <1>0, <1>19, TextFacts DEF Facts!WipeUnanswered, Facts!TypeOK, Facts!CallInv, Facts!Call,
                                  Facts!Return
  <2>2. \/ point' \in [Fact -> FactText \cup {Absent}] /\ vec' \in [Fact -> SUBSET known]
        \/ UNCHANGED Facts!points
    BY <1>0, <1>19, RemoveTypes DEF Facts!WipeUnanswered, Facts!CallInv
  <2>3. QED
    BY <1>0, <1>19, <2>1, <2>2, TypeParts DEF Facts!WipeUnanswered, Facts!TypeOK, Facts!Return,
                                              Facts!contribution, Facts!points, Facts!history
<1>20. ASSUME Facts!RegisterAll PROVE Facts!TypeOK'
  <2>1. call' \in Facts!Call
    <3>1. Facts!Missing \in SUBSET Fact
      BY DEF Facts!Missing
    <3>2. QED
      BY <1>0, <1>20, <3>1 DEF Facts!RegisterAll, Facts!TypeOK, Facts!Call, Facts!Return
  <2>2. \/ known \subseteq known' /\ known' \in SUBSET Token /\ freq' \in [Token -> Nat] /\ docs' \in Nat
        \/ UNCHANGED Facts!contribution
    BY <1>0, <1>20, RegisterTypes DEF Facts!RegisterAll, Facts!TypeOK, Facts!Call, Facts!Corpus,
                                      Facts!Registered, Facts!Missing
  <2>3. QED
    BY <1>0, <1>20, <2>1, <2>2, TypeParts DEF Facts!RegisterAll, Facts!TypeOK, Facts!Return,
                                              Facts!contribution, Facts!points, Facts!history
<1>21. ASSUME Facts!RegisterFails PROVE Facts!TypeOK'
  BY <1>0, <1>21, TypeParts DEF Facts!RegisterFails, Facts!TypeOK, Facts!Return, Facts!contribution,
                                Facts!points, Facts!history
<1>22. ASSUME NEW f \in Fact, Facts!PassStores(f) PROVE Facts!TypeOK'
  <2>1. call' \in Facts!Call
    BY <1>0, <1>22, TextFacts DEF Facts!PassStores, Facts!TypeOK, Facts!CallInv, Facts!Call,
                                  Facts!Return
  <2>2. \/ point' \in [Fact -> FactText \cup {Absent}] /\ vec' \in [Fact -> SUBSET known]
        \/ UNCHANGED Facts!points
    BY <1>0, <1>22, PutTypes, RemoveTypes DEF Facts!PassStores, Facts!CallInv, Facts!TypeOK,
                                              Facts!Call, Facts!Corpus
  <2>3. QED
    BY <1>0, <1>22, <2>1, <2>2, TypeParts DEF Facts!PassStores, Facts!TypeOK, Facts!Return,
                                              Facts!contribution, Facts!points, Facts!history
<1>23. ASSUME NEW f \in Fact, Facts!PassSkips(f) PROVE Facts!TypeOK'
  <2>1. call' \in Facts!Call
    BY <1>0, <1>23, TextFacts DEF Facts!PassSkips, Facts!TypeOK, Facts!CallInv, Facts!Call,
                                  Facts!Return
  <2>2. QED
    BY <1>0, <1>23, <2>1, TypeParts DEF Facts!PassSkips, Facts!TypeOK, Facts!Return,
                                        Facts!contribution, Facts!points, Facts!history
<1>24. ASSUME NEW f \in Fact, Facts!PassAborts(f) PROVE Facts!TypeOK'
  <2>1. call' \in Facts!Call
    BY <1>0, <1>24, TextFacts DEF Facts!PassAborts, Facts!TypeOK, Facts!CallInv, Facts!Call,
                                  Facts!Return
  <2>2. \/ point' \in [Fact -> FactText \cup {Absent}] /\ vec' \in [Fact -> SUBSET known]
        \/ UNCHANGED Facts!points
    BY <1>0, <1>24, PutTypes, RemoveTypes DEF Facts!PassAborts, Facts!CallInv, Facts!TypeOK,
                                              Facts!Call, Facts!Corpus
  <2>3. QED
    BY <1>0, <1>24, <2>1, <2>2, TypeParts DEF Facts!PassAborts, Facts!TypeOK, Facts!Return,
                                              Facts!contribution, Facts!points, Facts!history
<1>25. ASSUME NEW f \in Fact, Facts!PassUnresolved(f) PROVE Facts!TypeOK'
  <2>1. call' \in Facts!Call
    BY <1>0, <1>25, TextFacts DEF Facts!PassUnresolved, Facts!TypeOK, Facts!CallInv, Facts!Call,
                                  Facts!Return
  <2>2. \/ point' \in [Fact -> FactText \cup {Absent}] /\ vec' \in [Fact -> SUBSET known]
        \/ UNCHANGED Facts!points
    BY <1>0, <1>25, PutTypes, RemoveTypes DEF Facts!PassUnresolved, Facts!CallInv, Facts!TypeOK,
                                              Facts!Call, Facts!Corpus
  <2>3. QED
    BY <1>0, <1>25, <2>1, <2>2, TypeParts DEF Facts!PassUnresolved, Facts!TypeOK, Facts!Return,
                                              Facts!contribution, Facts!points, Facts!history
<1>26. ASSUME Facts!PassEnds PROVE Facts!TypeOK'
  BY <1>0, <1>26, TypeParts DEF Facts!PassEnds, Facts!TypeOK, Facts!Return, Facts!contribution,
                                Facts!points, Facts!history
<1>27. ASSUME Facts!RetireUnwritten PROVE Facts!TypeOK'
  <2>1. call' \in Facts!Call
    BY <1>0, <1>27, TextFacts DEF Facts!RetireUnwritten, Facts!TypeOK, Facts!CallInv, Facts!Call,
                                  Facts!Return
  <2>2. \/ known \subseteq known' /\ known' \in SUBSET Token /\ freq' \in [Token -> Nat] /\ docs' \in Nat
        \/ UNCHANGED Facts!contribution
    <3> DEFINE gone == Facts!Retired(IF call.scanned THEN call.before ELSE point)
               removed == [t \in Token |-> Cardinality({f \in gone : t \in call.corpus[f]})]
    <3>1. \A S \in SUBSET Fact : Cardinality(S) \in Nat
      BY FS_Subset, FS_CardinalityType, SameSets DEF Facts!FactIndexAssumption
    <3>2. gone \in SUBSET Fact
      BY <1>0 DEF Facts!Retired, Facts!TypeOK, Facts!Call
    <3>3. removed \in [Token -> Int] /\ -Cardinality(gone) \in Int /\ Facts!NoTokens \in [Token -> Int]
      BY <3>1, <3>2 DEF Facts!NoTokens, Facts!Single
    <3>4. Facts!UpdateBy(Facts!NoTokens, removed, -Cardinality(gone)) \/ UNCHANGED Facts!contribution
      BY <1>27, SameSets DEF Facts!RetireUnwritten
    <3> HIDE DEF gone, removed
    <3>5. QED
      BY <1>0, <3>3, <3>4, UpdateTypes DEF Facts!TypeOK
  <2>3. QED
    BY <1>0, <1>27, <2>1, <2>2, TypeParts DEF Facts!RetireUnwritten, Facts!TypeOK, Facts!Return,
                                              Facts!contribution, Facts!points, Facts!history
<1>28. ASSUME Facts!Die PROVE Facts!TypeOK'
  BY <1>0, <1>28, TypeParts DEF Facts!Die, Facts!TypeOK, Facts!Return, Facts!contribution,
                                Facts!points, Facts!history
<1>29. CASE UNCHANGED Facts!vars
  BY <1>0, <1>29 DEF Facts!TypeOK, Facts!vars, Facts!points, Facts!contribution, Facts!history
<1>30. QED
  BY <1>1, <1>2, <1>3, <1>4, <1>5, <1>6, <1>7, <1>8, <1>9, <1>10, <1>11, <1>12, <1>13, <1>14, <1>15, <1>16, <1>17, <1>18, <1>19, <1>20, <1>21, <1>22, <1>23, <1>24, <1>25, <1>26, <1>27, <1>28, <1>29
     DEF Facts!Next, Facts!Indexing, Facts!Deletion, Facts!Pass

-----------------------------------------------------------------------------
(* The locals of the calls, and the two stores.                            *)
Rest == Facts!CallInv /\ Facts!CountInv

\* A call returns, with the counts of the points or after something was lost.
LEMMA ReturnRest ==
  ASSUME Facts!Return, ~lost' /\ ~unread' => Facts!Exact'
  PROVE  Rest'
BY DEF Facts!Return, Rest, Facts!CallInv, Facts!CountInv

\* The counts will be those of the points that are there, or that will be.
LEMMA ExactNext ==
  ASSUME NEW p, WillDescribe(p), point' = p
  PROVE  Facts!Exact'
BY SameSets DEF WillDescribe, Facts!Exact, Facts!Describes

LEMMA ExactStays ==
  ASSUME Facts!Exact, point' = point, UNCHANGED Facts!contribution
  PROVE  Facts!Exact'
BY DEF Facts!Exact, Facts!Describes, Facts!contribution, Facts!Present, Facts!Holders

LEMMA RestIndexFact ==
  ASSUME Facts!FactIndexAssumption, Facts!IInv, NEW f \in Fact, NEW text \in FactText, Facts!IndexFact(f, text)
  PROVE  Rest'
<1>1. call'.fact = f /\ call'.text = text /\ ~call'.applied /\ pc' \in {"rebuild", "read"}
  BY DEF Facts!IndexFact, Facts!NoCall
<1>2. ~lost' /\ ~unread' => Facts!Exact'
  BY ExactStays DEF Facts!IndexFact, Facts!IInv, Facts!CountInv, Facts!points, Facts!history
<1>3. QED
  BY <1>1, <1>2 DEF Rest, Facts!CallInv, Facts!CountInv

LEMMA RestRebuild ==
  ASSUME Facts!FactIndexAssumption, Facts!IInv, Facts!Rebuild PROVE Rest'
<1>1. Facts!TypeOK /\ Facts!CallInv /\ point \in Facts!Corpus
  BY DEF Facts!IInv, Facts!TypeOK, Facts!Corpus
<1>2. Facts!CallInv'
  BY <1>1 DEF Facts!Rebuild, Facts!CallInv
<1>3. ~lost' => Facts!Exact'
  <2>1. ~lost' => Facts!RegisterAs(point)
    BY DEF Facts!Rebuild
  <2>2. Facts!RegisterAs(point) => WillDescribe(point)
    BY <1>1, RegisterTypes DEF Facts!TypeOK
  <2>3. QED
    BY <2>1, <2>2, ExactNext DEF Facts!Rebuild, Facts!points
<1>4. QED
  BY <1>2, <1>3 DEF Facts!Rebuild, Rest, Facts!CountInv

LEMMA RestReadPrevious ==
  ASSUME Facts!FactIndexAssumption, Facts!IInv, Facts!ReadPrevious PROVE Rest'
<1>1. Facts!TypeOK /\ Facts!CallInv /\ call \in Facts!Call
  BY DEF Facts!IInv, Facts!TypeOK
<1>2. /\ call'.was = (point[call.fact] # Absent)
      /\ call'.old = (IF point[call.fact] = Absent THEN {} ELSE point[call.fact])
      /\ call'.fact = call.fact /\ call'.text = call.text /\ call'.applied = call.applied
  BY <1>1 DEF Facts!ReadPrevious, Facts!Call
<1>3. Facts!CallInv'
  BY <1>1, <1>2 DEF Facts!ReadPrevious, Facts!CallInv
<1>4. Facts!Knows'
  <2>1. call.fact \in Fact /\ point' = point
    BY <1>1 DEF Facts!ReadPrevious, Facts!CallInv, Facts!points
  <2>2. CASE point[call.fact] = Absent
    BY <1>2, <2>1, <2>2 DEF Facts!Knows
  <2>3. CASE point[call.fact] # Absent
    BY <1>2, <2>1, <2>3 DEF Facts!Knows
  <2>4. QED
    BY <2>2, <2>3
<1>5. ~lost' /\ ~unread' => Facts!Exact'
  BY ExactStays DEF Facts!ReadPrevious, Facts!IInv, Facts!CountInv, Facts!points, Facts!history
<1>6. QED
  BY <1>3, <1>4, <1>5 DEF Facts!ReadPrevious, Rest, Facts!CountInv

LEMMA RestReadFails ==
  ASSUME Facts!FactIndexAssumption, Facts!IInv, Facts!ReadFails PROVE Rest'
BY ReturnRest, ExactStays DEF Facts!ReadFails, Facts!IInv, Facts!CountInv, Facts!points, Facts!history

\* What index_fact knows is what its delta needs.
LEMMA KnowsFacts ==
  ASSUME Facts!TypeOK, Facts!Knows
  PROVE  /\ point \in Facts!Corpus /\ call.fact \in Fact /\ call.old = Old(point, call.fact)
         /\ Facts!Net = (IF point[call.fact] = Absent THEN 1 ELSE 0)
         /\ call.was => call.old \in FactText
BY DEF Facts!TypeOK, Facts!Knows, Old, Facts!Net, Facts!Corpus

LEMMA RestUpdateVocabulary ==
  ASSUME Facts!FactIndexAssumption, Facts!IInv, Facts!UpdateVocabulary PROVE Rest'
<1>1. Facts!TypeOK /\ Facts!CallInv /\ call \in Facts!Call /\ call.fact \in Fact /\ call.text \in FactText
      /\ pc = "update" /\ ~call.applied /\ call.text \subseteq Token
  BY TextFacts DEF Facts!IInv, Facts!TypeOK, Facts!CallInv, Facts!UpdateVocabulary
<1>2. CASE /\ Facts!UpdateBy(Facts!Single(call.text), Facts!Single(call.old), Facts!Net)
           /\ call' = [call EXCEPT !.applied = TRUE]
           /\ UNCHANGED <<Facts!history, faults>>
  <2>1. /\ call'.fact = call.fact /\ call'.text = call.text /\ call'.was = call.was
        /\ call'.old = call.old /\ call'.applied /\ pc' = "write" /\ point' = point
    BY <1>1, <1>2 DEF Facts!Call, Facts!UpdateVocabulary, Facts!points
  <2>2. call.text \subseteq known'
    BY <1>1, <1>2, UpdateByTexts DEF Facts!Net
  <2>3. ~lost' /\ ~unread' => Facts!Knows' /\ Facts!Describes(Facts!Stored(call.text))'
    <3> SUFFICES ASSUME ~lost, ~unread PROVE Facts!Knows' /\ Facts!Describes(Facts!Stored(call.text))'
      BY <1>2 DEF Facts!history
    <3>1. Facts!Knows /\ Facts!Describes(point)
      BY <1>1 DEF Facts!IInv, Facts!CountInv, Facts!Exact
    <3>2. WillDescribe([point EXCEPT ![call.fact] = call.text])
      BY <1>1, <1>2, <3>1, KnowsFacts, UpdateText
    <3>3. Facts!Describes(Facts!Stored(call.text))'
      BY <2>1, <3>2, SameSets DEF WillDescribe, Facts!Describes, Facts!Stored
    <3>4. Facts!Knows'
      BY <2>1, <3>1 DEF Facts!Knows
    <3>5. QED
      BY <3>3, <3>4
  <2>4. QED
    BY <1>1, <2>1, <2>2, <2>3 DEF Rest, Facts!CallInv, Facts!CountInv
<1>3. CASE lost' /\ UNCHANGED call
  BY <1>1, <1>3 DEF Facts!UpdateVocabulary, Rest, Facts!CallInv, Facts!CountInv
<1>4. QED
  BY <1>2, <1>3 DEF Facts!UpdateVocabulary

LEMMA RestStoreFact ==
  ASSUME Facts!FactIndexAssumption, Facts!IInv, Facts!StoreFact PROVE Rest'
<1>1. ~lost /\ ~unread => Facts!Describes([point EXCEPT ![call.fact] = call.text])
  BY DEF Facts!StoreFact, Facts!IInv, Facts!CountInv, Facts!Stored
<1>2. ~lost' /\ ~unread' => Facts!Exact'
  BY <1>1 DEF Facts!StoreFact, Facts!Put, Facts!Exact, Facts!Describes, Facts!contribution,
              Facts!history
<1>3. QED
  BY <1>2, ReturnRest DEF Facts!StoreFact

LEMMA RestStoreFails ==
  ASSUME Facts!FactIndexAssumption, Facts!IInv, Facts!StoreFails PROVE Rest'
<1>1. Facts!CallInv /\ pc = "write" /\ UNCHANGED <<Facts!points, Facts!contribution, Facts!history>>
  BY DEF Facts!StoreFails, Facts!IInv
<1>2. CASE call.applied
  <2>1. pc' = "revert" /\ UNCHANGED call
    BY <1>2 DEF Facts!StoreFails
  <2>2. Facts!CallInv'
    BY <1>1, <2>1 DEF Facts!CallInv
  <2>3. ~lost /\ ~unread => Facts!Knows' /\ Facts!Describes(Facts!Stored(call.text))' /\ call'.applied
    BY <1>1, <2>1 DEF Facts!IInv, Facts!CountInv, Facts!Knows, Facts!Describes, Facts!Stored,
                      Facts!Present, Facts!Holders, Facts!points, Facts!contribution
  <2>4. QED
    BY <1>1, <2>1, <2>2, <2>3 DEF Rest, Facts!CountInv, Facts!history
<1>3. CASE ~call.applied
  <2>1. lost \/ unread
    BY <1>1, <1>3 DEF Facts!IInv, Facts!CountInv
  <2>2. QED
    BY <1>1, <1>3, <2>1, ReturnRest DEF Facts!StoreFails, Facts!history
<1>4. QED
  BY <1>2, <1>3

LEMMA RestStoreUnresolved ==
  ASSUME Facts!FactIndexAssumption, Facts!IInv, Facts!StoreUnresolved PROVE Rest'
<1>1. Facts!CallInv /\ pc = "write" /\ lost'
  BY DEF Facts!StoreUnresolved, Facts!IInv
<1>2. CASE call.applied
  BY <1>1, <1>2 DEF Facts!StoreUnresolved, Rest, Facts!CallInv, Facts!CountInv
<1>3. CASE ~call.applied
  BY <1>1, <1>3, ReturnRest DEF Facts!StoreUnresolved
<1>4. QED
  BY <1>2, <1>3

LEMMA RestRevert ==
  ASSUME Facts!FactIndexAssumption, Facts!IInv, Facts!Revert PROVE Rest'
<1>1. ASSUME ~lost', ~unread' PROVE Facts!Exact'
  <2>1. Facts!UpdateBy(Facts!Single(call.old), Facts!Single(call.text), -Facts!Net) /\ ~lost /\ ~unread
    BY <1>1 DEF Facts!Revert, Facts!history
  <2>2. Facts!TypeOK /\ Facts!Knows /\ Facts!Describes([point EXCEPT ![call.fact] = call.text]) /\ call.text \in FactText
    BY <2>1 DEF Facts!Revert, Facts!IInv, Facts!CountInv, Facts!CallInv, Facts!Stored
  <2>3. WillDescribe(point)
    BY <2>1, <2>2, KnowsFacts, RevertText
  <2>4. QED
    BY <2>3, ExactNext DEF Facts!Revert, Facts!points
<1>2. QED
  BY <1>1, ReturnRest DEF Facts!Revert

-----------------------------------------------------------------------------
LEMMA RestDeleteFact ==
  ASSUME Facts!FactIndexAssumption, Facts!IInv, NEW f \in Fact, Facts!DeleteFact(f) PROVE Rest'
<1>1. call'.fact = f /\ ~call'.was /\ pc' = "recall"
  BY DEF Facts!DeleteFact, Facts!NoCall
<1>2. ~lost' /\ ~unread' => Facts!Exact'
  BY ExactStays DEF Facts!DeleteFact, Facts!IInv, Facts!CountInv, Facts!points, Facts!history
<1>3. QED
  BY <1>1, <1>2 DEF Rest, Facts!CallInv, Facts!CountInv

LEMMA RestRecall ==
  ASSUME Facts!FactIndexAssumption, Facts!IInv, Facts!Recall PROVE Rest'
<1>1. Facts!TypeOK /\ Facts!CallInv /\ call \in Facts!Call /\ call.fact \in Fact /\ pc' = "delete"
  BY DEF Facts!Recall, Facts!IInv, Facts!TypeOK, Facts!CallInv
<1>2. call'.fact = call.fact
  BY <1>1 DEF Facts!Recall, Facts!Call
<1>3. ~lost' => Facts!Knows' /\ ~lost /\ unread' = unread
  BY <1>1 DEF Facts!Recall, Facts!Call, Facts!Knows, Facts!history, Facts!points
<1>4. ~lost' /\ ~unread' => Facts!Exact'
  BY <1>3, ExactStays DEF Facts!Recall, Facts!IInv, Facts!CountInv, Facts!points
<1>5. QED
  BY <1>1, <1>2, <1>3, <1>4 DEF Rest, Facts!CallInv, Facts!CountInv

LEMMA RestDeletePoint ==
  ASSUME Facts!FactIndexAssumption, Facts!IInv, Facts!DeletePoint PROVE Rest'
<1>1. Facts!TypeOK /\ Facts!CallInv /\ call.fact \in Fact /\ UNCHANGED <<Facts!contribution, Facts!history>>
      /\ point' = [f \in Fact |-> IF f \in {call.fact} THEN Absent ELSE point[f]]
  BY DEF Facts!DeletePoint, Facts!Remove, Facts!IInv, Facts!CallInv
<1>2. ~lost /\ ~unread => Facts!Exact /\ Facts!Knows
  BY DEF Facts!DeletePoint, Facts!IInv, Facts!CountInv
<1>3. CASE call.was
  <2>1. pc' = "retire" /\ call' = call
    BY <1>3 DEF Facts!DeletePoint
  <2>2. ASSUME ~lost, ~unread
        PROVE  point'[call.fact] = Absent /\ call.old \in FactText /\ Facts!Describes(Facts!Stored(call.old))'
    <3>1. call.old \in FactText /\ call.old = point[call.fact]
      BY <1>1, <1>2, <1>3, <2>2, KnowsFacts DEF Facts!Knows
    <3>2. [point' EXCEPT ![call.fact] = call.old] = point
      BY <1>1, <3>1 DEF Facts!TypeOK
    <3>3. Facts!Describes(Facts!Stored(call.old))'
      BY <1>1, <1>2, <2>1, <2>2, <3>2 DEF Facts!Exact, Facts!Describes, Facts!Stored,
                                          Facts!contribution
    <3>4. QED
      BY <1>1, <3>1, <3>3
  <2>3. QED
    BY <1>1, <2>1, <2>2 DEF Rest, Facts!CallInv, Facts!CountInv, Facts!history
<1>4. CASE ~call.was
  <2>1. ~lost /\ ~unread => point' = point
    BY <1>1, <1>2, <1>4 DEF Facts!TypeOK, Facts!Knows
  <2>2. ~lost' /\ ~unread' => Facts!Exact'
    BY <1>1, <1>2, <2>1, ExactStays DEF Facts!history
  <2>3. QED
    BY <1>4, <2>2, ReturnRest DEF Facts!DeletePoint
<1>5. QED
  BY <1>3, <1>4

LEMMA RestDeleteFails ==
  ASSUME Facts!FactIndexAssumption, Facts!IInv, Facts!DeleteFails PROVE Rest'
<1>1. ~lost' /\ ~unread' => Facts!Exact'
  BY ExactStays DEF Facts!DeleteFails, Facts!IInv, Facts!CountInv, Facts!points
<1>2. QED
  BY <1>1, ReturnRest DEF Facts!DeleteFails

LEMMA RestRetireFact ==
  ASSUME Facts!FactIndexAssumption, Facts!IInv, Facts!RetireFact PROVE Rest'
<1>1. ASSUME ~lost', ~unread' PROVE Facts!Exact'
  <2>1. Facts!UpdateBy(Facts!NoTokens, Facts!Single(call.old), -1) /\ ~lost /\ ~unread
    BY <1>1 DEF Facts!RetireFact, Facts!history
  <2>2. /\ call.fact \in Fact /\ point[call.fact] = Absent /\ call.old \in FactText
        /\ Facts!Describes([point EXCEPT ![call.fact] = call.old]) /\ point \in Facts!Corpus
    BY <2>1 DEF Facts!RetireFact, Facts!IInv, Facts!CountInv, Facts!CallInv, Facts!Stored,
                Facts!TypeOK, Facts!Corpus
  <2>3. Facts!UpdateBy(Facts!Single(Old(point, call.fact)), Facts!Single(call.old),
                 -(IF point[call.fact] = Absent THEN 1 ELSE 0))
    BY <2>1, <2>2 DEF Old, Facts!NoTokens
  <2>4. WillDescribe(point)
    BY <2>2, <2>3, RevertText
  <2>5. QED
    BY <2>4, ExactNext DEF Facts!RetireFact, Facts!points
<1>2. QED
  BY <1>1, ReturnRest DEF Facts!RetireFact

-----------------------------------------------------------------------------
LEMMA RestIndexAll ==
  ASSUME Facts!FactIndexAssumption, Facts!IInv, NEW force \in BOOLEAN, NEW corpus \in Facts!Corpus,
         Facts!IndexAll(force, corpus)
  PROVE  Rest'
<1>1. /\ call'.force = force /\ call'.scanned = force /\ call'.before = Facts!NoFacts
      /\ pc' = IF force THEN "wipe" ELSE "scan"
  BY DEF Facts!IndexAll, Facts!NoCall
<1>2. ~lost' /\ ~unread' => Facts!Exact'
  BY ExactStays DEF Facts!IndexAll, Facts!IInv, Facts!CountInv, Facts!points, Facts!history
<1>3. QED
  BY <1>1, <1>2 DEF Rest, Facts!CallInv, Facts!CountInv

LEMMA RestScan ==
  ASSUME Facts!FactIndexAssumption, Facts!IInv, Facts!Scan PROVE Rest'
<1>1. Facts!TypeOK /\ Facts!CallInv /\ call \in Facts!Call /\ pc = "scan" /\ pc' = "register" /\ point' = point
  BY DEF Facts!Scan, Facts!IInv, Facts!TypeOK, Facts!points
<1>2. ~call'.force /\ (call'.scanned => call'.before = point)
  BY <1>1 DEF Facts!Scan, Facts!Call, Facts!CallInv
<1>3. ~lost' /\ ~unread' => Facts!Exact'
  BY ExactStays DEF Facts!Scan, Facts!IInv, Facts!CountInv, Facts!points, Facts!history
<1>4. QED
  BY <1>1, <1>2, <1>3 DEF Rest, Facts!CallInv, Facts!CountInv

LEMMA RestCorpusFails ==
  ASSUME Facts!FactIndexAssumption, Facts!IInv, Facts!CorpusFails PROVE Rest'
BY ReturnRest, ExactStays DEF Facts!CorpusFails, Facts!IInv, Facts!CountInv, Facts!points,
                              Facts!history

LEMMA RestWipe ==
  ASSUME Facts!FactIndexAssumption, Facts!IInv, Facts!Wipe PROVE Rest'
<1>1. Facts!CallInv /\ pc = "wipe" /\ pc' = "register" /\ UNCHANGED call
  BY DEF Facts!Wipe, Facts!IInv
<1>2. point' = Facts!NoFacts
  BY DEF Facts!Wipe, Facts!Remove, Facts!NoFacts
<1>3. QED
  BY <1>1, <1>2 DEF Rest, Facts!CallInv, Facts!CountInv

LEMMA RestWipeUnanswered ==
  ASSUME Facts!FactIndexAssumption, Facts!IInv, Facts!WipeUnanswered PROVE Rest'
BY ReturnRest DEF Facts!WipeUnanswered

\* What a pass registers is well formed.
LEMMA RegisteredFacts ==
  ASSUME Facts!TypeOK
  PROVE  /\ Facts!Registered \in Facts!Corpus /\ Facts!Missing \in SUBSET Fact
         /\ call.corpus \in Facts!Corpus /\ call.before \in Facts!Corpus
         /\ \A f \in Fact : f \in Facts!Missing =>
              /\ call.corpus[f] # Absent /\ call.corpus[f] \in FactText
              /\ call.before[f] = Absent /\ Facts!Registered[f] = call.corpus[f]
         /\ \A f \in Fact : f \notin Facts!Missing => Facts!Registered[f] = call.before[f]
<1>1. call.corpus \in Facts!Corpus /\ call.before \in Facts!Corpus
  BY DEF Facts!TypeOK, Facts!Call
<1>2. QED
  BY <1>1 DEF Facts!Registered, Facts!Missing, Facts!Corpus

LEMMA RestRegisterAll ==
  ASSUME Facts!FactIndexAssumption, Facts!IInv, Facts!RegisterAll PROVE Rest'
<1>1. Facts!TypeOK /\ Facts!CallInv /\ call \in Facts!Call /\ pc = "register" /\ point' = point /\ known \in SUBSET Token
  BY DEF Facts!RegisterAll, Facts!IInv, Facts!TypeOK, Facts!points
<1>2. Facts!RegisterAs(Facts!Registered) /\ (~unread' => call.scanned)
  BY <1>1 DEF Facts!RegisterAll, Facts!Call
<1>3. /\ WillDescribe(Facts!Registered)
      /\ \A f \in Fact : Facts!Registered[f] # Absent => Facts!Registered[f] \subseteq known'
  BY <1>1, <1>2, RegisteredFacts, RegisterTypes
<1>4. call.scanned => call.before = point
  BY <1>1 DEF Facts!CallInv
<1>5. CASE Facts!Missing = {}
  <2>1. call.scanned => Facts!Registered = point
    BY <1>1, <1>4, <1>5, RegisteredFacts DEF Facts!Registered, Facts!TypeOK
  <2>2. ~unread' => Facts!Exact'
    BY <1>1, <1>2, <1>3, <2>1, ExactNext
  <2>3. QED
    BY <1>5, <2>2, ReturnRest DEF Facts!RegisterAll
<1>6. CASE Facts!Missing # {}
  <2>1. /\ pc' = "pass" /\ call'.queue = Facts!Missing /\ call'.unwritten = Facts!Missing
        /\ call'.corpus = call.corpus /\ call'.before = call.before
        /\ call'.force = call.force /\ call'.scanned = call.scanned
    BY <1>1, <1>6 DEF Facts!RegisterAll, Facts!Call
  <2>2. Facts!Missing' = Facts!Missing /\ Facts!Registered' = Facts!Registered
    BY <2>1 DEF Facts!Missing, Facts!Registered
  <2>3. Facts!CallInv'
    <3>1. \A f \in call'.queue : call'.corpus[f] # Absent /\ call'.corpus[f] \subseteq known'
      BY <1>1, <1>3, <2>1, RegisteredFacts
    <3>2. call'.force => \A f \in Fact : point'[f] = Absent
      BY <1>1, <2>1 DEF Facts!CallInv, Facts!NoFacts
    <3>3. QED
      BY <2>1, <3>1, <3>2 DEF Facts!CallInv
  <2>4. ~unread' => Facts!CountInv'
    <3> SUFFICES ASSUME ~unread' PROVE Facts!CountInv'
      OBVIOUS
    <3>1. call'.scanned /\ call.before = point
      BY <1>2, <1>4, <2>1
    <3>2. Facts!Describes(Facts!Registered)'
      BY <1>3, <2>2, SameSets DEF WillDescribe, Facts!Describes
    <3>3. \A f \in Fact : point'[f] = IF f \in call'.unwritten THEN Absent ELSE Facts!Registered'[f]
      BY <1>1, <2>1, <2>2, <3>1, RegisteredFacts
    <3>4. QED
      BY <2>1, <2>2, <3>1, <3>2, <3>3 DEF Facts!CountInv
  <2>5. QED
    BY <2>3, <2>4 DEF Rest, Facts!CountInv
<1>7. QED
  BY <1>5, <1>6

LEMMA RestRegisterFails ==
  ASSUME Facts!FactIndexAssumption, Facts!IInv, Facts!RegisterFails PROVE Rest'
<1>1. ~lost' /\ ~unread' => Facts!Exact'
  BY ExactStays DEF Facts!RegisterFails, Facts!IInv, Facts!CountInv, Facts!points
<1>2. QED
  BY <1>1, ReturnRest DEF Facts!RegisterFails

\* The facts of a pass that has lost nothing.
PassOK ==
  /\ call.scanned /\ Facts!Describes(Facts!Registered)
  /\ call.unwritten \subseteq Facts!Missing
  /\ \A f \in Fact : point[f] = IF f \in call.unwritten THEN Absent ELSE Facts!Registered[f]

\* A pass keeps what it has registered, and goes on with what is left.
LEMMA PassGoesOn ==
  ASSUME Facts!TypeOK, PassOK, UNCHANGED Facts!contribution,
         /\ call'.corpus = call.corpus /\ call'.before = call.before /\ call'.scanned = call.scanned
         /\ call'.unwritten \subseteq call.unwritten,
         \A g \in Fact : point'[g] = IF g \in call.unwritten \ call'.unwritten THEN call.corpus[g]
                                     ELSE point[g]
  PROVE  PassOK'
<1>1. Facts!Missing' = Facts!Missing /\ Facts!Registered' = Facts!Registered
  BY DEF Facts!Missing, Facts!Registered
<1>2. Facts!Describes(Facts!Registered)'
  BY <1>1 DEF PassOK, Facts!Describes, Facts!contribution
<1>3. \A g \in Fact : point'[g] = IF g \in call'.unwritten THEN Absent ELSE Facts!Registered'[g]
  BY <1>1, RegisteredFacts DEF PassOK
<1>4. QED
  BY <1>1, <1>2, <1>3 DEF PassOK

LEMMA PassRest ==
  ASSUME Facts!CallInv', pc' \in {"pass", "finally"},
         ~lost' /\ ~unread' => PassOK' /\ (pc' = "pass" => call'.queue \subseteq call'.unwritten)
  PROVE  Rest'
BY DEF Rest, Facts!CountInv, PassOK

\* The text that the pass stores for a fact.
LEMMA QueueFacts ==
  ASSUME Facts!FactIndexAssumption, Facts!IInv, pc = "pass", NEW f \in call.queue
  PROVE  /\ Facts!TypeOK /\ Facts!CallInv /\ call \in Facts!Call /\ f \in Fact /\ call.corpus[f] \in FactText
         /\ ~lost /\ ~unread => PassOK /\ call.queue \subseteq call.unwritten
BY DEF Facts!IInv, Facts!TypeOK, Facts!CallInv, Facts!CountInv, PassOK, Facts!Call, Facts!Corpus

LEMMA RestPassStores ==
  ASSUME Facts!FactIndexAssumption, Facts!IInv, NEW f \in Fact, Facts!PassStores(f) PROVE Rest'
<1>1. /\ Facts!TypeOK /\ Facts!CallInv /\ call \in Facts!Call /\ pc = "pass" /\ pc' = "pass" /\ f \in call.queue
      /\ call.corpus[f] \in FactText /\ UNCHANGED <<Facts!contribution, Facts!history>>
      /\ ~lost /\ ~unread => PassOK /\ call.queue \subseteq call.unwritten
  BY QueueFacts DEF Facts!PassStores
<1>2. /\ call'.corpus = call.corpus /\ call'.before = call.before /\ call'.scanned = call.scanned
      /\ call'.queue = call.queue \ {f} /\ call'.unwritten = call.unwritten \ {f}
      /\ call'.force = call.force
  BY <1>1 DEF Facts!PassStores, Facts!Call
<1>3. point'[f] = call.corpus[f] /\ \A g \in Fact \ {f} : point'[g] = point[g]
  BY <1>1, PutTypes DEF Facts!PassStores
<1>4. Facts!CallInv'
  BY <1>1, <1>2, <1>3 DEF Facts!CallInv, Facts!contribution
<1>5. ~lost /\ ~unread => PassOK' /\ call'.queue \subseteq call'.unwritten
  <2> SUFFICES ASSUME ~lost, ~unread PROVE PassOK' /\ call'.queue \subseteq call'.unwritten
    OBVIOUS
  <2>1. PassOK /\ f \in call.unwritten /\ call'.queue \subseteq call'.unwritten
    BY <1>1, <1>2
  <2>2. \A g \in Fact : point'[g] = IF g \in call.unwritten \ call'.unwritten THEN call.corpus[g]
                                    ELSE point[g]
    BY <1>2, <1>3, <2>1
  <2>3. QED
    BY <1>1, <1>2, <2>1, <2>2, PassGoesOn
<1>6. QED
  BY <1>1, <1>4, <1>5, PassRest DEF Facts!history

LEMMA RestPassSkips ==
  ASSUME Facts!FactIndexAssumption, Facts!IInv, NEW f \in Fact, Facts!PassSkips(f) PROVE Rest'
<1>1. /\ Facts!TypeOK /\ Facts!CallInv /\ call \in Facts!Call /\ pc = "pass" /\ pc' = "pass"
      /\ UNCHANGED <<Facts!points, Facts!contribution, Facts!history>>
      /\ ~lost /\ ~unread => PassOK /\ call.queue \subseteq call.unwritten
  BY QueueFacts DEF Facts!PassSkips
<1>2. /\ call'.corpus = call.corpus /\ call'.before = call.before /\ call'.scanned = call.scanned
      /\ call'.queue = call.queue \ {f} /\ call'.unwritten = call.unwritten
      /\ call'.force = call.force
  BY <1>1 DEF Facts!PassSkips, Facts!Call
<1>3. Facts!CallInv'
  BY <1>1, <1>2 DEF Facts!CallInv, Facts!contribution, Facts!points
<1>4. ~lost /\ ~unread => PassOK' /\ call'.queue \subseteq call'.unwritten
  BY <1>1, <1>2, PassGoesOn DEF Facts!points
<1>5. QED
  BY <1>1, <1>3, <1>4, PassRest DEF Facts!history

LEMMA RestPassAborts ==
  ASSUME Facts!FactIndexAssumption, Facts!IInv, NEW f \in Fact, Facts!PassAborts(f) PROVE Rest'
<1>1. /\ Facts!TypeOK /\ Facts!CallInv /\ call \in Facts!Call /\ pc = "pass" /\ pc' = "finally" /\ f \in call.queue
      /\ call.corpus[f] \in FactText /\ UNCHANGED <<Facts!contribution, Facts!history>>
      /\ ~lost /\ ~unread => PassOK /\ call.queue \subseteq call.unwritten
  BY QueueFacts DEF Facts!PassAborts
<1>2. CASE UNCHANGED <<Facts!points, call>>
  <2>1. Facts!CallInv'
    BY <1>1, <1>2 DEF Facts!CallInv, Facts!points
  <2>2. ~lost /\ ~unread => PassOK'
    BY <1>1, <1>2, PassGoesOn DEF Facts!points
  <2>3. QED
    BY <1>1, <2>1, <2>2, PassRest DEF Facts!history
<1>3. CASE Facts!Put(f, call.corpus[f]) /\ call' = [call EXCEPT !.unwritten = @ \ {f}]
  <2>1. /\ call'.corpus = call.corpus /\ call'.before = call.before /\ call'.scanned = call.scanned
        /\ call'.unwritten = call.unwritten \ {f} /\ call'.force = call.force
    BY <1>1, <1>3 DEF Facts!Call
  <2>2. point'[f] = call.corpus[f] /\ \A g \in Fact \ {f} : point'[g] = point[g]
    BY <1>1, <1>3, PutTypes
  <2>3. Facts!CallInv'
    BY <1>1, <2>1, <2>2 DEF Facts!CallInv
  <2>4. ~lost /\ ~unread => PassOK'
    <3> SUFFICES ASSUME ~lost, ~unread PROVE PassOK'
      OBVIOUS
    <3>1. PassOK /\ f \in call.unwritten
      BY <1>1
    <3>2. \A g \in Fact : point'[g] = IF g \in call.unwritten \ call'.unwritten THEN call.corpus[g]
                                      ELSE point[g]
      BY <2>1, <2>2, <3>1
    <3>3. QED
      BY <1>1, <2>1, <3>1, <3>2, PassGoesOn
  <2>5. QED
    BY <1>1, <2>3, <2>4, PassRest DEF Facts!history
<1>4. QED
  BY <1>2, <1>3 DEF Facts!PassAborts

LEMMA RestPassUnresolved ==
  ASSUME Facts!FactIndexAssumption, Facts!IInv, NEW f \in Fact, Facts!PassUnresolved(f) PROVE Rest'
<1>1. /\ Facts!TypeOK /\ Facts!CallInv /\ pc = "pass" /\ pc' = "finally" /\ UNCHANGED call /\ lost'
      /\ call.corpus[f] \in FactText
  BY QueueFacts DEF Facts!PassUnresolved
<1>2. \A g \in Fact : point'[g] \in {Absent, point[g], call.corpus[g]}
  <2>1. CASE Facts!Put(f, call.corpus[f])
    BY <1>1, <2>1, PutTypes
  <2>2. CASE Facts!Remove({f})
    BY <1>1, <2>2, RemoveTypes
  <2>3. CASE UNCHANGED Facts!points
    BY <2>3 DEF Facts!points
  <2>4. QED
    BY <2>1, <2>2, <2>3 DEF Facts!PassUnresolved
<1>3. Facts!CallInv'
  BY <1>1, <1>2 DEF Facts!CallInv
<1>4. QED
  BY <1>1, <1>3, PassRest

LEMMA RestPassEnds ==
  ASSUME Facts!FactIndexAssumption, Facts!IInv, Facts!PassEnds PROVE Rest'
<1>1. /\ Facts!TypeOK /\ Facts!CallInv /\ pc = "pass" /\ pc' = "finally"
      /\ UNCHANGED <<Facts!points, Facts!contribution, call, Facts!history>>
      /\ ~lost /\ ~unread => PassOK
  BY DEF Facts!PassEnds, Facts!IInv, Facts!CountInv, PassOK
<1>2. Facts!CallInv'
  BY <1>1 DEF Facts!CallInv, Facts!points
<1>3. ~lost /\ ~unread => PassOK'
  BY <1>1, PassGoesOn DEF Facts!points
<1>4. QED
  BY <1>1, <1>2, <1>3, PassRest DEF Facts!history

\* The facts that never got their points are taken back, and no others.
LEMMA RestRetireUnwritten ==
  ASSUME Facts!FactIndexAssumption, Facts!IInv, Facts!RetireUnwritten PROVE Rest'
<1>1. ASSUME ~lost', ~unread' PROVE Facts!Exact'
  <2> DEFINE U == call.unwritten
             gone == Facts!Retired(IF call.scanned THEN call.before ELSE point)
  <2>1. /\ Facts!UpdateBy(Facts!NoTokens, [t \in Token |-> Cardinality({f \in gone : t \in call.corpus[f]})],
                    -Cardinality(gone))
        /\ ~lost /\ ~unread
    <3>1. /\ Facts!UpdateBy(Facts!NoTokens,
                            [t \in Token |-> Facts!Cardinality({f \in gone : t \in call.corpus[f]})],
                            -Facts!Cardinality(gone))
          /\ ~lost /\ ~unread
      BY <1>1 DEF Facts!RetireUnwritten, Facts!history
    <3> HIDE DEF gone
    <3>2. \A S : Facts!Cardinality(S) = Cardinality(S)
      BY SameSets
    <3>3. QED
      BY <3>1, <3>2
  <2>2. Facts!TypeOK /\ PassOK /\ point \in Facts!Corpus /\ U \in SUBSET Fact
    BY <2>1 DEF Facts!RetireUnwritten, Facts!IInv, Facts!CountInv, PassOK, Facts!TypeOK,
                Facts!Corpus, Facts!Call
  <2>3. \A f \in Fact : IF f \in U THEN point[f] = Absent /\ Facts!Registered[f] # Absent
                        ELSE point[f] = Facts!Registered[f]
    BY <2>2, RegisteredFacts DEF PassOK
  <2>4. gone = U /\ \A f \in U : call.corpus[f] = Facts!Registered[f]
    BY <2>2, RegisteredFacts DEF PassOK, Facts!Retired
  <2>5. [t \in Token |-> Cardinality({f \in gone : t \in call.corpus[f]})]
          = [t \in Token |-> Cardinality({f \in U : t \in Facts!Registered[f]})]
    <3>1. ASSUME NEW t \in Token
          PROVE  {f \in gone : t \in call.corpus[f]} = {f \in U : t \in Facts!Registered[f]}
      BY <2>4
    <3>2. QED
      BY <3>1
  <2> HIDE DEF U, gone
  <2>6. Facts!UpdateBy(Facts!NoTokens, [t \in Token |-> Cardinality({f \in U : t \in Facts!Registered[f]})], -Cardinality(U))
    BY <2>1, <2>4, <2>5
  <2>7. WillDescribe(point)
    BY <2>2, <2>3, <2>6, RegisteredFacts, RetireTexts DEF PassOK
  <2>8. QED
    BY <2>7, ExactNext DEF Facts!RetireUnwritten, Facts!points
<1>2. QED
  BY <1>1, ReturnRest DEF Facts!RetireUnwritten

LEMMA RestDie ==
  ASSUME Facts!FactIndexAssumption, Facts!IInv, Facts!Die PROVE Rest'
<1>1. ~lost' /\ ~unread' => Facts!Exact'
  <2> SUFFICES ASSUME ~lost', ~unread' PROVE Facts!Exact'
    OBVIOUS
  <2>1. /\ ~lost /\ ~unread /\ pc \notin {"write", "revert", "retire", "pass", "finally"}
        /\ pc = "register" => ~call.force
    BY DEF Facts!Die
  <2>2. Facts!Exact
    BY <2>1 DEF Facts!IInv, Facts!TypeOK, Facts!Place, Facts!CountInv
  <2>3. QED
    BY <2>2, ExactStays DEF Facts!Die, Facts!points
<1>2. QED
  BY <1>1, ReturnRest DEF Facts!Die
-----------------------------------------------------------------------------
(* The inductive invariant.                                                *)

LEMMA InitIInv ==
  ASSUME Facts!FactIndexAssumption, Facts!Init PROVE Facts!IInv
<1>1. Facts!Present(point) = {} /\ \A t \in Token : Facts!Holders(point, t) = {}
  BY DEF Facts!Init, Facts!NoFacts, Facts!Present, Facts!Holders
<1>2. Facts!Exact
  BY <1>1, FS_EmptySet, SameSets DEF Facts!Init, Facts!Exact, Facts!Describes, Facts!NoTokens, Facts!Single
<1>3. Facts!TypeOK
  BY NoCallType DEF Facts!Init, Facts!TypeOK, Facts!NoFacts, Facts!NoTokens, Facts!Single, Facts!Place
<1>4. Facts!CallInv /\ Facts!CountInv
  BY <1>2 DEF Facts!Init, Facts!CallInv, Facts!CountInv
<1>5. QED
  BY <1>3, <1>4 DEF Facts!IInv

LEMMA StutterIInv ==
  ASSUME Facts!IInv, UNCHANGED Facts!vars PROVE Facts!IInv'
<1> USE DEF Facts!vars, Facts!points, Facts!contribution, Facts!history
<1>1. Facts!TypeOK'
  BY DEF Facts!IInv, Facts!TypeOK
<1>2. Facts!CallInv'
  BY DEF Facts!IInv, Facts!CallInv
<1>3. Facts!Registered' = Facts!Registered /\ Facts!Missing' = Facts!Missing /\ \A text : Facts!Stored(text)' = Facts!Stored(text)
  BY DEF Facts!Registered, Facts!Missing, Facts!Stored
<1>4. Facts!CountInv'
  BY <1>3 DEF Facts!IInv, Facts!CountInv, Facts!Exact, Facts!Describes, Facts!Knows
<1>5. QED
  BY <1>1, <1>2, <1>4 DEF Facts!IInv

LEMMA StepIInv ==
  ASSUME Facts!FactIndexAssumption, Facts!IInv, [Facts!Next]_Facts!vars PROVE Facts!IInv'
<1>1. ASSUME Facts!Indexing PROVE Rest'
  BY <1>1, RestIndexFact, RestRebuild, RestReadPrevious, RestReadFails, RestUpdateVocabulary,
     RestStoreFact, RestStoreFails, RestStoreUnresolved, RestRevert DEF Facts!Indexing
<1>2. ASSUME Facts!Deletion PROVE Rest'
  BY <1>2, RestDeleteFact, RestRecall, RestDeletePoint, RestDeleteFails, RestRetireFact
     DEF Facts!Deletion
<1>3. ASSUME Facts!Pass PROVE Rest'
  BY <1>3, RestIndexAll, RestScan, RestCorpusFails, RestWipe, RestWipeUnanswered, RestRegisterAll,
     RestRegisterFails, RestPassStores, RestPassSkips, RestPassAborts, RestPassUnresolved,
     RestPassEnds, RestRetireUnwritten DEF Facts!Pass
<1>4. ASSUME Facts!Next PROVE Facts!IInv'
  <2>1. Rest'
    BY <1>1, <1>2, <1>3, <1>4, RestDie DEF Facts!Next
  <2>2. QED
    BY <1>4, <2>1, StepTypeOK DEF Rest, Facts!IInv
<1>5. QED
  BY <1>4, StutterIInv

(* Points, contribution and the call's locals stay as IInv says, from      *)
(* every start and through every failure, cancellation and death.          *)
THEOREM FactsInductive ==
  ASSUME Facts!FactIndexAssumption
  PROVE  Facts!Spec => []Facts!IInv
<1>1. Facts!Init => Facts!IInv
  BY InitIInv
<1>2. Facts!IInv /\ [Facts!Next]_Facts!vars => Facts!IInv'
  BY StepIInv
<1>3. QED
  BY <1>1, <1>2, PTL DEF Facts!Spec

-----------------------------------------------------------------------------
(* A step of index_fact or of a pass that stores a fact stores it with all *)
(* of its terms.                                                           *)
Whole == \A f \in Fact :
           /\ point'[f] # Absent /\ <<point[f], vec[f]>>' # <<point[f], vec[f]>>
           /\ call.applied \/ pc = "pass"
           => vec'[f] = point'[f]

LEMMA StoredWhole ==
  ASSUME Facts!FactIndexAssumption, Facts!TypeOK, NEW g \in Fact, NEW text \in FactText, Facts!Put(g, text),
         call.applied \/ pc = "pass" => text \subseteq known
  PROVE  Whole
BY PutTypes DEF Whole

LEMMA RemovedWhole ==
  ASSUME Facts!TypeOK, NEW fs \in SUBSET Fact, Facts!Remove(fs) PROVE Whole
BY RemoveTypes DEF Whole

LEMMA KeptWhole ==
  ASSUME UNCHANGED Facts!points PROVE Whole
BY DEF Whole, Facts!points

LEMMA StepWhole ==
  ASSUME Facts!FactIndexAssumption, Facts!IInv, [Facts!Next]_Facts!vars PROVE Whole
<1>0. Facts!TypeOK /\ Facts!CallInv
  BY DEF Facts!IInv
<1>1. ASSUME Facts!StoreFact \/ Facts!StoreUnresolved PROVE Whole
  <2>1. /\ pc = "write" /\ call.fact \in Fact /\ call.text \in FactText
        /\ call.applied => call.text \subseteq known
    BY <1>0, <1>1 DEF Facts!StoreFact, Facts!StoreUnresolved, Facts!CallInv
  <2>2. QED
    BY <1>0, <1>1, <2>1, StoredWhole, RemovedWhole, KeptWhole
       DEF Facts!StoreFact, Facts!StoreUnresolved
<1>2. ASSUME NEW f \in Fact, Facts!PassStores(f) \/ Facts!PassAborts(f) \/ Facts!PassUnresolved(f) PROVE Whole
  <2>1. f \in call.queue /\ pc = "pass"
    BY <1>2 DEF Facts!PassStores, Facts!PassAborts, Facts!PassUnresolved
  <2>2. call.corpus[f] \in FactText /\ call.corpus[f] \subseteq known
    BY <1>0, <2>1, QueueFacts DEF Facts!CallInv
  <2>3. QED
    BY <1>0, <1>2, <2>2, StoredWhole, RemovedWhole, KeptWhole
       DEF Facts!PassStores, Facts!PassAborts, Facts!PassUnresolved
<1>3. ASSUME Facts!DeletePoint \/ Facts!DeleteFails PROVE Whole
  <2>1. {call.fact} \in SUBSET Fact
    BY <1>0, <1>3 DEF Facts!DeletePoint, Facts!DeleteFails, Facts!CallInv
  <2>2. QED
    BY <1>0, <1>3, <2>1, RemovedWhole, KeptWhole DEF Facts!DeletePoint, Facts!DeleteFails
<1>4. ASSUME Facts!Wipe \/ Facts!WipeUnanswered PROVE Whole
  BY <1>0, <1>4, RemovedWhole DEF Facts!Wipe, Facts!WipeUnanswered
<1>5. CASE UNCHANGED Facts!points
  BY <1>5, KeptWhole
<1>6. CASE Facts!Indexing
  BY <1>1, <1>5, <1>6
     DEF Facts!Indexing, Facts!IndexFact, Facts!Rebuild, Facts!ReadPrevious, Facts!ReadFails,
         Facts!UpdateVocabulary, Facts!StoreFails, Facts!Revert
<1>7. CASE Facts!Deletion
  BY <1>3, <1>5, <1>7 DEF Facts!Deletion, Facts!DeleteFact, Facts!Recall, Facts!RetireFact,
                          Facts!points
<1>8. CASE Facts!Pass
  BY <1>2, <1>4, <1>5, <1>8
     DEF Facts!Pass, Facts!IndexAll, Facts!Scan, Facts!CorpusFails, Facts!RegisterAll,
         Facts!RegisterFails, Facts!PassSkips, Facts!PassEnds,
         Facts!RetireUnwritten
<1>9. CASE Facts!Die \/ UNCHANGED Facts!vars
  BY <1>5, <1>9 DEF Facts!Die, Facts!vars
<1>10. QED
  BY <1>6, <1>7, <1>8, <1>9 DEF Facts!Next

(* A fact whose terms were registered is never stored with a vector that   *)
(* lacks some of them, and the dropping of unknown terms in                *)
(* vectorize_document is never seen: for every corpus and every failure.   *)
THEOREM VectorSafety ==
  ASSUME Facts!FactIndexAssumption
  PROVE  Facts!Spec => Facts!VectorsAreWhole
<1>1. Facts!IInv /\ [Facts!Next]_Facts!vars => [Whole]_Facts!vars
  BY StepWhole
<1>2. QED
  BY <1>1, FactsInductive, PTL DEF Facts!Spec, Facts!VectorsAreWhole, Whole

(* However many calls failed, were cancelled or died, and wherever: unless *)
(* one of the two stores missed a write or a pass could not read the       *)
(* points, the vocabulary counts exactly the stored facts between calls;   *)
(* facts are stored with all of their terms; and a force pass that ran to  *)
(* its end shows searches only what the store has.                         *)
THEOREM FactSafety ==
  ASSUME Facts!FactIndexAssumption
  PROVE  Facts!Spec => FactsAreCounted
<1>1. Facts!IInv => Facts!TypeOK /\ Facts!ContributionIsExact /\ Facts!ForceShowsTheStore
  <2> SUFFICES ASSUME Facts!IInv PROVE Facts!TypeOK /\ Facts!ContributionIsExact /\ Facts!ForceShowsTheStore
    OBVIOUS
  <2>1. Facts!ContributionIsExact
    BY DEF Facts!IInv, Facts!CountInv, Facts!ContributionIsExact
  <2>2. Facts!ForceShowsTheStore
    BY DEF Facts!IInv, Facts!CallInv, Facts!ForceShowsTheStore
  <2>3. QED
    BY <2>1, <2>2 DEF Facts!IInv
<1>2. QED
  BY <1>1, FactsInductive, VectorSafety, PTL DEF FactsAreCounted, Facts!FactsAreCounted

-----------------------------------------------------------------------------
(* The tools of the glossary: GlossaryIndex, where `op` is called `tool`   *)
(* and `faults` `failures`.                                                *)

\* The step that the holder of the lock is at says which tool it is.
LEMMA ToolFacts ==
  ASSUME Glossary!TypeOK, NEW c \in Client
  PROVE  /\ lock = c <=> tool[c].kind # "idle" /\ tool[c].step # "wait"
         /\ lock = c => tool[c].kind \in {"add", "update", "delete", "all"}
         /\ lock = c /\ tool[c].step \in {"store", "register", "put"} =>
              tool[c] \in [kind : {"add", "update"}, step : {"wait", "store", "register", "put"},
                           id : Id, text : EntryText]
         /\ lock = c /\ tool[c].step \in {"unindex", "remove"} =>
              tool[c] \in [kind : {"delete"}, step : {"wait", "unindex", "remove"},
                           id : Id, text : {None}]
         /\ lock = c /\ tool[c].step \in {"collect", "all"} =>
              tool[c] \in [kind : {"all"}, step : {"wait", "collect", "all"},
                           snapshot : Glossary!Contents, left : SUBSET Id]
<1>1. tool[c] \in Glossary!Operation /\ (lock = c <=> tool[c] # Glossary!Idle /\ tool[c].step # "wait")
  BY DEF Glossary!TypeOK
<1>2. tool[c] # Glossary!Idle <=> tool[c].kind # "idle"
  BY <1>1 DEF Glossary!Operation, Glossary!Idle
<1>3. QED
  BY <1>1, <1>2 DEF Glossary!Operation, Glossary!Idle

\* What is on its way is the holder's.
LEMMA OnItsWay ==
  ASSUME Glossary!GlossaryIndexAssumption, NEW i
  PROVE  /\ lock = None => ~Glossary!Unwritten(i) /\ ~Glossary!Uncounted(i)
         /\ \A c \in Client : lock = c =>
              /\ Glossary!Unwritten(i) <=> tool[c].step \in {"register", "put", "remove"} /\ tool[c].id = i
              /\ Glossary!Uncounted(i) <=> tool[c].step = "register" /\ tool[c].id = i
BY DEF Glossary!GlossaryIndexAssumption, Glossary!Unwritten, Glossary!Uncounted

\* A tool begins, and waits for the lock.
LEMMA BeginStep ==
  ASSUME Glossary!GlossaryIndexAssumption, Glossary!IInv, NEW c \in Client, NEW o \in Glossary!Operation,
         o.kind # "idle", o.step = "wait", Glossary!Begin(c, o)
  PROVE  Glossary!IInv'
<1>1. /\ Glossary!TypeOK /\ UNCHANGED <<store, points, vocabulary, lock, stale, failures>>
      /\ tool[c] = Glossary!Idle /\ tool' = [tool EXCEPT ![c] = o]
  BY DEF Glossary!IInv, Glossary!Begin
<1>2. lock # c /\ o # Glossary!Idle
  BY <1>1 DEF Glossary!TypeOK, Glossary!Idle
<1>3. \A d \in Client : lock = d => tool'[d] = tool[d]
  BY <1>1, <1>2 DEF Glossary!TypeOK
<1>4. Glossary!TypeOK'
  <2>1. tool' \in [Client -> Glossary!Operation]
    BY <1>1 DEF Glossary!TypeOK
  <2>2. \A d \in Client : lock' = d <=> tool'[d] # Glossary!Idle /\ tool'[d].step # "wait"
    BY <1>1, <1>2 DEF Glossary!TypeOK
  <2>3. QED
    BY <1>1, <2>1, <2>2 DEF Glossary!TypeOK
<1>5. \A i : Glossary!Unwritten(i)' = Glossary!Unwritten(i) /\ Glossary!Uncounted(i)' = Glossary!Uncounted(i)
  BY <1>1, <1>3 DEF Glossary!Unwritten, Glossary!Uncounted
<1>6. \A d \in Client : lock' = d => Glossary!StepOK(d)'
  BY <1>1, <1>3 DEF Glossary!IInv, Glossary!StepOK
<1>7. QED
  BY <1>1, <1>4, <1>5, <1>6 DEF Glossary!IInv, Glossary!Entries

LEMMA AcquireStep ==
  ASSUME Glossary!GlossaryIndexAssumption, Glossary!IInv, NEW c \in Client, Glossary!Acquire(c)
  PROVE  Glossary!IInv'
<1>1. /\ Glossary!TypeOK /\ UNCHANGED <<store, points, vocabulary, stale, failures>>
      /\ lock = None /\ lock' = c /\ c # None /\ tool[c] \in Glossary!Operation
      /\ tool[c].step = "wait" /\ tool[c] # Glossary!Idle
  BY DEF Glossary!IInv, Glossary!Acquire, Glossary!TypeOK, Glossary!GlossaryIndexAssumption
<1> DEFINE s == CASE tool[c].kind = "delete" -> "unindex"
                  [] tool[c].kind = "all" -> "collect"
                  [] OTHER -> "store"
           o == [tool[c] EXCEPT !.step = s]
<1>2. /\ o \in Glossary!Operation /\ o # Glossary!Idle /\ o.step \in {"unindex", "collect", "store"}
  BY <1>1 DEF Glossary!Operation, Glossary!Idle
<1>3. tool' = [tool EXCEPT ![c] = o]
  BY DEF Glossary!Acquire
<1> HIDE DEF o
<1>4. tool'[c] = o /\ \A d \in Client \ {c} : tool'[d] = tool[d]
  BY <1>1, <1>3 DEF Glossary!TypeOK
<1>5. Glossary!TypeOK'
  <2>1. tool' \in [Client -> Glossary!Operation]
    BY <1>1, <1>2, <1>3 DEF Glossary!TypeOK
  <2>2. \A d \in Client : lock' = d <=> tool'[d] # Glossary!Idle /\ tool'[d].step # "wait"
    BY <1>1, <1>2, <1>4 DEF Glossary!TypeOK, Glossary!GlossaryIndexAssumption
  <2>3. QED
    BY <1>1, <2>1, <2>2 DEF Glossary!TypeOK
<1>6. \A i : ~Glossary!Unwritten(i)' /\ ~Glossary!Uncounted(i)'
  BY <1>1, <1>2, <1>4 DEF Glossary!Unwritten, Glossary!Uncounted
<1>7. \A d \in Client : lock' = d => Glossary!StepOK(d)'
  BY <1>1, <1>2, <1>4 DEF Glossary!StepOK
<1>8. \A i : ~Glossary!Unwritten(i) /\ ~Glossary!Uncounted(i)
  BY <1>1, OnItsWay
<1>9. QED
  BY <1>1, <1>5, <1>6, <1>7, <1>8 DEF Glossary!IInv, Glossary!Entries

\* The holder goes on to a step o, with what it has changed.
LEMMA HolderStep ==
  ASSUME Glossary!GlossaryIndexAssumption, Glossary!TypeOK, NEW c \in Client, lock = c, lock' = c,
         NEW o \in Glossary!Operation, o # Glossary!Idle, o.step # "wait", tool' = [tool EXCEPT ![c] = o],
         store' \in Glossary!Contents, points' \in Glossary!Contents, vocabulary' \in Glossary!Contents,
         UNCHANGED <<stale, failures>>,
         \A i \in Id : store'[i] = None => points'[i] = None,
         \A i \in Id \ stale : \/ o.step \in {"register", "put", "remove"} /\ o.id = i
                               \/ points'[i] = store'[i],
         \A i \in Id \ stale : \/ o.step = "register" /\ o.id = i
                               \/ store'[i] = None \/ vocabulary'[i] = store'[i],
         o.step = "put" => vocabulary' = store',
         o.step = "remove" => points'[o.id] = None,
         o.step = "all" => /\ o.snapshot = store' /\ vocabulary' = store'
                           /\ \A i \in Id \ o.left : points'[i] = store'[i]
  PROVE  Glossary!IInv'
<1>1. tool'[c] = o /\ \A d \in Client \ {c} : tool'[d] = tool[d]
  BY DEF Glossary!TypeOK
<1>2. Glossary!TypeOK'
  <2>1. tool' \in [Client -> Glossary!Operation]
    BY DEF Glossary!TypeOK
  <2>2. \A d \in Client : lock' = d <=> tool'[d] # Glossary!Idle /\ tool'[d].step # "wait"
    BY <1>1 DEF Glossary!TypeOK
  <2>3. QED
    BY <2>1, <2>2 DEF Glossary!TypeOK
<1>3. \A i : /\ Glossary!Unwritten(i)' <=> o.step \in {"register", "put", "remove"} /\ o.id = i
             /\ Glossary!Uncounted(i)' <=> o.step = "register" /\ o.id = i
  BY <1>1 DEF Glossary!Unwritten, Glossary!Uncounted
<1>4. \A d \in Client : lock' = d => Glossary!StepOK(d)'
  BY <1>1 DEF Glossary!StepOK
<1>5. \A i \in Id \ stale : store'[i] # None /\ ~Glossary!Uncounted(i)' => vocabulary'[i] = store'[i]
  BY <1>3
<1>6. \A i \in Id \ stale : ~Glossary!Unwritten(i)' => points'[i] = store'[i]
  BY <1>3
<1>7. QED
  BY <1>2, <1>4, <1>5, <1>6 DEF Glossary!IInv, Glossary!Entries

\* The holder gives the lock up.
LEMMA EndStep ==
  ASSUME Glossary!GlossaryIndexAssumption, Glossary!TypeOK, NEW c \in Client, lock = c, lock' = None,
         tool' = [tool EXCEPT ![c] = Glossary!Idle], stale' \subseteq Id, failures' \in 0 .. MaxFaults,
         store' \in Glossary!Contents, points' \in Glossary!Contents, vocabulary' \in Glossary!Contents,
         \A i \in Id : store'[i] = None => points'[i] = None,
         \A i \in Id \ stale' : points'[i] = store'[i] /\ (store'[i] = None \/ vocabulary'[i] = store'[i])
  PROVE  Glossary!IInv'
<1>1. tool'[c] = Glossary!Idle /\ Glossary!Idle \in Glossary!Operation /\ \A d \in Client \ {c} : tool'[d] = tool[d]
  BY DEF Glossary!TypeOK, Glossary!Operation
<1>2. Glossary!TypeOK'
  <2>1. tool' \in [Client -> Glossary!Operation]
    BY <1>1 DEF Glossary!TypeOK
  <2>2. \A d \in Client : lock' = d <=> tool'[d] # Glossary!Idle /\ tool'[d].step # "wait"
    BY <1>1 DEF Glossary!TypeOK, Glossary!GlossaryIndexAssumption
  <2>3. QED
    BY <2>1, <2>2 DEF Glossary!TypeOK
<1>3. \A d \in Client : lock' # d
  BY DEF Glossary!GlossaryIndexAssumption
<1>4. QED
  BY <1>2, <1>3 DEF Glossary!IInv, Glossary!Entries

LEMMA BeginnersStep ==
  ASSUME Glossary!GlossaryIndexAssumption, Glossary!IInv, NEW c \in Client,
         Glossary!Add(c) \/ Glossary!Update(c) \/ Glossary!Delete(c) \/ Glossary!IndexAll(c)
  PROVE  Glossary!IInv'
<1>0. store \in Glossary!Contents /\ Glossary!Entries \subseteq Id
  BY DEF Glossary!IInv, Glossary!TypeOK, Glossary!Entries
<1>1. ASSUME NEW i \in Id, NEW x \in EntryText, NEW kind \in {"add", "update"},
             Glossary!Begin(c, [kind |-> kind, step |-> "wait", id |-> i, text |-> x])
      PROVE  Glossary!IInv'
  <2> DEFINE o == [kind |-> kind, step |-> "wait", id |-> i, text |-> x]
  <2>1. o \in Glossary!Operation /\ o.kind # "idle" /\ o.step = "wait"
    BY DEF Glossary!Operation
  <2>2. Glossary!Begin(c, o)
    BY <1>1
  <2> HIDE DEF o
  <2>3. QED
    BY <2>1, <2>2, BeginStep
<1>2. ASSUME NEW i \in Id, Glossary!Begin(c, [kind |-> "delete", step |-> "wait", id |-> i, text |-> None])
      PROVE  Glossary!IInv'
  <2> DEFINE o == [kind |-> "delete", step |-> "wait", id |-> i, text |-> None]
  <2>1. o \in Glossary!Operation /\ o.kind # "idle" /\ o.step = "wait"
    BY DEF Glossary!Operation
  <2>2. Glossary!Begin(c, o)
    BY <1>2
  <2> HIDE DEF o
  <2>3. QED
    BY <2>1, <2>2, BeginStep
<1>3. ASSUME Glossary!IndexAll(c) PROVE Glossary!IInv'
  <2> DEFINE o == [kind |-> "all", step |-> "wait", snapshot |-> store, left |-> Glossary!Entries]
  <2>1. o \in Glossary!Operation /\ o.kind # "idle" /\ o.step = "wait"
    BY <1>0 DEF Glossary!Operation
  <2>2. Glossary!Begin(c, o)
    BY <1>3 DEF Glossary!IndexAll
  <2> HIDE DEF o
  <2>3. QED
    BY <2>1, <2>2, BeginStep
<1>4. QED
  BY <1>0, <1>1, <1>2, <1>3 DEF Glossary!Add, Glossary!Update, Glossary!Delete

\* What holds of the state before a step of the holder.
LEMMA HolderFacts ==
  ASSUME Glossary!GlossaryIndexAssumption, Glossary!IInv, NEW c \in Client, lock = c
  PROVE  /\ Glossary!TypeOK /\ tool[c] \in Glossary!Operation
         /\ store \in Glossary!Contents /\ points \in Glossary!Contents /\ vocabulary \in Glossary!Contents
         /\ stale \subseteq Id /\ failures \in 0 .. MaxFaults
         /\ \A i \in Id : store[i] = None => points[i] = None
         /\ \A i \in Id \ stale : \/ tool[c].step \in {"register", "put", "remove"} /\ tool[c].id = i
                                  \/ points[i] = store[i]
         /\ \A i \in Id \ stale : \/ tool[c].step = "register" /\ tool[c].id = i
                                  \/ store[i] = None \/ vocabulary[i] = store[i]
         /\ Glossary!StepOK(c)
<1>1. /\ Glossary!TypeOK /\ \A i \in Id : store[i] = None => points[i] = None
      /\ \A i \in Id \ stale : ~Glossary!Unwritten(i) => points[i] = store[i]
      /\ \A i \in Id \ stale : store[i] # None /\ ~Glossary!Uncounted(i) => vocabulary[i] = store[i]
      /\ Glossary!StepOK(c)
  BY DEF Glossary!IInv, Glossary!Entries
<1>2. QED
  BY <1>1, OnItsWay DEF Glossary!TypeOK

LEMMA WriteStep ==
  ASSUME Glossary!GlossaryIndexAssumption, Glossary!IInv, NEW c \in Client, Glossary!Write(c)
  PROVE  Glossary!IInv'
<1>1. /\ lock = c /\ tool[c].step = "store" /\ UNCHANGED <<points, vocabulary, failures>>
      /\ tool[c] \in [kind : {"add", "update"}, step : {"wait", "store", "register", "put"},
                      id : Id, text : EntryText]
  BY HolderFacts, ToolFacts DEF Glossary!Write, Glossary!At
<1>2. CASE tool[c].kind = "add" \/ tool[c].id \in Glossary!Entries
  <2> DEFINE o == [tool[c] EXCEPT !.step = "register"]
  <2>1. o \in Glossary!Operation /\ o.kind # "idle" /\ o.step = "register" /\ o.id = tool[c].id /\ o.id \in Id
    BY <1>1 DEF Glossary!Operation
  <2>2. /\ store' = [store EXCEPT ![o.id] = tool[c].text] /\ tool' = [tool EXCEPT ![c] = o]
        /\ UNCHANGED <<lock, stale>>
    BY <1>1, <1>2 DEF Glossary!Write, Glossary!Goto
  <2> HIDE DEF o
  <2>3. tool[c].text \in EntryText /\ tool[c].text # None
    BY <1>1 DEF Glossary!GlossaryIndexAssumption
  <2>4. store' \in Glossary!Contents /\ store'[o.id] # None /\ \A i \in Id \ {o.id} : store'[i] = store[i]
    BY <1>1, <2>1, <2>2, <2>3, HolderFacts DEF Glossary!Contents
  <2>5. o # Glossary!Idle
    BY <2>1 DEF Glossary!Idle
  <2>6. /\ \A i \in Id : store'[i] = None => points'[i] = None
        /\ \A i \in Id \ stale : o.id = i \/ points'[i] = store'[i]
        /\ \A i \in Id \ stale : o.id = i \/ store'[i] = None \/ vocabulary'[i] = store'[i]
    BY <1>1, <2>4, HolderFacts
  <2>7. points' \in Glossary!Contents /\ vocabulary' \in Glossary!Contents /\ Glossary!TypeOK
    BY <1>1, HolderFacts
  <2>8. QED
    BY <1>1, <2>1, <2>2, <2>4, <2>5, <2>6, <2>7, HolderStep
<1>3. CASE ~(tool[c].kind = "add" \/ tool[c].id \in Glossary!Entries)
  <2>1. /\ UNCHANGED store /\ lock' = None /\ tool' = [tool EXCEPT ![c] = Glossary!Idle] /\ stale' = stale
    BY <1>3 DEF Glossary!Write, Glossary!Return
  <2>2. QED
    BY <1>1, <2>1, HolderFacts, EndStep
<1>4. QED
  BY <1>2, <1>3

LEMMA ToolsRegisterStep ==
  ASSUME Glossary!GlossaryIndexAssumption, Glossary!IInv, NEW c \in Client, Glossary!Register(c)
  PROVE  Glossary!IInv'
<1>1. /\ lock = c /\ tool[c].step = "register" /\ UNCHANGED <<store, points, stale, failures, lock>>
      /\ vocabulary' = store
      /\ tool[c] \in [kind : {"add", "update"}, step : {"wait", "store", "register", "put"},
                      id : Id, text : EntryText]
  BY HolderFacts, ToolFacts DEF Glossary!Register, Glossary!At, Glossary!Goto
<1> DEFINE o == [tool[c] EXCEPT !.step = "put"]
<1>2. o \in Glossary!Operation /\ o.kind # "idle" /\ o.step = "put" /\ o.id = tool[c].id
  BY <1>1 DEF Glossary!Operation
<1>3. tool' = [tool EXCEPT ![c] = o]
  BY DEF Glossary!Register, Glossary!Goto
<1> HIDE DEF o
<1>4. o # Glossary!Idle
  BY <1>2 DEF Glossary!Idle
<1>5. QED
  BY <1>1, <1>2, <1>3, <1>4, HolderFacts, HolderStep

LEMMA PutStep ==
  ASSUME Glossary!GlossaryIndexAssumption, Glossary!IInv, NEW c \in Client, Glossary!Put(c)
  PROVE  Glossary!IInv'
<1>1. /\ lock = c /\ tool[c].step = "put" /\ UNCHANGED <<store, vocabulary, failures>> /\ lock' = None
      /\ tool' = [tool EXCEPT ![c] = Glossary!Idle] /\ stale' = stale \ {tool[c].id} /\ tool[c].id \in Id
      /\ points' = [points EXCEPT ![tool[c].id] = store[tool[c].id]]
  BY HolderFacts, ToolFacts DEF Glossary!Put, Glossary!At, Glossary!Return
<1>2. vocabulary = store
  BY <1>1, HolderFacts DEF Glossary!StepOK
<1>3. /\ points' \in Glossary!Contents /\ points'[tool[c].id] = store[tool[c].id]
      /\ \A i \in Id \ {tool[c].id} : points'[i] = points[i]
  BY <1>1, HolderFacts DEF Glossary!Contents
<1>4. \A i \in Id \ stale' : points'[i] = store[i]
  BY <1>1, <1>3, HolderFacts
<1>5. \A i \in Id : store[i] = None => points'[i] = None
  BY <1>1, <1>3, HolderFacts
<1>6. QED
  BY <1>1, <1>2, <1>3, <1>4, <1>5, HolderFacts, EndStep

LEMMA UnindexStep ==
  ASSUME Glossary!GlossaryIndexAssumption, Glossary!IInv, NEW c \in Client, Glossary!Unindex(c)
  PROVE  Glossary!IInv'
<1>1. /\ lock = c /\ tool[c].step = "unindex" /\ UNCHANGED <<store, vocabulary, stale, failures, lock>>
      /\ points' = [points EXCEPT ![tool[c].id] = None]
      /\ tool[c] \in [kind : {"delete"}, step : {"wait", "unindex", "remove"}, id : Id, text : {None}]
  BY HolderFacts, ToolFacts DEF Glossary!Unindex, Glossary!At, Glossary!Goto
<1> DEFINE o == [tool[c] EXCEPT !.step = "remove"]
<1>2. o \in Glossary!Operation /\ o.kind # "idle" /\ o.step = "remove" /\ o.id = tool[c].id /\ o.id \in Id
  BY <1>1 DEF Glossary!Operation
<1>3. tool' = [tool EXCEPT ![c] = o]
  BY DEF Glossary!Unindex, Glossary!Goto
<1> HIDE DEF o
<1>4. o # Glossary!Idle
  BY <1>2 DEF Glossary!Idle
<1>5. points' \in Glossary!Contents /\ points'[o.id] = None /\ \A i \in Id \ {o.id} : points'[i] = points[i]
  BY <1>1, <1>2, HolderFacts DEF Glossary!Contents
<1>6. /\ \A i \in Id : store'[i] = None => points'[i] = None
      /\ \A i \in Id \ stale : o.id = i \/ points'[i] = store'[i]
      /\ \A i \in Id \ stale : store'[i] = None \/ vocabulary'[i] = store'[i]
  BY <1>1, <1>5, HolderFacts
<1>7. store' \in Glossary!Contents /\ vocabulary' \in Glossary!Contents /\ Glossary!TypeOK
  BY <1>1, HolderFacts
<1>8. QED
  BY <1>1, <1>2, <1>3, <1>4, <1>5, <1>6, <1>7, HolderStep

LEMMA RemoveStep ==
  ASSUME Glossary!GlossaryIndexAssumption, Glossary!IInv, NEW c \in Client, Glossary!Remove(c)
  PROVE  Glossary!IInv'
<1>1. /\ lock = c /\ tool[c].step = "remove" /\ UNCHANGED <<points, vocabulary, failures>> /\ lock' = None
      /\ tool' = [tool EXCEPT ![c] = Glossary!Idle] /\ stale' = stale \ {tool[c].id} /\ tool[c].id \in Id
      /\ store' = [store EXCEPT ![tool[c].id] = None]
  BY HolderFacts, ToolFacts DEF Glossary!Remove, Glossary!At, Glossary!Return
<1>2. points[tool[c].id] = None
  BY <1>1, HolderFacts DEF Glossary!StepOK
<1>3. /\ store' \in Glossary!Contents /\ store'[tool[c].id] = None
      /\ \A i \in Id \ {tool[c].id} : store'[i] = store[i]
  BY <1>1, HolderFacts DEF Glossary!Contents
<1>4. \A i \in Id \ stale' : points'[i] = store'[i] /\ (store'[i] = None \/ vocabulary'[i] = store'[i])
  BY <1>1, <1>2, <1>3, HolderFacts
<1>5. \A i \in Id : store'[i] = None => points'[i] = None
  BY <1>1, <1>2, <1>3, HolderFacts
<1>6. QED
  BY <1>1, <1>3, <1>4, <1>5, HolderFacts, EndStep

LEMMA CollectStep ==
  ASSUME Glossary!GlossaryIndexAssumption, Glossary!IInv, NEW c \in Client, Glossary!Collect(c)
  PROVE  Glossary!IInv'
<1>1. /\ lock = c /\ tool[c].step = "collect" /\ UNCHANGED <<store, points, failures>>
      /\ tool[c] \in [kind : {"all"}, step : {"wait", "collect", "all"},
                      snapshot : Glossary!Contents, left : SUBSET Id]
  BY HolderFacts, ToolFacts DEF Glossary!Collect, Glossary!At
<1>2. CASE Glossary!Entries = {}
  <2>1. /\ UNCHANGED vocabulary /\ lock' = None /\ tool' = [tool EXCEPT ![c] = Glossary!Idle]
        /\ stale' = stale
    BY <1>2 DEF Glossary!Collect, Glossary!Return
  <2>2. QED
    BY <1>1, <2>1, HolderFacts, EndStep
<1>3. CASE Glossary!Entries # {}
  <2> DEFINE o == [tool[c] EXCEPT !.step = "all", !.snapshot = store, !.left = Glossary!Entries]
  <2>1. Glossary!Entries \in SUBSET Id /\ \A i \in Id \ Glossary!Entries : store[i] = None
    BY DEF Glossary!Entries
  <2>2. /\ o \in Glossary!Operation /\ o.kind # "idle" /\ o.step = "all" /\ o.snapshot = store
        /\ o.left = Glossary!Entries
    BY <1>1, <2>1, HolderFacts DEF Glossary!Operation
  <2>3. vocabulary' = store /\ UNCHANGED <<lock, stale>> /\ tool' = [tool EXCEPT ![c] = o]
    <3>1. tool' = [tool EXCEPT ![c].step = "all", ![c].snapshot = store, ![c].left = Glossary!Entries]
      BY <1>3 DEF Glossary!Collect
    <3>2. tool' = [tool EXCEPT ![c] = o]
      BY <1>1, <3>1, HolderFacts DEF Glossary!TypeOK
    <3>3. QED
      BY <1>3, <3>2 DEF Glossary!Collect
  <2> HIDE DEF o
  <2>4. o # Glossary!Idle
    BY <2>2 DEF Glossary!Idle
  <2>5. QED
    BY <1>1, <2>1, <2>2, <2>3, <2>4, HolderFacts, HolderStep
<1>4. QED
  BY <1>2, <1>3

LEMMA PutNextStep ==
  ASSUME Glossary!GlossaryIndexAssumption, Glossary!IInv, NEW c \in Client, Glossary!PutNext(c)
  PROVE  Glossary!IInv'
<1>1. /\ lock = c /\ tool[c].step = "all" /\ UNCHANGED <<store, vocabulary, lock, stale, failures>>
      /\ tool[c] \in [kind : {"all"}, step : {"wait", "collect", "all"},
                      snapshot : Glossary!Contents, left : SUBSET Id]
  BY HolderFacts, ToolFacts DEF Glossary!PutNext, Glossary!At
<1>2. PICK i \in tool[c].left : /\ points' = [points EXCEPT ![i] = tool[c].snapshot[i]]
                                /\ tool' = [tool EXCEPT ![c].left = @ \ {i}]
  BY DEF Glossary!PutNext
<1>3. /\ tool[c].snapshot = store /\ vocabulary = store
      /\ \A j \in Id \ tool[c].left : points[j] = store[j]
  BY <1>1, HolderFacts DEF Glossary!StepOK
<1> DEFINE o == [tool[c] EXCEPT !.left = @ \ {i}]
<1>4. /\ o \in Glossary!Operation /\ o.kind # "idle" /\ o.step = "all" /\ o.snapshot = store
      /\ o.left = tool[c].left \ {i} /\ i \in Id
  BY <1>1, <1>2, <1>3 DEF Glossary!Operation
<1>5. tool' = [tool EXCEPT ![c] = o]
  BY <1>2
<1> HIDE DEF o
<1>6. o # Glossary!Idle
  BY <1>4 DEF Glossary!Idle
<1>7. points' \in Glossary!Contents /\ points'[i] = store[i] /\ \A j \in Id \ {i} : points'[j] = points[j]
  BY <1>1, <1>2, <1>3, <1>4, HolderFacts DEF Glossary!Contents
<1>8. /\ \A j \in Id : store'[j] = None => points'[j] = None
      /\ \A j \in Id \ stale : points'[j] = store'[j]
      /\ \A j \in Id \ o.left : points'[j] = store'[j]
  BY <1>1, <1>3, <1>4, <1>7, HolderFacts
<1>9. QED
  BY <1>1, <1>3, <1>4, <1>5, <1>6, <1>7, <1>8, HolderFacts, HolderStep

LEMMA EndAllStep ==
  ASSUME Glossary!GlossaryIndexAssumption, Glossary!IInv, NEW c \in Client, Glossary!EndAll(c)
  PROVE  Glossary!IInv'
<1>1. /\ lock = c /\ tool[c].step = "all" /\ tool[c].left = {} /\ UNCHANGED <<store, points, vocabulary, failures>>
      /\ lock' = None /\ tool' = [tool EXCEPT ![c] = Glossary!Idle] /\ stale' = stale \ Id
  BY DEF Glossary!EndAll, Glossary!At, Glossary!Return
<1>2. vocabulary = store /\ \A i \in Id : points[i] = store[i]
  BY <1>1, HolderFacts DEF Glossary!StepOK
<1>3. QED
  BY <1>1, <1>2, HolderFacts, EndStep

LEMMA FailStep ==
  ASSUME Glossary!GlossaryIndexAssumption, Glossary!IInv, NEW c \in Client, Glossary!Fail(c)
  PROVE  Glossary!IInv'
<1>1. /\ lock = c /\ failures < MaxFaults /\ failures' = failures + 1 /\ lock' = None
      /\ tool' = [tool EXCEPT ![c] = Glossary!Idle] /\ UNCHANGED <<store, points, vocabulary>>
      /\ stale' = stale \cup IF tool[c].kind = "all" THEN {} ELSE {tool[c].id}
  BY DEF Glossary!Fail
<1>2. failures' \in 0 .. MaxFaults
  BY <1>1, HolderFacts DEF Glossary!GlossaryIndexAssumption
<1>3. /\ tool[c].kind = "all" => tool[c].step \notin {"register", "put", "remove"}
      /\ tool[c].kind # "all" => tool[c].id \in Id
  <2>1. tool[c] \in Glossary!Operation /\ tool[c].kind # "idle"
    BY <1>1, HolderFacts, ToolFacts
  <2>2. QED
    BY <2>1 DEF Glossary!Operation, Glossary!Idle
<1>4. /\ stale' \subseteq Id
      /\ \A i \in Id \ stale' : points[i] = store[i] /\ (store[i] = None \/ vocabulary[i] = store[i])
  BY <1>1, <1>3, HolderFacts
<1>5. QED
  BY <1>1, <1>2, <1>4, HolderFacts, EndStep

LEMMA ToolsInit ==
  ASSUME Glossary!GlossaryIndexAssumption, Glossary!Init PROVE Glossary!IInv
<1>1. Glossary!Nothing \in Glossary!Contents /\ Glossary!Idle \in Glossary!Operation
  BY DEF Glossary!Nothing, Glossary!Contents, Glossary!Operation
<1>2. \A c \in Client : lock # c
  BY DEF Glossary!Init, Glossary!GlossaryIndexAssumption
<1>3. Glossary!TypeOK
  BY <1>1, <1>2 DEF Glossary!Init, Glossary!TypeOK, Glossary!GlossaryIndexAssumption
<1>4. QED
  BY <1>2, <1>3 DEF Glossary!Init, Glossary!IInv, Glossary!Nothing, Glossary!Entries

LEMMA ToolsStutter ==
  ASSUME Glossary!IInv, UNCHANGED Glossary!vars PROVE Glossary!IInv'
BY DEF Glossary!vars, Glossary!IInv, Glossary!TypeOK, Glossary!Entries, Glossary!StepOK,
       Glossary!Unwritten, Glossary!Uncounted

LEMMA ToolsStep ==
  ASSUME Glossary!GlossaryIndexAssumption, Glossary!IInv, [Glossary!Next]_Glossary!vars PROVE Glossary!IInv'
BY ToolsStutter, BeginnersStep, AcquireStep, WriteStep, ToolsRegisterStep, PutStep, UnindexStep, RemoveStep,
   CollectStep, PutNextStep, EndAllStep, FailStep DEF Glossary!Next

(* Whichever tool holds the lock, wherever one failed or was cancelled:    *)
(* IInv says what of store, vocabulary and points is not written yet.      *)
THEOREM ToolsInductive ==
  ASSUME Glossary!GlossaryIndexAssumption
  PROVE  Glossary!Spec => []Glossary!IInv
<1>1. Glossary!Init => Glossary!IInv
  BY ToolsInit
<1>2. Glossary!IInv /\ [Glossary!Next]_Glossary!vars => Glossary!IInv'
  BY ToolsStep
<1>3. QED
  BY <1>1, <1>2, PTL DEF Glossary!Spec

(* For any number of clients and entries and wherever tools fail: no point *)
(* is left of an entry that is deleted, points and vocabulary are those of *)
(* every entry on which no tool has failed since, and index_all repairs    *)
(* the others.                                                             *)
THEOREM ToolsSafety ==
  ASSUME Glossary!GlossaryIndexAssumption
  PROVE  Glossary!Spec => []GlossaryIsIndexed
<1>1. Glossary!IInv => GlossaryIsIndexed
  <2> SUFFICES ASSUME Glossary!IInv PROVE GlossaryIsIndexed
    OBVIOUS
  <2>1. Glossary!NoOrphanPoints
    BY DEF Glossary!IInv, Glossary!NoOrphanPoints
  <2>2. Glossary!StaleOnlyAfterFailure /\ Glossary!VocabularyCounts
    BY OnItsWay DEF Glossary!IInv, Glossary!StaleOnlyAfterFailure, Glossary!VocabularyCounts,
                    Glossary!Entries
  <2>3. Glossary!IndexAllRepairs
    <3> SUFFICES ASSUME NEW c \in Client, lock = c, tool[c].step = "all", tool[c].left = {}
                 PROVE  points = store /\ vocabulary = store
      BY DEF Glossary!IndexAllRepairs
    <3>1. vocabulary = store /\ \A i \in Id : points[i] = store[i]
      BY DEF Glossary!IInv, Glossary!StepOK
    <3>2. QED
      BY <3>1 DEF Glossary!IInv, Glossary!TypeOK, Glossary!Contents
  <2>4. QED
    BY <2>1, <2>2, <2>3 DEF Glossary!IInv, GlossaryIsIndexed, Glossary!GlossaryIsIndexed
<1>2. QED
  BY <1>1, ToolsInductive, PTL

-----------------------------------------------------------------------------
(* The cache of embeddings: EmbeddingCache, where `entries` is called      *)
(* `rows` and `pc` `at`.                                                   *)

LEMMA SameCardinality ==
  \A S : /\ Embeddings!Cardinality(S) = Cardinality(S)
         /\ Embeddings!IsFiniteSet(S) <=> IsFiniteSet(S)
BY DEF Embeddings!Cardinality, Cardinality, Embeddings!IsFiniteSet, IsFiniteSet

LEMMA LargestOfThree ==
  ASSUME NEW a \in Int, NEW b \in Int
  PROVE  Embeddings!Max({a, b, 1}) \in Int /\ Embeddings!Max({a, b, 1}) >= a
<1>1. \E x \in {a, b, 1} : \A y \in {a, b, 1} : x >= y
  OBVIOUS
<1>2. QED
  BY <1>1 DEF Embeddings!Max

LEMMA SmallerOfTwo ==
  ASSUME NEW a \in Int, NEW b \in Int
  PROVE  Embeddings!Min({a, b}) = IF a <= b THEN a ELSE b
<1>1. \E x \in {a, b} : \A y \in {a, b} : x <= y
  OBVIOUS
<1>2. QED
  BY <1>1 DEF Embeddings!Min

\* Keys are finitely many.
LEMMA KeysAreFinite ==
  ASSUME Embeddings!CacheAssumption, NEW K \in SUBSET Embeddings!Key
  PROVE  IsFiniteSet(K) /\ Cardinality(K) \in Nat
<1>1. IsFiniteSet(Legacy) /\ IsFiniteSet(Current)
  BY SameCardinality DEF Embeddings!CacheAssumption
<1>2. IsFiniteSet(Embeddings!Key)
  BY <1>1, FS_Union DEF Embeddings!Key
<1>3. QED
  BY <1>2, FS_Subset, FS_CardinalityType

\* What an eviction leaves: as many as there may be, current entries while there
\* are legacy ones, and none that is older than one of its table that is gone.
LEMMA WhatRemains ==
  ASSUME Embeddings!CacheAssumption, NEW e, DOMAIN e \subseteq Embeddings!Key, NEW r \in Embeddings!Evicted(e)
  PROVE  /\ DOMAIN r \subseteq DOMAIN e /\ \A k \in DOMAIN r : r[k] = e[k]
         /\ Cardinality(DOMAIN r) <= MaxEntries
         /\ (DOMAIN e \ DOMAIN r) \cap Current # {} => DOMAIN r \cap Legacy = {}
         /\ \A k \in DOMAIN e \ DOMAIN r, l \in DOMAIN r :
              {k, l} \subseteq Current \/ {k, l} \subseteq Legacy => e[k].at <= e[l].at
<1> DEFINE A == DOMAIN e \cap Legacy
           B == DOMAIN e \cap Current
           legacy == [k \in A |-> e[k]]
           current == [k \in B |-> e[k]]
           surplus == Embeddings!Cardinality(DOMAIN e) - MaxEntries
           total == Embeddings!Max({surplus, Slack, 1})
           ofLegacy == Embeddings!Min({Embeddings!Cardinality(DOMAIN legacy), total})
           ofCurrent == Embeddings!Min({Embeddings!Cardinality(DOMAIN current), total - ofLegacy})
           Oldest(K) == /\ Embeddings!IsOldest(legacy, K \cap Legacy, ofLegacy)
                        /\ Embeddings!IsOldest(current, K \cap Current, ofCurrent)
<1>1. /\ IsFiniteSet(A) /\ IsFiniteSet(B) /\ A \cap B = {} /\ A \cup B = DOMAIN e
      /\ Cardinality(A) \in Nat /\ Cardinality(B) \in Nat /\ Cardinality(DOMAIN e) \in Nat
  BY KeysAreFinite DEF Embeddings!Key, Embeddings!CacheAssumption
<1>2. Cardinality(DOMAIN e) = Cardinality(A) + Cardinality(B)
  BY <1>1, FS_Union, FS_EmptySet
<1>3. /\ MaxEntries \in Nat /\ Slack \in Nat /\ surplus = Cardinality(DOMAIN e) - MaxEntries
      /\ surplus \in Int
  BY <1>1, SameCardinality DEF Embeddings!CacheAssumption
<1>10. r \in IF surplus <= 0 THEN {e} ELSE {Embeddings!Without(e, K) : K \in {K \in SUBSET DOMAIN e : Oldest(K)}}
  BY Zenon DEF Embeddings!Evicted
<1>11. DOMAIN legacy = A /\ DOMAIN current = B
  OBVIOUS
<1> HIDE DEF surplus
<1>4. CASE surplus <= 0
  <2>1. r = e
    BY <1>4, <1>10
  <2>2. QED
    BY <2>1, <1>1, <1>3, <1>4
<1>5. CASE ~(surplus <= 0)
  <2>1. total \in Int /\ total >= surplus
    BY <1>3, LargestOfThree
  <2>4. PICK K \in SUBSET A, L \in SUBSET B :
          /\ Embeddings!IsOldest(legacy, K, ofLegacy) /\ Embeddings!IsOldest(current, L, ofCurrent)
          /\ r = Embeddings!Without(e, K \cup L)
    <3> HIDE DEF Oldest
    <3>1. PICK M \in SUBSET DOMAIN e : Oldest(M) /\ r = Embeddings!Without(e, M)
      BY <1>10, <1>5
    <3> USE DEF Oldest
    <3>2. M = (M \cap Legacy) \cup (M \cap Current)
      BY DEF Embeddings!Key
    <3>3. M \cap Legacy \subseteq A /\ M \cap Current \subseteq B
      OBVIOUS
    <3> HIDE DEF A, B, total, ofLegacy, ofCurrent, legacy, current
    <3>4. QED
      BY <3>1, <3>2, <3>3
  <2> HIDE DEF total
  <2>2. ofLegacy = IF Cardinality(A) <= total THEN Cardinality(A) ELSE total
    <3>1. \A a \in Int, b \in Int : Embeddings!Min({a, b}) = IF a <= b THEN a ELSE b
      BY SmallerOfTwo
    <3>2. ofLegacy = Embeddings!Min({Cardinality(A), total})
      BY <1>11, SameCardinality
    <3> HIDE DEF A, ofLegacy
    <3>3. QED
      BY <3>1, <3>2, <2>1, <1>1
  <2> HIDE DEF ofLegacy
  <2>3. ofCurrent = IF Cardinality(B) <= total - ofLegacy THEN Cardinality(B) ELSE total - ofLegacy
    <3>1. \A a \in Int, b \in Int : Embeddings!Min({a, b}) = IF a <= b THEN a ELSE b
      BY SmallerOfTwo
    <3>2. ofCurrent = Embeddings!Min({Cardinality(B), total - ofLegacy})
      BY <1>11, SameCardinality
    <3> HIDE DEF B, ofCurrent
    <3>3. total - ofLegacy \in Int
      BY <2>1, <2>2, <1>1
    <3>4. QED
      BY <3>1, <3>2, <3>3, <1>1
  <2> HIDE DEF ofCurrent
  <2>5. DOMAIN r = DOMAIN e \ (K \cup L) /\ \A k \in DOMAIN r : r[k] = e[k]
    BY <2>4 DEF Embeddings!Without
  <2>6. Cardinality(K) = ofLegacy /\ Cardinality(L) = ofCurrent
    BY <2>4, SameCardinality DEF Embeddings!IsOldest
  <2>7. Cardinality(DOMAIN r) = Cardinality(DOMAIN e) - (ofLegacy + ofCurrent)
    <3>1. K \cap L = {} /\ K \cup L \subseteq DOMAIN e /\ IsFiniteSet(K) /\ IsFiniteSet(L)
      BY <1>1, <2>4, FS_Subset
    <3>2. Cardinality(K \cup L) = ofLegacy + ofCurrent /\ IsFiniteSet(K \cup L)
      <4>1. /\ Cardinality(K \cup L) = Cardinality(K) + Cardinality(L) - Cardinality(K \cap L)
            /\ IsFiniteSet(K \cup L)
        BY <3>1, FS_Union
      <4>2. Cardinality(K \cap L) = 0 /\ Cardinality(K) \in Nat /\ Cardinality(L) \in Nat
        BY <3>1, FS_EmptySet, FS_CardinalityType
      <4>3. QED
        BY <4>1, <4>2, <2>6
    <3>3. IsFiniteSet(DOMAIN e) /\ DOMAIN e \cap (K \cup L) = K \cup L
      BY <3>1, KeysAreFinite
    <3>4. QED
      BY <3>2, <3>3, <2>5, FS_Difference
  <2>8. Cardinality(DOMAIN r) <= MaxEntries
    BY <2>1, <2>2, <2>3, <2>7, <1>1, <1>2, <1>3
  <2>9. L # {} => K = A
    <3>1. SUFFICES ASSUME L # {} PROVE K = A
      OBVIOUS
    <3>2. ofCurrent # 0
      BY <3>1, <2>6, <1>1, <2>4, FS_Subset, FS_EmptySet
    <3>3. Cardinality(K) = Cardinality(A)
      BY <3>2, <2>1, <2>2, <2>3, <2>6, <1>1
    <3>4. QED
      BY <3>3, <1>1, <2>4, FS_Subset
  <2>10. ASSUME NEW k \in K \cup L, NEW l \in DOMAIN r,
                {k, l} \subseteq Current \/ {k, l} \subseteq Legacy
         PROVE  e[k].at <= e[l].at
    <3>1. CASE k \in A /\ l \in A
      <4>1. k \in K /\ l \in DOMAIN legacy \ K
        BY <3>1, <2>10, <2>4, <2>5, <1>1
      <4>2. legacy[k].at <= legacy[l].at
        BY <4>1, <2>4 DEF Embeddings!IsOldest
      <4>3. QED
        BY <4>2, <3>1
    <3>2. CASE k \in B /\ l \in B
      <4>1. k \in L /\ l \in DOMAIN current \ L
        BY <3>2, <2>10, <2>4, <2>5, <1>1
      <4>2. current[k].at <= current[l].at
        BY <4>1, <2>4 DEF Embeddings!IsOldest
      <4>3. QED
        BY <4>2, <3>2
    <3>3. k \in DOMAIN e /\ l \in DOMAIN e
      BY <2>10, <2>4, <2>5
    <3>4. QED
      BY <3>1, <3>2, <3>3, <2>10
  <2>11. (DOMAIN e \ DOMAIN r) \cap Current # {} => DOMAIN r \cap Legacy = {}
    <3>1. DOMAIN e \ DOMAIN r = K \cup L /\ K \cap Current = {}
      BY <1>1, <2>4, <2>5 DEF Embeddings!CacheAssumption
    <3>2. QED
      BY <3>1, <2>5, <2>9
  <2>12. QED
    BY <2>5, <2>8, <2>10, <2>11
<1>6. QED
  BY <1>3, <1>4, <1>5

LEMMA FewerEntries ==
  ASSUME Embeddings!CacheAssumption, Embeddings!Keys \subseteq Embeddings!Key, Embeddings!WithinLimit, Embeddings!Keys' \subseteq Embeddings!Keys
  PROVE  Embeddings!WithinLimit'
<1>1. Cardinality(Embeddings!Keys') <= Cardinality(Embeddings!Keys)
  BY KeysAreFinite, FS_Subset
<1>2. Cardinality(Embeddings!Keys) <= MaxEntries /\ MaxEntries \in Nat
  BY SameCardinality DEF Embeddings!WithinLimit, Embeddings!CacheAssumption
<1>3. Cardinality(Embeddings!Keys') \in Nat /\ Cardinality(Embeddings!Keys) \in Nat
  BY KeysAreFinite
<1>4. QED
  BY <1>1, <1>2, <1>3, SameCardinality DEF Embeddings!WithinLimit

LEMMA EmbeddingsInit == ASSUME Embeddings!CacheAssumption, Embeddings!Init PROVE Embeddings!IInv
<1>1. PICK K \in SUBSET Embeddings!Key : /\ Embeddings!Cardinality(K) <= MaxEntries
                              /\ rows \in [K -> [at : {0}, good : BOOLEAN]] /\ written = K
  BY DEF Embeddings!Init
<1>2. Embeddings!Keys = K
  BY <1>1 DEF Embeddings!Keys
<1>3. Embeddings!TypeOK
  BY <1>1, <1>2 DEF Embeddings!Init, Embeddings!TypeOK, Embeddings!CacheAssumption
<1>4. QED
  BY <1>1, <1>2, <1>3 DEF Embeddings!Init, Embeddings!IInv, Embeddings!WithinLimit,
                          Embeddings!ClearedStaysCleared

\* An operation is over.
LEMMA Returned ==
  ASSUME Embeddings!CacheAssumption, Embeddings!IInv, NEW t \in Thread, Embeddings!Return(t)
  PROVE  /\ at' \in [Thread -> {"idle", "set", "get", "upkeep", "drop", "cleared"}]
         /\ now' \in [Thread -> 0 .. MaxTime]
         /\ keys' \in [Thread -> SUBSET Embeddings!Key] /\ bad' \in [Thread -> SUBSET Embeddings!Key]
         /\ \A u \in Thread : bad'[u] \subseteq keys'[u] /\ (bad'[u] # {} => at'[u] \in {"upkeep", "drop"})
BY DEF Embeddings!Return, Embeddings!Goto, Embeddings!IInv, Embeddings!TypeOK,
       Embeddings!CacheAssumption

LEMMA EmbeddingsBegin ==
  ASSUME Embeddings!CacheAssumption, Embeddings!IInv, NEW t \in Thread, Embeddings!Begin(t) PROVE Embeddings!IInv'
<1>1. PICK K \in SUBSET Embeddings!Key, p \in {"set", "get"} :
        keys' = [keys EXCEPT ![t] = K] /\ at' = [at EXCEPT ![t] = p]
  BY DEF Embeddings!Begin, Embeddings!Goto
<1>2. bad[t] = {}
  BY DEF Embeddings!Begin, Embeddings!IInv, Embeddings!TypeOK
<1>3. Embeddings!TypeOK'
  BY <1>1, <1>2 DEF Embeddings!Begin, Embeddings!IInv, Embeddings!TypeOK, Embeddings!Keys,
                    Embeddings!stats
<1>4. QED
  BY <1>1, <1>3 DEF Embeddings!Begin, Embeddings!IInv, Embeddings!WithinLimit,
                    Embeddings!ClearedStaysCleared, Embeddings!Keys

LEMMA EmbeddingsSet ==
  ASSUME Embeddings!CacheAssumption, Embeddings!IInv, NEW t \in Thread, Embeddings!Set(t) PROVE Embeddings!IInv'
<1> DEFINE e == Embeddings!Stored(rows, keys[t], now[t])
<1>1. DOMAIN e = Embeddings!Keys \cup keys[t] /\ keys[t] \subseteq Embeddings!Key /\ DOMAIN e \subseteq Embeddings!Key
  BY DEF Embeddings!Stored, Embeddings!IInv, Embeddings!TypeOK, Embeddings!Keys
<1>2. \A k \in DOMAIN e : e[k] \in [at : 0 .. MaxTime, good : BOOLEAN]
  BY <1>1 DEF Embeddings!Stored, Embeddings!IInv, Embeddings!TypeOK, Embeddings!Keys
<1>3. rows' \in Embeddings!Evicted(e)
  BY DEF Embeddings!Set
<1> HIDE DEF e
<1>4. /\ Embeddings!Keys' \subseteq Embeddings!Keys \cup keys[t] /\ \A k \in Embeddings!Keys' : rows'[k] = e[k]
      /\ Cardinality(Embeddings!Keys') <= MaxEntries
  BY <1>1, <1>3, WhatRemains DEF Embeddings!Keys
<1>5. Embeddings!TypeOK'
  BY <1>1, <1>2, <1>4, Returned DEF Embeddings!Set, Embeddings!IInv, Embeddings!TypeOK,
                                    Embeddings!stats
<1>6. Embeddings!WithinLimit' /\ Embeddings!ClearedStaysCleared'
  BY <1>4, SameCardinality DEF Embeddings!Set, Embeddings!IInv, Embeddings!WithinLimit,
                               Embeddings!ClearedStaysCleared
<1>7. QED
  BY <1>5, <1>6, Returned DEF Embeddings!Set, Embeddings!IInv

LEMMA EmbeddingsGet ==
  ASSUME Embeddings!CacheAssumption, Embeddings!IInv, NEW t \in Thread, Embeddings!GetMany(t) \/ Embeddings!Get(t) PROVE Embeddings!IInv'
<1>1. UNCHANGED <<rows, clock, written>> /\ Embeddings!Keys' = Embeddings!Keys
  BY DEF Embeddings!GetMany, Embeddings!Get, Embeddings!Keys
<1>2. \A K \in SUBSET Embeddings!Key : Embeddings!Cardinality(K) \in Nat
  BY KeysAreFinite, SameCardinality
<1>3. Embeddings!Corrupt(t) \subseteq Embeddings!Found(t) /\ Embeddings!Found(t) \subseteq keys[t] /\ keys[t] \subseteq Embeddings!Key /\ bad[t] = {}
  BY DEF Embeddings!Corrupt, Embeddings!Found, Embeddings!IInv, Embeddings!TypeOK,
         Embeddings!GetMany, Embeddings!Get
<1>4. CASE Embeddings!GetMany(t)
  <2>1. hits' \in Int /\ misses' \in Nat
    BY <1>2, <1>3, <1>4 DEF Embeddings!GetMany, Embeddings!IInv, Embeddings!TypeOK
  <2>2. /\ keys' = [keys EXCEPT ![t] = Embeddings!Found(t)] /\ bad' = [bad EXCEPT ![t] = Embeddings!Corrupt(t)]
        /\ at' = [at EXCEPT ![t] = "upkeep"] /\ UNCHANGED now
    BY <1>4 DEF Embeddings!GetMany, Embeddings!Goto
  <2>3. Embeddings!TypeOK'
    BY <1>1, <1>3, <2>1, <2>2 DEF Embeddings!IInv, Embeddings!TypeOK
  <2>4. QED
    BY <1>1, <1>3, <2>2, <2>3 DEF Embeddings!IInv, Embeddings!WithinLimit,
                                  Embeddings!ClearedStaysCleared
<1>5. CASE Embeddings!Get(t) /\ Embeddings!Found(t) = {}
  <2>1. Embeddings!TypeOK'
    BY <1>1, <1>5, Returned DEF Embeddings!Get, Embeddings!IInv, Embeddings!TypeOK
  <2>2. QED
    BY <1>1, <1>5, <2>1, Returned DEF Embeddings!Get, Embeddings!IInv, Embeddings!WithinLimit,
                                      Embeddings!ClearedStaysCleared
<1>6. CASE Embeddings!Get(t) /\ Embeddings!Found(t) # {}
  <2>1. /\ bad' = [bad EXCEPT ![t] = Embeddings!Corrupt(t)] /\ at' = [at EXCEPT ![t] = "upkeep"]
        /\ UNCHANGED <<now, keys, misses>> /\ hits' = hits + 1
    BY <1>6 DEF Embeddings!Get, Embeddings!Goto
  <2>2. Embeddings!TypeOK'
    BY <1>1, <1>3, <2>1 DEF Embeddings!IInv, Embeddings!TypeOK
  <2>3. QED
    BY <1>1, <1>3, <2>1, <2>2 DEF Embeddings!IInv, Embeddings!WithinLimit,
                                  Embeddings!ClearedStaysCleared
<1>7. QED
  BY <1>4, <1>5, <1>6

\* What is touched is there, and what is dropped is not there any more.
LEMMA EmbeddingsUpkeep ==
  ASSUME Embeddings!CacheAssumption, Embeddings!IInv, NEW t \in Thread, Embeddings!Upkeep(t) \/ Embeddings!Touch(t) \/ Embeddings!Drop(t) PROVE Embeddings!IInv'
<1> DEFINE Row == [at : 0 .. MaxTime, good : BOOLEAN]
<1>1. /\ Embeddings!Keys' \subseteq Embeddings!Keys /\ \A k \in Embeddings!Keys' : rows'[k] \in Row
      /\ UNCHANGED <<clock, written>> /\ hits' \in Int /\ misses' \in Nat
  <2>1. \A k \in Embeddings!Keys : rows[k] \in Row
    BY DEF Embeddings!IInv, Embeddings!TypeOK
  <2>2. ASSUME NEW K PROVE /\ DOMAIN Embeddings!Touched(t, K) = Embeddings!Keys
                           /\ \A k \in Embeddings!Keys : Embeddings!Touched(t, K)[k] \in Row
    BY <2>1 DEF Embeddings!Touched, Embeddings!IInv, Embeddings!TypeOK
  <2>3. CASE Embeddings!Upkeep(t) /\ ~(UNCHANGED rows)
    <3>1. rows' = Embeddings!Without(Embeddings!Touched(t, keys[t] \ bad[t]), bad[t])
      BY <2>3 DEF Embeddings!Upkeep
    <3>2. QED
      BY <2>2, <2>3, <3>1 DEF Embeddings!Upkeep, Embeddings!Without, Embeddings!Keys,
                              Embeddings!stats, Embeddings!IInv, Embeddings!TypeOK
  <2>4. CASE Embeddings!Upkeep(t) /\ UNCHANGED rows
    BY <2>1, <2>4 DEF Embeddings!Upkeep, Embeddings!Keys, Embeddings!stats, Embeddings!IInv,
                      Embeddings!TypeOK
  <2>5. CASE Embeddings!Touch(t)
    BY <2>2, <2>5 DEF Embeddings!Touch, Embeddings!Keys, Embeddings!stats, Embeddings!IInv,
                      Embeddings!TypeOK
  <2>6. CASE Embeddings!Drop(t)
    BY <2>1, <2>6 DEF Embeddings!Drop, Embeddings!Without, Embeddings!Keys, Embeddings!IInv,
                      Embeddings!TypeOK
  <2>7. QED
    BY <2>3, <2>4, <2>5, <2>6
<1>2. Embeddings!WithinLimit' /\ Embeddings!ClearedStaysCleared' /\ Embeddings!Keys \subseteq Embeddings!Key
  BY <1>1, FewerEntries DEF Embeddings!IInv, Embeddings!TypeOK, Embeddings!ClearedStaysCleared
<1>3. CASE Embeddings!Return(t)
  BY <1>1, <1>2, <1>3, Returned DEF Embeddings!IInv, Embeddings!TypeOK
<1>4. CASE Embeddings!Goto(t, "drop") /\ UNCHANGED <<keys, now, bad>>
  BY <1>1, <1>2, <1>4 DEF Embeddings!Goto, Embeddings!IInv, Embeddings!TypeOK
<1>5. QED
  BY <1>3, <1>4 DEF Embeddings!Upkeep, Embeddings!Touch, Embeddings!Drop

LEMMA EmbeddingsClear ==
  ASSUME Embeddings!CacheAssumption, Embeddings!IInv, NEW t \in Thread, Embeddings!Clear(t) \/ Embeddings!ResetStats(t) PROVE Embeddings!IInv'
<1>1. /\ Embeddings!Keys' \subseteq Embeddings!Keys /\ \A k \in Embeddings!Keys' : rows'[k] = rows[k]
      /\ Embeddings!Keys' \subseteq written'
  BY DEF Embeddings!Clear, Embeddings!ResetStats, Embeddings!Without, Embeddings!Keys,
         Embeddings!IInv, Embeddings!ClearedStaysCleared
<1>2. bad[t] = {}
  BY DEF Embeddings!Clear, Embeddings!ResetStats, Embeddings!IInv, Embeddings!TypeOK
<1>3. Embeddings!TypeOK'
  BY <1>1, <1>2 DEF Embeddings!Clear, Embeddings!ResetStats, Embeddings!Goto, Embeddings!stats,
                    Embeddings!IInv, Embeddings!TypeOK
<1>4. Embeddings!WithinLimit'
  BY <1>1, FewerEntries DEF Embeddings!IInv, Embeddings!TypeOK
<1>5. QED
  BY <1>1, <1>3, <1>4 DEF Embeddings!Clear, Embeddings!ResetStats, Embeddings!IInv,
                          Embeddings!ClearedStaysCleared

LEMMA EmbeddingsStep == ASSUME Embeddings!CacheAssumption, Embeddings!IInv, [Embeddings!Next]_Embeddings!vars PROVE Embeddings!IInv'
<1>1. ASSUME Embeddings!Tick PROVE Embeddings!IInv'
  BY <1>1 DEF Embeddings!Tick, Embeddings!stats, Embeddings!IInv, Embeddings!TypeOK, Embeddings!Keys,
              Embeddings!WithinLimit, Embeddings!ClearedStaysCleared, Embeddings!CacheAssumption
<1>2. ASSUME UNCHANGED Embeddings!vars PROVE Embeddings!IInv'
  BY <1>2 DEF Embeddings!vars, Embeddings!stats, Embeddings!IInv, Embeddings!TypeOK, Embeddings!Keys,
              Embeddings!WithinLimit, Embeddings!ClearedStaysCleared
<1>3. QED
  BY <1>1, <1>2, EmbeddingsBegin, EmbeddingsSet, EmbeddingsGet, EmbeddingsUpkeep, EmbeddingsClear
     DEF Embeddings!Next

(* One limit holds for both tables, whoever writes at the same time; what  *)
(* was cleared does not come back with the upkeep of a read; and a write   *)
(* evicts the oldest entries, those of the legacy table first. For any     *)
(* threads, keys and limits.                                               *)
THEOREM EmbeddingSafety ==
  ASSUME Embeddings!CacheAssumption
  PROVE  Embeddings!Spec => EmbeddingsAreKept
<1>1. Embeddings!Init => Embeddings!IInv
  BY EmbeddingsInit
<1>2. Embeddings!IInv /\ [Embeddings!Next]_Embeddings!vars => Embeddings!IInv'
  BY EmbeddingsStep
<1>3. Embeddings!IInv => Embeddings!TypeOK /\ Embeddings!WithinLimit /\ Embeddings!ClearedStaysCleared
  BY DEF Embeddings!IInv
<1> DEFINE Gone(t) == (Embeddings!Keys \cup keys[t]) \ DOMAIN rows'
           At(t, k) == IF k \in keys[t] THEN now[t] ELSE rows[k].at
           InOrder == \A t \in Thread : Embeddings!Set(t) =>
             /\ Gone(t) \cap Current # {} => DOMAIN rows' \cap Legacy = {}
             /\ \A k \in Gone(t), l \in DOMAIN rows' :
                  {k, l} \subseteq Current \/ {k, l} \subseteq Legacy => At(t, k) <= At(t, l)
<1>4. Embeddings!IInv /\ [Embeddings!Next]_Embeddings!vars => [InOrder]_Embeddings!vars
  <2> SUFFICES ASSUME Embeddings!IInv, NEW t \in Thread, Embeddings!Set(t)
               PROVE  /\ Gone(t) \cap Current # {} => DOMAIN rows' \cap Legacy = {}
                      /\ \A k \in Gone(t), l \in DOMAIN rows' :
                           {k, l} \subseteq Current \/ {k, l} \subseteq Legacy => At(t, k) <= At(t, l)
    OBVIOUS
  <2> DEFINE e == Embeddings!Stored(rows, keys[t], now[t])
  <2>1. DOMAIN e = Embeddings!Keys \cup keys[t] /\ DOMAIN e \subseteq Embeddings!Key /\ \A k \in DOMAIN e : e[k].at = At(t, k)
    BY DEF Embeddings!Stored, Embeddings!IInv, Embeddings!TypeOK, Embeddings!Keys
  <2>2. rows' \in Embeddings!Evicted(e)
    BY DEF Embeddings!Set
  <2> HIDE DEF e
  <2>3. QED
    BY <2>1, <2>2, WhatRemains
<1>5. QED
  BY <1>1, <1>2, <1>3, <1>4, PTL 
     DEF Embeddings!Spec, EmbeddingsAreKept, Embeddings!EvictionOrder, InOrder

-----------------------------------------------------------------------------
(* ChangeDetect, over any files, contents and times of files.              *)

LEMMA NoneOrOne ==
  ASSUME NEW f PROVE Walks!Cardinality({}) = 0 /\ Walks!Cardinality({f}) = 1
<1>1. \A S : Walks!Cardinality(S) = Cardinality(S)
  BY DEF Walks!Cardinality, Cardinality
<1>2. QED
  BY <1>1, FS_EmptySet, FS_Singleton

LEMMA WalkInit == ASSUME Walks!ChangeAssumption, Walks!Init PROVE Walks!IInv
<1>1. Walks!DiskOK /\ Walks!IndexOK /\ Walks!ReadingOK /\ Walks!ChangesOK /\ Walks!PassOK
  BY DEF Walks!ChangeAssumption, Walks!Init, Walks!DiskOK, Walks!IndexOK, Walks!ReadingOK, Walks!ChangesOK, Walks!PassOK, Walks!Indexed, Walks!Nothing, Walks!NoChanges
<1>2. Walks!TypeOK
  <2>1. DOMAIN reading = {} /\ Walks!Cardinality({}) = 0
    BY NoneOrOne DEF Walks!Init, Walks!Nothing
  <2>2. QED
    BY <2>1 DEF Walks!Init, Walks!TypeOK, Walks!Indexed, Walks!Nothing, Walks!NoChanges
<1>3. QED
  BY <1>1, <1>2 DEF Walks!IInv

\* What nobody but a writer or the caller of a pass changes.
LEMMA WalkKeeps ==
  ASSUME Walks!ChangeAssumption, Walks!IInv, UNCHANGED <<disk, index, Walks!history>>
  PROVE  /\ Walks!Indexed' = Walks!Indexed
         /\ \A f : Walks!Visible(f)' <=> Walks!Visible(f)
         /\ \A f, e : Walks!Honest(f, e)' <=> Walks!Honest(f, e)
  BY DEF Walks!Indexed, Walks!Visible, Walks!Honest, Walks!Stat, Walks!history

\* Of a file whose entry is honest, other contents mean that it is suspected.
LEMMA OthersAreSuspected ==
  ASSUME Walks!ChangeAssumption, Walks!IInv, NEW f \in (DOMAIN stats \cap Walks!Indexed) \ alike,
         Walks!Visible(f), stats[f] = Walks!Stat(disk[f]), index[f].hash # disk[f].content
  PROVE  f \in Walks!Suspected
<1>1. Walks!Stat(disk[f]) # [mtime |-> index[f].mtime, size |-> index[f].size]
  BY DEF Walks!IInv, Walks!IndexOK, Walks!Honest
<1>2. stats[f].mtime # index[f].mtime \/ stats[f].size # index[f].size
  BY <1>1 DEF Walks!Stat
<1>3. QED
  BY <1>2 DEF Walks!Suspected

LEMMA WalkEdits == ASSUME Walks!ChangeAssumption, Walks!IInv, Walks!Edit PROVE Walks!IInv'
<1> DEFINE D == {Absent} \cup [content : Content, mtime : 0 .. LastTime]
<1>1. PICK f \in File, d \in D :
        /\ disk' = [disk EXCEPT ![f] = d]
        /\ IF d = Absent THEN UNCHANGED Walks!history
           ELSE /\ had' = [had EXCEPT ![f] = @ \cup {Walks!Stat(d)}]
                /\ alike' = IF Walks!Stat(d) \in had[f] THEN alike \cup {f} ELSE alike
  BY DEF Walks!Edit
<1>2. /\ disk \in [File -> D] /\ had \in [File -> SUBSET [mtime : 0 .. LastTime, size : Nat]]
      /\ edits \in Nat /\ errors \in Nat /\ \A g \in File : disk[g] # Absent => Walks!Stat(disk[g]) \in had[g]
  BY DEF Walks!IInv, Walks!DiskOK
<1>3. d # Absent => Walks!Stat(d) \in [mtime : 0 .. LastTime, size : Nat]
  BY DEF Walks!Stat, Walks!ChangeAssumption
<1>12. /\ disk'[f] = d /\ disk' \in [File -> D]
       /\ had' \in [File -> SUBSET [mtime : 0 .. LastTime, size : Nat]] /\ had[f] \subseteq had'[f]
       /\ d # Absent => /\ Walks!Stat(d) \in had'[f]
                        /\ Walks!Stat(d) \in had[f] => f \in alike'
  BY <1>1, <1>2, <1>3 DEF Walks!history
<1>13. \A g \in File \ {f} : /\ disk'[g] = disk[g] /\ had'[g] = had[g]
                             /\ g \in alike' <=> g \in alike
  BY <1>1, <1>2 DEF Walks!history
<1>14. Walks!DiskOK'
  <2>1. \A g \in File : disk'[g] # Absent => Walks!Stat(disk'[g]) \in had'[g]
    BY <1>2, <1>12, <1>13
  <2>2. edits' \in Nat /\ errors' \in Nat
    BY <1>2 DEF Walks!Edit
  <2>3. QED
    BY <1>12, <2>1, <2>2 DEF Walks!DiskOK, Walks!Stat
<1>4. ASSUME NEW g \in File, NEW e, Walks!Honest(g, e) PROVE Walks!Honest(g, e)'
  <2> DEFINE s == [mtime |-> e.mtime, size |-> e.size]
  <2>1. /\ e \in [hash : Content, mtime : 0 .. LastTime, size : Nat] /\ (e.size = 0 \/ s \in had[g])
        /\ g \notin alike /\ Walks!Visible(g) /\ Walks!Stat(disk[g]) = s => disk[g].content = e.hash
    BY <1>4 DEF Walks!Honest
  <2>2. e.size = 0 \/ s \in had'[g]
    BY <1>12, <1>13, <2>1
  <2>3. ASSUME g \notin alike', Walks!Visible(g)', Walks!Stat(disk'[g]) = s PROVE disk'[g].content = e.hash
    <3>1. CASE g = f
      <4>1. d # Absent /\ Size[d.content] > 0 /\ Walks!Stat(d) = s
        BY <1>12, <2>3, <3>1 DEF Walks!Visible
      <4>2. s \notin had[f]
        BY <1>12, <2>3, <3>1, <4>1
      <4>3. Size[d.content] = e.size
        BY <4>1 DEF Walks!Stat
      <4>4. e.size # 0
        BY <4>1, <4>3
      <4>5. QED
        BY <2>1, <3>1, <4>2, <4>4
    <3>2. CASE g # f
      BY <1>13, <2>1, <2>3, <3>2 DEF Walks!Visible
    <3>3. QED
      BY <3>1, <3>2
  <2>4. QED
    BY <2>1, <2>2, <2>3 DEF Walks!Honest, Walks!Stat, Walks!history
<1>5. UNCHANGED <<index, stats, changes, phase, left, reading>> /\ Walks!Indexed' = Walks!Indexed
  BY DEF Walks!Edit, Walks!Indexed
<1>6. Walks!IndexOK'
  <2>1. Walks!Indexed \subseteq File /\ DOMAIN changes.added \subseteq File /\ DOMAIN changes.modified \subseteq File
    BY DEF Walks!Indexed, Walks!IInv, Walks!ChangesOK
  <2>2. \A g \in File : \A e : Walks!Honest(g, e) => Walks!Honest(g, e)'
    BY <1>4
  <2>3. QED
    BY <1>5, <2>1, <2>2 DEF Walks!IInv, Walks!IndexOK, Walks!Honest
<1>7. Walks!ReadingOK'
  <2>1. \A g \in DOMAIN reading : g \in File
    BY DEF Walks!IInv, Walks!ReadingOK, Walks!Nothing
  <2>2. \A g \in File : had[g] \subseteq had'[g]
    BY <1>12, <1>13
  <2>3. QED
    BY <1>5, <2>1, <2>2 DEF Walks!IInv, Walks!ReadingOK, Walks!Stat
<1>8. Walks!ChangesOK'
  BY <1>5 DEF Walks!IInv, Walks!ChangesOK, Walks!New, Walks!NoChanges
<1>9. Walks!PassOK'
  BY DEF Walks!Edit, Walks!PassOK
<1>10. Walks!TypeOK'
  <2>1. \A g \in Walks!Indexed : index[g].hash \in Content /\ index[g].mtime \in 0 .. LastTime
    BY DEF Walks!IInv, Walks!TypeOK
  <2>2. QED
    BY <1>5, <2>1 DEF Walks!IInv, Walks!TypeOK
<1>11. QED
  BY <1>14, <1>6, <1>7, <1>8, <1>9, <1>10 DEF Walks!IInv

LEMMA WalkBegins == ASSUME Walks!ChangeAssumption, Walks!IInv, Walks!Begin PROVE Walks!IInv'
<1>1. reading = Walks!Nothing
  BY DEF Walks!Begin, Walks!IInv, Walks!ReadingOK
<1>2. \A f : Walks!Honest(f, index[f])' <=> Walks!Honest(f, index[f])
  BY DEF Walks!Begin, Walks!Honest, Walks!Stat, Walks!Visible, Walks!history
<1>3. Walks!Indexed' = Walks!Indexed
  BY DEF Walks!Begin, Walks!Indexed
<1>4. Walks!DiskOK' /\ Walks!ReadingOK' /\ Walks!ChangesOK' /\ Walks!PassOK'
  BY <1>1 DEF Walks!Begin, Walks!IInv, Walks!DiskOK, Walks!ReadingOK, Walks!ChangesOK, Walks!PassOK, Walks!NoChanges, Walks!Nothing, Walks!New, Walks!Visible, Walks!Stat, Walks!history
<1>5. Walks!IndexOK'
  BY <1>2, <1>3 DEF Walks!Begin, Walks!IInv, Walks!IndexOK, Walks!NoChanges, Walks!Nothing
<1>6. Walks!TypeOK'
  BY <1>3 DEF Walks!Begin, Walks!IInv, Walks!TypeOK, Walks!NoChanges, Walks!Nothing
<1>7. QED
  BY <1>4, <1>5, <1>6 DEF Walks!IInv

LEMMA WalkScans == ASSUME Walks!ChangeAssumption, Walks!IInv, NEW f \in File, Walks!Scan(f) PROVE Walks!IInv'
<1>1. /\ UNCHANGED <<Walks!history, disk, index, phase, reading, changes, quiet>>
      /\ phase = "scan" /\ f \in left /\ left' = left \ {f}
      /\ reading = Walks!Nothing /\ changes = Walks!NoChanges
  BY DEF Walks!Scan, Walks!IInv, Walks!ReadingOK, Walks!ChangesOK
<1>2. /\ Walks!Indexed' = Walks!Indexed
      /\ \A g : Walks!Visible(g)' <=> Walks!Visible(g)
      /\ \A g, e : Walks!Honest(g, e)' <=> Walks!Honest(g, e)
  BY <1>1, WalkKeeps
<1>3. Walks!DiskOK'
  BY DEF Walks!Scan, Walks!PassOver, Walks!IInv, Walks!DiskOK, Walks!Stat, Walks!history
<1>4. Walks!IndexOK' /\ Walks!ReadingOK'
  BY <1>1, <1>2 DEF Walks!IInv, Walks!IndexOK, Walks!ReadingOK, Walks!Stat, Walks!history
<1>5. Walks!ChangesOK'
  BY <1>1, <1>2 DEF Walks!IInv, Walks!ChangesOK, Walks!NoChanges, Walks!Nothing, Walks!New
<1>6. Walks!TypeOK'
  <2>1. DOMAIN stats' \subseteq File
    BY DEF Walks!Scan, Walks!Extended, Walks!IInv, Walks!TypeOK
  <2>2. QED
    BY <1>1, <1>2, <2>1 DEF Walks!IInv, Walks!TypeOK
<1>7. Walks!PassOK'
  <2>1. SUFFICES ASSUME quiet, ~overlooked'
                 PROVE  /\ DOMAIN stats' = {g \in File \ left' : Walks!Visible(g)}
                        /\ \A g \in DOMAIN stats' : stats'[g] = Walks!Stat(disk[g])
    BY <1>1, <1>2 DEF Walks!PassOK, Walks!Stat
  <2>2. ~overlooked
    BY <2>1 DEF Walks!Scan, Walks!PassOver
  <2>3. DOMAIN stats = {g \in File \ left : Walks!Visible(g)} /\ \A g \in DOMAIN stats : stats[g] = Walks!Stat(disk[g])
    BY <1>1, <2>1, <2>2 DEF Walks!IInv, Walks!PassOK
  <2>4. CASE Walks!Visible(f) /\ stats' = Walks!Extended(stats, f, Walks!Stat(disk[f]))
    BY <1>1, <2>3, <2>4 DEF Walks!Extended
  <2>5. CASE ~Walks!Visible(f) /\ UNCHANGED stats
    BY <1>1, <2>3, <2>5
  <2>6. QED
    BY <2>1, <2>4, <2>5 DEF Walks!Scan, Walks!PassOver
<1>8. QED
  BY <1>3, <1>4, <1>5, <1>6, <1>7 DEF Walks!IInv

LEMMA WalkClassifies == ASSUME Walks!ChangeAssumption, Walks!IInv, Walks!Classify PROVE Walks!IInv'
<1>1. /\ UNCHANGED <<Walks!history, disk, edits, errors, index, stats, reading, quiet, overlooked>>
      /\ phase = "scan" /\ left = {} /\ reading = Walks!Nothing /\ changes = Walks!NoChanges
      /\ \/ phase' = "done" /\ left' = {} /\ Walks!New \cup Walks!Suspected = {}
         \/ phase' = "discover" /\ left' = File
  BY DEF Walks!Classify, Walks!IInv, Walks!ReadingOK, Walks!ChangesOK
<1>9. changes' = [added |-> Walks!Nothing, modified |-> Walks!Nothing, deleted |-> Walks!Indexed \ DOMAIN stats]
  BY <1>1 DEF Walks!Classify, Walks!NoChanges
<1>2. /\ Walks!Indexed' = Walks!Indexed
      /\ \A g : Walks!Visible(g)' <=> Walks!Visible(g)
      /\ \A g, e : Walks!Honest(g, e)' <=> Walks!Honest(g, e)
  BY <1>1, WalkKeeps
<1>3. Walks!DiskOK' /\ Walks!IndexOK' /\ Walks!ReadingOK'
  BY <1>1, <1>2, <1>9 DEF Walks!IInv, Walks!DiskOK, Walks!IndexOK, Walks!ReadingOK, Walks!Nothing, Walks!Stat, Walks!history
<1>4. Walks!ChangesOK'
  BY <1>1, <1>2, <1>9 DEF Walks!IInv, Walks!ChangesOK, Walks!Nothing, Walks!Indexed
<1>5. Walks!TypeOK'
  BY <1>1, <1>2, <1>9 DEF Walks!IInv, Walks!TypeOK, Walks!Nothing
<1>6. Walks!PassOK'
  <2>1. SUFFICES ASSUME quiet, ~overlooked PROVE Walks!PassOK'
    BY <1>1 DEF Walks!PassOK
  <2>2. DOMAIN stats = {g \in File : Walks!Visible(g)} /\ \A g \in DOMAIN stats : stats[g] = Walks!Stat(disk[g])
    BY <1>1, <2>1 DEF Walks!IInv, Walks!PassOK
  <2>3. Walks!New' = Walks!New /\ Walks!Suspected' = Walks!Suspected /\ Walks!Seen' = File \ left'
    BY <1>1, <1>2 DEF Walks!New, Walks!Suspected, Walks!Seen, Walks!Nothing
  <2>4. QED
    BY <1>1, <1>2, <1>9, <2>2, <2>3 DEF Walks!PassOK, Walks!Nothing, Walks!Stat
<1>7. QED
  BY <1>3, <1>4, <1>5, <1>6 DEF Walks!IInv

LEMMA WalkLooks == ASSUME Walks!ChangeAssumption, Walks!IInv, NEW f \in File, Walks!Look(f) PROVE Walks!IInv'
<1>1. /\ UNCHANGED <<Walks!history, disk, index, phase, stats, changes, quiet>>
      /\ phase = "discover" /\ f \in left /\ left' = left \ {f} /\ reading = Walks!Nothing
  BY DEF Walks!Look
<1>2. /\ Walks!Indexed' = Walks!Indexed /\ Walks!New' = Walks!New /\ Walks!Suspected' = Walks!Suspected
      /\ \A g : Walks!Visible(g)' <=> Walks!Visible(g)
      /\ \A g, e : Walks!Honest(g, e)' <=> Walks!Honest(g, e)
  BY <1>1, WalkKeeps DEF Walks!New, Walks!Suspected
<1>3. \/ Walks!Visible(f) /\ reading' = [g \in {f} |-> disk[f]] /\ UNCHANGED <<errors, overlooked>>
      \/ ~Walks!Visible(f) /\ UNCHANGED <<reading, errors, overlooked>>
      \/ overlooked' /\ errors' = errors + 1 /\ UNCHANGED reading
  BY DEF Walks!Look, Walks!PassOver
<1>10. /\ DOMAIN reading' \in {{}, {f}}
       /\ reading' # Walks!Nothing => Walks!Visible(f) /\ DOMAIN reading' = {f} /\ reading'[f] = disk[f]
  BY <1>1, <1>3 DEF Walks!Nothing
<1>4. Walks!DiskOK'
  BY <1>1, <1>3 DEF Walks!Look, Walks!PassOver, Walks!IInv, Walks!DiskOK, Walks!Stat, Walks!history
<1>5. Walks!IndexOK' /\ Walks!ChangesOK'
  BY <1>1, <1>2 DEF Walks!IInv, Walks!IndexOK, Walks!ChangesOK
<1>6. Walks!ReadingOK'
  <2>1. Walks!Visible(f) => disk[f] \in [content : Content, mtime : 0 .. LastTime]
                           /\ Walks!Stat(disk[f]) \in had[f]
    BY DEF Walks!Visible, Walks!IInv, Walks!DiskOK
  <2>2. ASSUME NEW g \in DOMAIN reading'
        PROVE  /\ reading'[g] \in [content : Content, mtime : 0 .. LastTime]
               /\ Walks!Stat(reading'[g]) \in had[g]
    <3>1. g = f /\ Walks!Visible(f) /\ reading'[f] = disk[f]
      BY <1>10, <2>2 DEF Walks!Nothing
    <3>2. QED
      BY <2>1, <3>1
  <2>3. UNCHANGED <<had, phase, Size>>
    BY <1>1 DEF Walks!history
  <2>4. reading' # Walks!Nothing => phase' = "discover" /\ DOMAIN reading' = {f}
    BY <1>1, <1>10
  <2>5. phase' # "done"
    BY <1>1
  <2>6. QED
    BY <2>2, <2>3, <2>4, <2>5 DEF Walks!ReadingOK, Walks!Stat
<1>7. Walks!TypeOK'
  <2>1. Walks!Cardinality(DOMAIN reading') <= 1
    <3>1. Walks!Cardinality({}) = 0 /\ Walks!Cardinality({f}) = 1
      BY NoneOrOne
    <3>2. QED
      BY <1>10, <3>1
  <2>2. QED
    BY <1>1, <1>2, <2>1 DEF Walks!IInv, Walks!TypeOK
<1>8. Walks!PassOK'
  <2>1. SUFFICES ASSUME quiet, ~overlooked' PROVE Walks!PassOK'
    BY <1>1 DEF Walks!PassOK
  <2>2. ~overlooked
    BY <1>3, <2>1 DEF Walks!IInv, Walks!DiskOK, Walks!Look, Walks!PassOver
  <2>3. DOMAIN stats = {g \in File : Walks!Visible(g)} /\ Walks!Suspected \subseteq DOMAIN stats /\ Walks!New \subseteq DOMAIN stats
    BY <1>1, <2>1, <2>2 DEF Walks!IInv, Walks!PassOK, Walks!Suspected, Walks!New
  <2>4. DOMAIN stats \cap Walks!Seen' \subseteq DOMAIN stats \cap Walks!Seen
    BY <1>1, <1>3, <2>1, <2>3 DEF Walks!Seen, Walks!Nothing
  <2>5. \A g \in DOMAIN reading' : reading'[g] = disk[g]
    BY <1>1, <1>3, <2>1 DEF Walks!Nothing
  <2>6. QED
    BY <1>1, <1>2, <2>1, <2>2, <2>3, <2>4, <2>5 DEF Walks!IInv, Walks!PassOK, Walks!Stat
<1>9. QED
  BY <1>4, <1>5, <1>6, <1>7, <1>8 DEF Walks!IInv

LEMMA WalkReads == ASSUME Walks!ChangeAssumption, Walks!IInv, NEW f \in File, Walks!Read(f) PROVE Walks!IInv'
<1> DEFINE e == Walks!Entry(reading[f], disk[f].content)
<1>1. /\ UNCHANGED <<Walks!history, disk, edits, errors, index, phase, left, stats, quiet, overlooked>>
      /\ f \in DOMAIN reading /\ DOMAIN reading = {f} /\ phase = "discover" /\ reading' = Walks!Nothing
  BY DEF Walks!Read, Walks!Record, Walks!IInv, Walks!ReadingOK, Walks!Nothing
<1>2. /\ Walks!Indexed' = Walks!Indexed /\ Walks!New' = Walks!New /\ Walks!Suspected' = Walks!Suspected
      /\ \A g : Walks!Visible(g)' <=> Walks!Visible(g)
      /\ \A g, d : Walks!Honest(g, d)' <=> Walks!Honest(g, d)
      /\ Walks!Seen' = Walks!Seen \cup ({f} \ left)
  BY <1>1, WalkKeeps DEF Walks!New, Walks!Suspected, Walks!Seen, Walks!Nothing
<1>3. \/ disk[f] = Absent /\ UNCHANGED changes
      \/ /\ disk[f] # Absent /\ f \in Walks!New
         /\ changes' = [changes EXCEPT !.added = Walks!Extended(@, f, e)]
      \/ /\ disk[f] # Absent /\ f \in Walks!Suspected /\ e.hash # index[f].hash
         /\ changes' = [changes EXCEPT !.modified = Walks!Extended(@, f, e)]
      \/ /\ disk[f] # Absent /\ f \notin Walks!New /\ ~(f \in Walks!Suspected /\ e.hash # index[f].hash)
         /\ UNCHANGED changes
  BY DEF Walks!Read, Walks!Record
<1>4. disk[f] # Absent => Walks!Honest(f, e) /\ e.hash = disk[f].content
  <2>1. SUFFICES ASSUME disk[f] # Absent PROVE Walks!Honest(f, e) /\ e.hash = disk[f].content
    OBVIOUS
  <2>2. reading[f] \in [content : Content, mtime : 0 .. LastTime]
    BY <1>1 DEF Walks!IInv, Walks!ReadingOK
  <2>3. disk[f] \in [content : Content, mtime : 0 .. LastTime]
    BY <2>1 DEF Walks!IInv, Walks!DiskOK
  <2>4. Size[reading[f].content] \in Nat
    BY <2>2 DEF Walks!ChangeAssumption
  <2>5. e \in [hash : Content, mtime : 0 .. LastTime, size : Nat] /\ e.hash = disk[f].content
    BY <2>2, <2>3, <2>4 DEF Walks!Entry
  <2>6. [mtime |-> e.mtime, size |-> e.size] \in had[f]
    BY <1>1 DEF Walks!IInv, Walks!ReadingOK, Walks!Entry, Walks!Stat
  <2>7. QED
    BY <2>5, <2>6 DEF Walks!Honest
<1> HIDE DEF e
<1>5. \/ /\ UNCHANGED changes
         /\ disk[f] # Absent => f \notin Walks!New /\ ~(f \in Walks!Suspected /\ e.hash # index[f].hash)
      \/ /\ f \in Walks!New /\ disk[f] # Absent
         /\ changes' = [added |-> Walks!Extended(changes.added, f, e), modified |-> changes.modified,
                        deleted |-> changes.deleted]
      \/ /\ f \in Walks!Suspected /\ disk[f] # Absent /\ e.hash # index[f].hash
         /\ changes' = [added |-> changes.added, modified |-> Walks!Extended(changes.modified, f, e),
                        deleted |-> changes.deleted]
  BY <1>3 DEF Walks!IInv, Walks!ChangesOK
<1>6. Walks!DiskOK' /\ Walks!ReadingOK'
  BY <1>1 DEF Walks!IInv, Walks!DiskOK, Walks!ReadingOK, Walks!Nothing, Walks!Stat, Walks!history
<1>7. Walks!IndexOK'
  BY <1>1, <1>2, <1>4, <1>5 DEF Walks!IInv, Walks!IndexOK, Walks!Extended
<1>8. Walks!ChangesOK'
  BY <1>1, <1>2, <1>5 DEF Walks!IInv, Walks!ChangesOK, Walks!Extended, Walks!Suspected
<1>9. Walks!TypeOK'
  <2>1. Walks!Cardinality(DOMAIN reading') <= 1
    <3>1. DOMAIN reading' = {}
      BY <1>1 DEF Walks!Nothing
    <3>2. Walks!Cardinality({}) = 0
      BY NoneOrOne
    <3>3. QED
      BY <3>1, <3>2
  <2>2. Walks!New \cap Walks!Indexed = {} /\ Walks!Suspected \subseteq Walks!Indexed
    BY DEF Walks!New, Walks!Suspected
  <2>3. QED
    BY <1>1, <1>2, <1>5, <2>1, <2>2 DEF Walks!IInv, Walks!TypeOK, Walks!Extended
<1>10. Walks!PassOK'
  <2>1. SUFFICES ASSUME quiet, ~overlooked PROVE Walks!PassOK'
    BY <1>1 DEF Walks!PassOK
  <2>2. /\ reading[f] = disk[f] /\ DOMAIN stats = {g \in File : Walks!Visible(g)}
        /\ \A g \in DOMAIN stats : stats[g] = Walks!Stat(disk[g])
        /\ changes.deleted = Walks!Indexed \ DOMAIN stats
    BY <1>1, <2>1 DEF Walks!IInv, Walks!PassOK
  <2>3. /\ \A g \in DOMAIN changes.added : changes.added[g].hash = disk[g].content
        /\ \A g \in DOMAIN changes.modified : changes.modified[g].hash = disk[g].content
        /\ Walks!New \cap Walks!Seen \subseteq DOMAIN changes.added
        /\ \A g \in DOMAIN changes.modified : g \in Walks!Suspected /\ index[g].hash # disk[g].content
        /\ \A g \in Walks!Suspected \cap Walks!Seen : index[g].hash # disk[g].content => g \in DOMAIN changes.modified
    BY <1>1, <2>1 DEF Walks!IInv, Walks!PassOK
  <2>4. f \in Walks!New \cup Walks!Suspected => disk[f] # Absent
    BY <2>2 DEF Walks!New, Walks!Suspected, Walks!Visible
  <2>5. Walks!New \cap Walks!Suspected = {}
    BY DEF Walks!New, Walks!Suspected
  <2>6. /\ changes'.deleted = changes.deleted
        /\ \A g \in DOMAIN changes'.added : changes'.added[g].hash = disk[g].content
        /\ \A g \in DOMAIN changes'.modified : changes'.modified[g].hash = disk[g].content
        /\ Walks!New \cap Walks!Seen' \subseteq DOMAIN changes'.added
        /\ \A g \in DOMAIN changes'.modified : g \in Walks!Suspected /\ index[g].hash # disk[g].content
        /\ \A g \in Walks!Suspected \cap Walks!Seen' : index[g].hash # disk[g].content => g \in DOMAIN changes'.modified
    BY <1>2, <1>4, <1>5, <2>3, <2>4, <2>5 DEF Walks!Extended
  <2>7. QED
    BY <1>1, <1>2, <2>2, <2>6 DEF Walks!PassOK, Walks!Stat, Walks!Nothing
<1>11. QED
  BY <1>6, <1>7, <1>8, <1>9, <1>10 DEF Walks!IInv

LEMMA WalkEnds == ASSUME Walks!ChangeAssumption, Walks!IInv, Walks!EndWalk PROVE Walks!IInv'
<1>1. /\ UNCHANGED <<Walks!history, disk, edits, errors, index, left, stats, reading, changes, quiet, overlooked>>
      /\ phase = "discover" /\ phase' = "done" /\ left = {} /\ reading = Walks!Nothing
  BY DEF Walks!EndWalk
<1>2. /\ Walks!Indexed' = Walks!Indexed /\ Walks!New' = Walks!New /\ Walks!Suspected' = Walks!Suspected /\ Walks!Seen' = Walks!Seen
      /\ \A g : Walks!Visible(g)' <=> Walks!Visible(g)
      /\ \A g, d : Walks!Honest(g, d)' <=> Walks!Honest(g, d)
  BY <1>1, WalkKeeps DEF Walks!New, Walks!Suspected, Walks!Seen
<1>3. Walks!DiskOK' /\ Walks!ReadingOK' /\ Walks!IndexOK' /\ Walks!ChangesOK' /\ Walks!TypeOK'
  BY <1>1, <1>2 DEF Walks!IInv, Walks!DiskOK, Walks!ReadingOK, Walks!IndexOK, Walks!ChangesOK, Walks!TypeOK, Walks!Stat, Walks!history
<1>4. Walks!PassOK'
  BY <1>1, <1>2 DEF Walks!IInv, Walks!PassOK, Walks!Stat
<1>5. QED
  BY <1>3, <1>4 DEF Walks!IInv

LEMMA WalkApplies == ASSUME Walks!ChangeAssumption, Walks!IInv, Walks!Apply PROVE Walks!IInv'
<1>1. /\ UNCHANGED <<Walks!history, disk, edits, errors, left, stats, reading, changes, quiet, overlooked>>
      /\ phase = "done" /\ phase' = "idle" /\ reading = Walks!Nothing
  BY DEF Walks!Apply, Walks!IInv, Walks!ReadingOK
<1>2. DOMAIN index' = File
  BY DEF Walks!Apply
<1>3. \A f, e : Walks!Honest(f, e)' <=> Walks!Honest(f, e)
  BY <1>1 DEF Walks!Honest, Walks!Stat, Walks!Visible, Walks!history
<1>4. ASSUME NEW f \in Walks!Indexed' PROVE Walks!Honest(f, index'[f])
  <2>1. f \in File /\ index'[f] # Absent
    BY <1>4 DEF Walks!Indexed
  <2>2. \/ f \in DOMAIN changes.added /\ index'[f] = changes.added[f]
        \/ f \in DOMAIN changes.modified /\ index'[f] = changes.modified[f]
        \/ f \in Walks!Indexed /\ index'[f] = index[f]
    BY <2>1 DEF Walks!Apply, Walks!Indexed
  <2>3. QED
    BY <2>2 DEF Walks!IInv, Walks!IndexOK
<1>5. Walks!IndexOK'
  BY <1>1, <1>2, <1>3, <1>4 DEF Walks!IInv, Walks!IndexOK
<1>6. Walks!DiskOK' /\ Walks!ReadingOK' /\ Walks!ChangesOK' /\ Walks!PassOK'
  BY <1>1 DEF Walks!IInv, Walks!DiskOK, Walks!ReadingOK, Walks!ChangesOK, Walks!PassOK, Walks!Stat, Walks!history
<1>7. Walks!TypeOK'
  <2>1. \A f \in Walks!Indexed' : index'[f].hash \in Content /\ index'[f].mtime \in 0 .. LastTime
    BY <1>4 DEF Walks!Honest, Walks!IInv, Walks!DiskOK, Walks!ChangeAssumption
  <2>2. QED
    BY <1>1, <2>1 DEF Walks!IInv, Walks!TypeOK
<1>8. QED
  BY <1>5, <1>6, <1>7 DEF Walks!IInv

LEMMA WalkForgets == ASSUME Walks!ChangeAssumption, Walks!IInv, Walks!Forget PROVE Walks!IInv'
<1>1. /\ UNCHANGED <<Walks!history, disk, edits, errors, phase, left, stats, reading, changes, quiet, overlooked>>
      /\ phase = "idle" /\ reading = Walks!Nothing
  BY DEF Walks!Forget, Walks!IInv, Walks!ReadingOK
<1>2. DOMAIN index' = File
  BY DEF Walks!Forget
<1>3. \A f, e : Walks!Honest(f, e)' <=> Walks!Honest(f, e)
  BY <1>1 DEF Walks!Honest, Walks!Stat, Walks!Visible, Walks!history
<1>4. ASSUME NEW f \in Walks!Indexed' PROVE Walks!Honest(f, index'[f])
  <2>1. f \in Walks!Indexed /\ index'[f] = [index[f] EXCEPT !.mtime = 0, !.size = 0]
    BY <1>4 DEF Walks!Forget, Walks!Indexed
  <2>2. index[f] \in [hash : Content, mtime : 0 .. LastTime, size : Nat]
    BY <2>1 DEF Walks!IInv, Walks!IndexOK, Walks!Honest, Walks!DiskOK, Walks!ChangeAssumption
  <2>6. index'[f] = [hash |-> index[f].hash, mtime |-> 0, size |-> 0]
    BY <2>1, <2>2
  <2>3. index'[f] \in [hash : Content, mtime : 0 .. LastTime, size : Nat] /\ index'[f].size = 0
    BY <2>2, <2>6 DEF Walks!ChangeAssumption
  <2>4. Walks!Visible(f) => Walks!Stat(disk[f]).size # 0
    BY DEF Walks!Visible, Walks!Stat
  <2>5. QED
    BY <2>3, <2>4 DEF Walks!Honest
<1>5. Walks!IndexOK'
  BY <1>1, <1>2, <1>3, <1>4 DEF Walks!IInv, Walks!IndexOK
<1>6. Walks!DiskOK' /\ Walks!ReadingOK' /\ Walks!ChangesOK' /\ Walks!PassOK'
  BY <1>1 DEF Walks!IInv, Walks!DiskOK, Walks!ReadingOK, Walks!ChangesOK, Walks!PassOK, Walks!New, Walks!Visible, Walks!Stat, Walks!history
<1>7. Walks!TypeOK'
  <2>1. \A f \in Walks!Indexed' : index'[f].hash \in Content /\ index'[f].mtime \in 0 .. LastTime
    BY <1>4 DEF Walks!Honest, Walks!IInv, Walks!DiskOK, Walks!ChangeAssumption
  <2>2. QED
    BY <1>1, <2>1 DEF Walks!IInv, Walks!TypeOK
<1>8. QED
  BY <1>5, <1>6, <1>7 DEF Walks!IInv

LEMMA WalkStep == ASSUME Walks!ChangeAssumption, Walks!IInv, [Walks!Next]_Walks!vars PROVE Walks!IInv'
<1>1. CASE UNCHANGED Walks!vars
  <2>1. /\ Walks!Indexed' = Walks!Indexed
        /\ \A g : Walks!Visible(g)' <=> Walks!Visible(g)
        /\ \A g, e : Walks!Honest(g, e)' <=> Walks!Honest(g, e)
    BY <1>1, WalkKeeps DEF Walks!vars
  <2>2. Walks!New' = Walks!New /\ Walks!Suspected' = Walks!Suspected /\ Walks!Seen' = Walks!Seen
    BY <1>1, <2>1 DEF Walks!vars, Walks!New, Walks!Suspected, Walks!Seen
  <2>3. QED
    BY <1>1, <2>1, <2>2 DEF Walks!vars, Walks!IInv, Walks!TypeOK, Walks!DiskOK, Walks!IndexOK, Walks!ReadingOK, Walks!ChangesOK, Walks!PassOK, Walks!Stat, Walks!history
<1>2. QED
  BY <1>1, WalkEdits, WalkBegins, WalkScans, WalkClassifies, WalkLooks, WalkReads, WalkEnds,
     WalkApplies, WalkForgets DEF Walks!Next

\* What is known of a pass in quiet when both walks are over.
LEMMA QuietIsExact == ASSUME Walks!ChangeAssumption, Walks!IInv PROVE Walks!QuietPassIsExact
<1>1. SUFFICES ASSUME phase = "done", quiet, ~overlooked PROVE Walks!QuietPassIsExact
  BY DEF Walks!QuietPassIsExact
<1>2. left = {} /\ reading = Walks!Nothing /\ Walks!Seen = File
  BY <1>1 DEF Walks!IInv, Walks!ReadingOK, Walks!Seen, Walks!Nothing
<1>3. /\ DOMAIN stats = {f \in File : Walks!Visible(f)} /\ \A f \in DOMAIN stats : stats[f] = Walks!Stat(disk[f])
      /\ changes.deleted = Walks!Indexed \ DOMAIN stats
      /\ \A f \in DOMAIN changes.added : changes.added[f].hash = disk[f].content
      /\ \A f \in DOMAIN changes.modified : changes.modified[f].hash = disk[f].content
      /\ Walks!New \cap Walks!Seen \subseteq DOMAIN changes.added
      /\ DOMAIN changes.modified \subseteq {f \in Walks!Suspected : index[f].hash # disk[f].content}
      /\ {f \in Walks!Suspected \cap Walks!Seen : index[f].hash # disk[f].content} \subseteq DOMAIN changes.modified
  BY <1>1 DEF Walks!IInv, Walks!PassOK
<1>4. DOMAIN changes.added = Walks!New /\ Walks!New = {f \in File : Walks!Visible(f) /\ f \notin Walks!Indexed}
  BY <1>1, <1>2, <1>3 DEF Walks!IInv, Walks!ChangesOK, Walks!New
<1> DEFINE Changed == {f \in Walks!Indexed : Walks!Visible(f) /\ index[f].hash # disk[f].content}
<1>5. Changed \ alike \subseteq Walks!Suspected
  BY <1>3, OthersAreSuspected DEF Walks!Indexed
<1>6. DOMAIN changes.modified \subseteq Changed /\ Changed \ alike \subseteq DOMAIN changes.modified
  <2>1. Walks!Suspected \subseteq Walks!Indexed \cap {f \in File : Walks!Visible(f)} /\ Walks!Suspected \subseteq File
    BY <1>3 DEF Walks!Suspected
  <2>2. QED
    BY <1>2, <1>3, <1>5, <2>1
<1>7. changes.deleted = {f \in Walks!Indexed : ~Walks!Visible(f)}
  BY <1>3 DEF Walks!Indexed
<1>8. QED
  BY <1>3, <1>4, <1>6, <1>7 DEF Walks!QuietPassIsExact

(* A pass in quiet reports the very differences between index and files,   *)
(* and nothing that was written during a pass is hidden from later ones,   *)
(* for any files, contents and times, but for files that were given a time *)
(* and size that they had had before.                                      *)
THEOREM ChangeSafety == ASSUME Walks!ChangeAssumption PROVE Walks!Spec => []ChangesAreFound
<1>1. Walks!Init => Walks!IInv
  BY WalkInit
<1>2. Walks!IInv /\ [Walks!Next]_Walks!vars => Walks!IInv'
  BY WalkStep
<1>3. Walks!IInv => ChangesAreFound
  <2>1. Walks!IInv => Walks!NothingHidden
    BY DEF Walks!IInv, Walks!IndexOK, Walks!Honest, Walks!NothingHidden, Walks!SameStat
  <2>2. QED
    BY <2>1, QuietIsExact DEF Walks!IInv, ChangesAreFound, Walks!ChangesAreFound
<1>4. QED
  BY <1>1, <1>2, <1>3, PTL DEF Walks!Spec
=============================================================================
