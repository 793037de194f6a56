------------------------------ MODULE TextProofs ------------------------------
(* Theorems about EmbedAll, for any calls, texts, sizes and limits.         *)
EXTENDS EmbedAll, Induction, FiniteSetTheorems, SequenceTheorems

-----------------------------------------------------------------------------
(* Calls that embed texts. What packs their texts and what removes those   *)
(* that come twice are recursive functions, treated by Recursion and       *)
(* AllNaturals; then come the actions, by the values of one call.          *)

\* What a body takes, by the sums over its first texts.
LEMMA BodySums ==
  ASSUME EmbedAllAssumption, NEW b \in Seq(Text)
  PROVE  \E f \in [0 .. Len(b) -> Nat] :
           /\ f[0] = 0 /\ \A n \in 1 .. Len(b) : f[n] = f[n - 1] + Bytes[b[n]]
           /\ BodySize(b) = f[Len(b)] + Len(b) - 1
<1> DEFINE N == Len(b)
           Val(f, n) == IF n = 0 THEN 0 ELSE f[n - 1] + Bytes[b[n]]
           Solves(f) == f = [n \in 0 .. N |-> Val(f, n)]
           op == [x \in Nat \X (1 .. N) |-> x[1] + Bytes[b[x[2]]]]
<1>1. N \in Nat /\ \A n \in 1 .. N : b[n] \in Text /\ Bytes[b[n]] \in Nat
  BY DEF EmbedAllAssumption
<1>2. op \in [Nat \X (1 .. N) -> Nat]
  <2>1. ASSUME NEW x \in Nat \X (1 .. N) PROVE x[1] + Bytes[b[x[2]]] \in Nat
    BY <1>1
  <2>2. QED
    BY <2>1
<1>3. \A x \in Nat, n \in 1 .. N : op[<<x, n>>] = x + Bytes[b[n]]
  OBVIOUS
<1> HIDE DEF op, N
<1>4. PICK f : IsRecursive(f, Nat, 0, N, op)
  <2>1. Recurs(Nat, 0, N, op)
    BY <1>1, <1>2 DEF Recurs
  <2>2. QED
    BY <2>1, Recursion
<1>5. \A n \in 0 .. N : f[n] = Val(f, n)
  <2>1. ASSUME NEW n \in 1 .. N PROVE f[n] = f[n - 1] + Bytes[b[n]]
    <3>1. f[n - 1] \in Nat
      BY <1>1, <1>4 DEF IsRecursive
    <3>2. QED
      BY <3>1, <1>3, <1>4 DEF IsRecursive
  <2>2. QED
    BY <2>1, <1>1, <1>4 DEF IsRecursive
<1>6. Solves(f)
  <2> HIDE DEF Val
  <2>1. QED
    BY <1>4, <1>5 DEF IsRecursive
<1> DEFINE g == CHOOSE h : Solves(h)
<1>7. Solves(g)
  <2> HIDE DEF Solves
  <2>1. QED
    BY <1>6
<1>8. BodySize(b) = g[N] + N - 1
  BY DEF BodySize, N
<1> HIDE DEF g
<1>9. \A n \in 0 .. N : g[n] = Val(g, n)
  <2> HIDE DEF Val
  <2>1. QED
    BY <1>7
<1>10. \A n \in 1 .. N : g[n] = g[n - 1] + Bytes[b[n]]
  BY <1>1, <1>9
<1>11. g[0] = 0
  BY <1>1, <1>9
<1>12. g = [n \in 0 .. N |-> g[n]]
  BY <1>7
<1> DEFINE T == {n \in Nat : n <= N => g[n] \in Nat}
<1>13. 0 \in T
  BY <1>11
<1>14. ASSUME NEW m \in Nat, m \in T PROVE m + 1 \in T
  <2>1. SUFFICES ASSUME m + 1 <= N PROVE g[m + 1] \in Nat
    OBVIOUS
  <2>2. m + 1 \in 1 .. N /\ (m + 1) - 1 = m /\ m <= N
    BY <1>1, <2>1
  <2>3. g[m + 1] = g[m] + Bytes[b[m + 1]] /\ Bytes[b[m + 1]] \in Nat
    BY <1>1, <1>10, <2>2
  <2>4. g[m] \in Nat
    BY <1>14, <2>2
  <2>5. QED
    BY <2>3, <2>4
<1>15. Nat \subseteq T
  <2> HIDE DEF T
  <2>1. QED
    BY <1>13, <1>14, AllNaturals
<1>16. g \in [0 .. N -> Nat]
  BY <1>1, <1>12, <1>15
<1>17. QED
  BY <1>8, <1>10, <1>11, <1>16 DEF N

\* What the body takes with one more text.
LEMMA BodyGrows ==
  ASSUME EmbedAllAssumption, NEW b \in Seq(Text), NEW t \in Text
  PROVE  /\ BodySize(Append(b, t)) = BodySize(b) + 1 + Bytes[t]
         /\ BodySize(<<t>>) = Bytes[t] /\ Bytes[t] \in Nat
         /\ BodySize(b) + 1 \in Nat
<1> DEFINE d == Append(b, t)
<1>1. /\ d \in Seq(Text) /\ Len(d) = Len(b) + 1 /\ d[Len(b) + 1] = t /\ Len(b) \in Nat
      /\ \A n \in 1 .. Len(b) : d[n] = b[n]
  BY AppendProperties
<1>2. \A n \in 1 .. Len(b) : Bytes[b[n]] \in Nat
  BY DEF EmbedAllAssumption
<1>3. Bytes[t] \in Nat
  BY DEF EmbedAllAssumption
<1> HIDE DEF d
<1>4. PICK f \in [0 .. Len(b) -> Nat] :
        /\ f[0] = 0 /\ \A n \in 1 .. Len(b) : f[n] = f[n - 1] + Bytes[b[n]]
        /\ BodySize(b) = f[Len(b)] + Len(b) - 1
  BY BodySums
<1>5. PICK g \in [0 .. Len(d) -> Nat] :
        /\ g[0] = 0 /\ \A n \in 1 .. Len(d) : g[n] = g[n - 1] + Bytes[d[n]]
        /\ BodySize(d) = g[Len(d)] + Len(d) - 1
  BY <1>1, BodySums
<1> DEFINE T == {n \in Nat : n <= Len(b) => g[n] = f[n]}
<1>6. 0 \in T
  BY <1>4, <1>5
<1>7. ASSUME NEW m \in Nat, m \in T PROVE m + 1 \in T
  <2>1. SUFFICES ASSUME m + 1 <= Len(b) PROVE g[m + 1] = f[m + 1]
    OBVIOUS
  <2>2. Len(d) = Len(b) + 1 /\ Len(b) \in Nat
    BY <1>1
  <2>3. m + 1 \in 1 .. Len(b) /\ m + 1 \in 1 .. Len(d) /\ (m + 1) - 1 = m /\ m <= Len(b)
    BY <2>1, <2>2
  <2>4. f[m + 1] = f[m] + Bytes[b[m + 1]]
    BY <1>4, <2>3
  <2>5. g[m + 1] = g[m] + Bytes[b[m + 1]]
    BY <1>1, <1>5, <2>3
  <2>6. g[m] = f[m]
    BY <1>7, <2>3
  <2>7. QED
    BY <2>4, <2>5, <2>6
<1>8. Nat \subseteq T
  <2> HIDE DEF T
  <2>1. QED
    BY <1>6, <1>7, AllNaturals
<1>9. g[Len(b)] = f[Len(b)] /\ f[Len(b)] \in Nat
  BY <1>1, <1>8
<1>10. g[Len(b) + 1] = g[Len(b)] + Bytes[t]
  <2>1. Len(b) + 1 \in 1 .. Len(d) /\ (Len(b) + 1) - 1 = Len(b)
    BY <1>1
  <2>2. QED
    BY <1>1, <1>5, <2>1
<1>11. BodySize(d) = BodySize(b) + 1 + Bytes[t] /\ BodySize(b) + 1 \in Nat
  BY <1>1, <1>3, <1>4, <1>5, <1>9, <1>10
<1>12. BodySize(<<t>>) = Bytes[t]
  <2>1. <<t>> \in Seq(Text) /\ Len(<<t>>) = 1 /\ <<t>>[1] = t
    OBVIOUS
  <2>2. PICK h \in [0 .. Len(<<t>>) -> Nat] :
          /\ h[0] = 0 /\ \A n \in 1 .. Len(<<t>>) : h[n] = h[n - 1] + Bytes[<<t>>[n]]
          /\ BodySize(<<t>>) = h[Len(<<t>>)] + Len(<<t>>) - 1
    BY <2>1, BodySums
  <2>3. h[1] = h[0] + Bytes[t]
    BY <2>1, <2>2
  <2>4. QED
    BY <1>3, <2>1, <2>2, <2>3
<1>13. QED
  BY <1>3, <1>11, <1>12 DEF d

-----------------------------------------------------------------------------
\* Requests: what packing the first n texts of s gives.
Request(s) == [first : 1 .. Len(s), last : 1 .. Len(s), bytes : Nat]

PacksUpTo(s, r, n) ==
  /\ r \in Seq(Request(s)) /\ (n = 0 <=> r = <<>>)
  /\ n > 0 => r[1].first = 1 /\ r[Len(r)].last = n
  /\ \A i \in 1 .. Len(r) :
       /\ r[i].first <= r[i].last /\ r[i].last <= n /\ r[i].last - r[i].first < BatchSize
       /\ r[i].bytes = BodySize(SubSeq(s, r[i].first, r[i].last))
       /\ r[i].bytes <= Budget \/ TooLarge(s)
  /\ \A i \in 2 .. Len(r) : r[i].first = r[i - 1].last + 1
  /\ \A i, j \in 1 .. Len(r) : i < j => r[i].last < r[j].first
  /\ \A m \in 1 .. n : \E i \in 1 .. Len(r) : m \in r[i].first .. r[i].last

\* A text opens a request.
LEMMA OpensRequest ==
  ASSUME EmbedAllAssumption, NEW s \in Seq(Text), NEW n \in 1 .. Len(s), NEW r,
         PacksUpTo(s, r, n - 1)
  PROVE  PacksUpTo(s, Append(r, [first |-> n, last |-> n, bytes |-> Bytes[s[n]]]), n)
<1> DEFINE q == [first |-> n, last |-> n, bytes |-> Bytes[s[n]]]
           p == Append(r, q)
           L == Len(r)
<1>1. n \in Nat /\ n - 1 \in Nat /\ n >= 1 /\ s[n] \in Text /\ Bytes[s[n]] \in Nat /\ Len(s) \in Nat /\ n <= Len(s)
  BY DEF EmbedAllAssumption
<1>2. q \in Request(s) /\ q.first = n /\ q.last = n /\ q.bytes = Bytes[s[n]]
  BY <1>1 DEF Request
<1> HIDE DEF q
<1>3. r \in Seq(Request(s)) /\ L \in Nat
  BY DEF PacksUpTo
<1>4. /\ p \in Seq(Request(s)) /\ Len(p) = L + 1 /\ p[L + 1] = q
      /\ \A i \in 1 .. L : p[i] = r[i] /\ r[i] \in Request(s)
  BY <1>2, <1>3, AppendProperties
<1>5. p # <<>>
  BY <1>3, <1>4
<1> HIDE DEF p, L
<1>6. \A i \in 1 .. L : /\ r[i].first \in Nat /\ r[i].last \in Nat /\ r[i].first <= r[i].last
                        /\ r[i].last <= n - 1
  <2>1. \A i \in 1 .. L : r[i].first \in Nat /\ r[i].last \in Nat
    <3>1. ASSUME NEW i \in 1 .. L PROVE r[i].first \in 1 .. Len(s) /\ r[i].last \in 1 .. Len(s)
      <4>1. r[i] \in Request(s)
        BY <1>4
      <4>2. QED
        BY <4>1 DEF Request
    <3>2. QED
      BY <3>1, <1>1
  <2>2. \A i \in 1 .. L : r[i].first <= r[i].last /\ r[i].last <= n - 1
    BY DEF PacksUpTo, L
  <2>3. QED
    BY <2>1, <2>2
<1>7. \A i \in 1 .. L + 1 : i \in 1 .. L \/ i = L + 1
  BY <1>3
<1>8. p[1].first = 1 /\ p[L + 1].last = n
  <2>1. CASE n = 1
    <3>1. r = <<>>
      BY <2>1 DEF PacksUpTo
    <3>2. L = 0
      BY <3>1 DEF L
    <3>3. QED
      BY <3>2, <2>1, <1>2, <1>4
  <2>2. CASE n # 1
    <3>1. r # <<>> /\ r[1].first = 1
      BY <2>2, <1>1 DEF PacksUpTo
    <3>2. 1 \in 1 .. L
      BY <3>1, <1>3, EmptySeq DEF L
    <3>3. QED
      BY <3>1, <3>2, <1>2, <1>4
  <2>3. QED
    BY <2>1, <2>2
<1>9. ASSUME NEW i \in 1 .. L + 1
      PROVE  /\ p[i].first <= p[i].last /\ p[i].last <= n /\ p[i].last - p[i].first < BatchSize
             /\ p[i].bytes = BodySize(SubSeq(s, p[i].first, p[i].last))
             /\ p[i].bytes <= Budget \/ TooLarge(s)
  <2>1. CASE i \in 1 .. L
    <3>1. p[i] = r[i]
      BY <2>1, <1>4
    <3>2. r[i].first <= r[i].last /\ r[i].last <= n - 1 /\ r[i].last \in Nat
      BY <2>1, <1>6
    <3>3. /\ r[i].last - r[i].first < BatchSize
          /\ r[i].bytes = BodySize(SubSeq(s, r[i].first, r[i].last))
          /\ r[i].bytes <= Budget \/ TooLarge(s)
      BY <2>1 DEF PacksUpTo, L
    <3>4. r[i].last <= n
      BY <3>2, <1>1
    <3>5. QED
      BY <3>1, <3>2, <3>3, <3>4
  <2>2. CASE i = L + 1
    <3>1. SubSeq(s, n, n) = <<s[n]>>
      <4>1. /\ SubSeq(s, n, n) \in Seq(Text) /\ Len(SubSeq(s, n, n)) = 1
            /\ SubSeq(s, n, n)[1] = s[n]
        BY <1>1, SubSeqProperties
      <4>2. /\ <<s[n]>> \in Seq(Text) /\ Len(<<s[n]>>) = 1 /\ <<s[n]>>[1] = s[n]
        BY <1>1
      <4>3. \A k \in 1 .. 1 : SubSeq(s, n, n)[k] = <<s[n]>>[k]
        BY <4>1, <4>2
      <4>4. QED
        BY <4>1, <4>2, <4>3, SeqEqual
    <3>2. BodySize(<<s[n]>>) = Bytes[s[n]]
      <4>1. <<>> \in Seq(Text)
        OBVIOUS
      <4>2. QED
        BY <1>1, <4>1, BodyGrows
    <3>3. Bytes[s[n]] <= Budget \/ TooLarge(s)
      <4>1. s[n] \in ToSet(s)
        BY <1>1 DEF ToSet
      <4>2. Budget \in Nat
        BY DEF EmbedAllAssumption
      <4>3. QED
        BY <1>1, <4>1, <4>2 DEF TooLarge
    <3>4. p[i].first = n /\ p[i].last = n /\ p[i].bytes = Bytes[s[n]]
      BY <2>2, <1>2, <1>4
    <3>5. BatchSize \in Nat \ {0}
      BY DEF EmbedAllAssumption
    <3>6. n <= n /\ n - n < BatchSize
      BY <3>5, <1>1
    <3>7. QED
      BY <3>1, <3>2, <3>3, <3>4, <3>6
  <2>3. QED
    BY <2>1, <2>2, <1>7
<1>10. ASSUME NEW i \in 2 .. L + 1 PROVE p[i].first = p[i - 1].last + 1
  <2>1. i \in Nat /\ i - 1 \in 1 .. L /\ p[i - 1] = r[i - 1]
    BY <1>3, <1>4
  <2>2. CASE i = L + 1
    <3>1. i - 1 = L /\ n > 1
      <4>1. r # <<>>
        BY <2>1, <1>3 DEF L
      <4>2. n - 1 # 0
        BY <4>1 DEF PacksUpTo
      <4>3. QED
        BY <4>2, <2>2, <1>1, <1>3
    <3>2. r[L].last = n - 1
      BY <3>1, <1>1 DEF PacksUpTo, L
    <3>3. p[i].first = n
      BY <2>2, <1>2, <1>4
    <3>4. QED
      BY <3>1, <3>2, <3>3, <2>1, <1>1
  <2>3. CASE i # L + 1
    <3>1. i \in 2 .. L /\ i \in 1 .. L
      BY <2>3, <1>3
    <3>2. r[i].first = r[i - 1].last + 1
      BY <3>1 DEF PacksUpTo, L
    <3>3. QED
      BY <3>1, <3>2, <2>1, <1>4
  <2>4. QED
    BY <2>2, <2>3
<1>11. ASSUME NEW i \in 1 .. L + 1, NEW j \in 1 .. L + 1, i < j PROVE p[i].last < p[j].first
  <2>1. i \in 1 .. L /\ p[i] = r[i]
    BY <1>3, <1>4, <1>11
  <2>2. CASE j = L + 1
    <3>1. p[j].first = n
      BY <2>2, <1>2, <1>4
    <3>2. r[i].last \in Nat /\ r[i].last <= n - 1
      BY <1>6, <2>1
    <3>3. QED
      BY <3>1, <3>2, <2>1, <1>1
  <2>3. CASE j \in 1 .. L
    BY <2>1, <2>3, <1>4, <1>11 DEF PacksUpTo, L
  <2>4. QED
    BY <2>2, <2>3, <1>7
<1>12. ASSUME NEW m \in 1 .. n PROVE \E i \in 1 .. L + 1 : m \in p[i].first .. p[i].last
  <2>1. CASE m = n
    <3>1. p[L + 1].first = n /\ p[L + 1].last = n
      BY <1>2, <1>4
    <3>2. L + 1 \in 1 .. L + 1 /\ n \in n .. n
      BY <1>1, <1>3
    <3>3. QED
      BY <3>1, <3>2, <2>1
  <2>2. CASE m # n
    <3>1. m \in 1 .. n - 1
      BY <2>2, <1>1
    <3>2. PICK i \in 1 .. L : m \in r[i].first .. r[i].last
      BY <3>1 DEF PacksUpTo, L
    <3>3. i \in 1 .. L + 1 /\ p[i] = r[i]
      BY <1>3, <1>4
    <3>4. QED
      BY <3>2, <3>3
  <2>3. QED
    BY <2>1, <2>2
<1>13. PacksUpTo(s, p, n)
  BY <1>1, <1>4, <1>5, <1>8, <1>9, <1>10, <1>11, <1>12 DEF PacksUpTo
<1>14. QED
  BY <1>13 DEF p, q

\* A text joins the last request.
LEMMA JoinsRequest ==
  ASSUME EmbedAllAssumption, NEW s \in Seq(Text), NEW n \in 1 .. Len(s), NEW r,
         PacksUpTo(s, r, n - 1), Len(r) > 0,
         n - r[Len(r)].first < BatchSize, Grown(r[Len(r)], s[n]) <= Budget
  PROVE  PacksUpTo(s, [r EXCEPT ![Len(r)] = [first |-> r[Len(r)].first, last |-> n,
                                             bytes |-> Grown(r[Len(r)], s[n])]], n)
<1> DEFINE L == Len(r)
           a == r[L].first
           q == [first |-> a, last |-> n, bytes |-> Grown(r[L], s[n])]
           p == [r EXCEPT ![L] = q]
<1>1. n \in Nat /\ n - 1 \in Nat /\ n >= 1 /\ s[n] \in Text /\ Bytes[s[n]] \in Nat /\ Len(s) \in Nat /\ n <= Len(s)
  BY DEF EmbedAllAssumption
<1>2. r \in Seq(Request(s)) /\ L \in Nat /\ L \in 1 .. L /\ r # <<>>
  BY DEF PacksUpTo
<1>3. n - 1 > 0 /\ r[1].first = 1 /\ r[L].last = n - 1
  BY <1>1, <1>2 DEF PacksUpTo
<1>4. r[L] \in Request(s)
  BY <1>2
<1>5. a \in 1 .. Len(s) /\ r[L].bytes \in Nat /\ a <= n - 1
  <2>1. a \in 1 .. Len(s) /\ r[L].bytes \in Nat
    BY <1>4 DEF Request
  <2>2. r[L].first <= r[L].last
    BY <1>2 DEF PacksUpTo
  <2>3. QED
    BY <2>1, <2>2, <1>3
<1>6. q \in Request(s) /\ q.first = a /\ q.last = n /\ q.bytes = r[L].bytes + 1 + Bytes[s[n]]
  <2>1. Grown(r[L], s[n]) = r[L].bytes + 1 + Bytes[s[n]]
    BY DEF Grown
  <2>2. r[L].bytes + 1 + Bytes[s[n]] \in Nat
    <3>1. \A x, y \in Nat : x + 1 + y \in Nat
      OBVIOUS
    <3>2. QED
      BY <3>1, <1>1, <1>5
  <2>3. QED
    BY <2>1, <2>2, <1>1, <1>5 DEF Request
<1>7. q.bytes <= Budget /\ n - a < BatchSize
  OBVIOUS
<1> HIDE DEF q
<1>8. /\ p \in Seq(Request(s)) /\ Len(p) = L /\ p[L] = q
      /\ \A i \in 1 .. L : i # L => p[i] = r[i]
  BY <1>2, <1>6, ExceptSeq
<1>9. p # <<>>
  BY <1>2, <1>8
<1> HIDE DEF p, a
<1>10. \A i \in 1 .. L : p[i].first = r[i].first
  BY <1>6, <1>8 DEF a
<1> HIDE DEF L
<1>11. p[1].first = 1 /\ p[L].last = n
  <2>1. 1 \in 1 .. L
    BY <1>2
  <2>2. QED
    BY <2>1, <1>3, <1>6, <1>8, <1>10
<1>12. ASSUME NEW i \in 1 .. L
      PROVE  /\ p[i].first <= p[i].last /\ p[i].last <= n /\ p[i].last - p[i].first < BatchSize
             /\ p[i].bytes = BodySize(SubSeq(s, p[i].first, p[i].last))
             /\ p[i].bytes <= Budget \/ TooLarge(s)
  <2>1. /\ r[i].first <= r[i].last /\ r[i].last <= n - 1 /\ r[i].last - r[i].first < BatchSize
        /\ r[i].bytes = BodySize(SubSeq(s, r[i].first, r[i].last))
        /\ r[i].bytes <= Budget \/ TooLarge(s)
    BY DEF PacksUpTo, L
  <2>2. CASE i # L
    <3>1. p[i] = r[i]
      BY <2>2, <1>8
    <3>2. r[i].last \in 1 .. Len(s)
      <4>1. r[i] \in Request(s)
        BY <1>2 DEF L
      <4>2. QED
        BY <4>1 DEF Request
    <3>3. r[i].last <= n
      BY <3>2, <2>1, <1>1
    <3>4. QED
      BY <3>1, <3>3, <2>1
  <2>3. CASE i = L
    <3>1. p[i].first = a /\ p[i].last = n /\ p[i].bytes = r[L].bytes + 1 + Bytes[s[n]]
      BY <2>3, <1>6, <1>8
    <3>2. r[L].bytes = BodySize(SubSeq(s, a, n - 1))
      BY <2>1, <2>3, <1>3 DEF a
    <3>3. /\ SubSeq(s, a, n) = Append(SubSeq(s, a, n - 1), s[n])
          /\ SubSeq(s, a, n - 1) \in Seq(Text)
      <4>1. a \in 1 .. Len(s) /\ n \in a .. Len(s) /\ a \in Int /\ n - 1 \in Int
        BY <1>1, <1>5
      <4>2. SubSeq(s, a, n) = SubSeq(s, a, n - 1) \o <<s[n]>>
        BY <4>1, SubSeqRecursiveSecond
      <4>3. SubSeq(s, a, n - 1) \in Seq(Text)
        <5>1. \A k \in a .. n - 1 : s[k] \in Text
          BY <4>1, <1>1
        <5>2. QED
          BY <4>1, <5>1, SubSeqProperties
      <4>4. QED
        BY <4>2, <4>3, <1>1, AppendIsConcat
    <3>4. BodySize(SubSeq(s, a, n)) = r[L].bytes + 1 + Bytes[s[n]]
      BY <3>2, <3>3, <1>1, BodyGrows
    <3>5. a <= n /\ n <= n
      BY <1>1, <1>5
    <3>6. p[i].bytes <= Budget
      BY <3>1, <1>6, <1>7
    <3>7. QED
      BY <3>1, <3>4, <3>5, <3>6, <1>7
  <2>4. QED
    BY <2>2, <2>3
<1>13. ASSUME NEW i \in 2 .. L PROVE p[i].first = p[i - 1].last + 1
  <2>1. i \in 1 .. L /\ i - 1 \in 1 .. L /\ i - 1 # L
    BY <1>2
  <2>2. r[i].first = r[i - 1].last + 1
    BY DEF PacksUpTo, L
  <2>3. QED
    BY <2>1, <2>2, <1>8, <1>10
<1>14. ASSUME NEW i \in 1 .. L, NEW j \in 1 .. L, i < j PROVE p[i].last < p[j].first
  <2>1. i # L
    BY <1>2, <1>14
  <2>2. r[i].last < r[j].first
    BY <1>14 DEF PacksUpTo, L
  <2>3. QED
    BY <2>1, <2>2, <1>8, <1>10
<1>15. ASSUME NEW m \in 1 .. n PROVE \E i \in 1 .. L : m \in p[i].first .. p[i].last
  <2>1. CASE m = n
    <3>1. n \in a .. n
      BY <1>1, <1>5
    <3>2. p[L].first = a /\ p[L].last = n
      BY <1>6, <1>8
    <3>3. QED
      BY <3>1, <3>2, <2>1, <1>2
  <2>2. CASE m # n
    <3>1. m \in 1 .. n - 1
      BY <2>2, <1>1
    <3>2. PICK i \in 1 .. L : m \in r[i].first .. r[i].last
      BY <3>1 DEF PacksUpTo, L
    <3>3. CASE i # L
      BY <3>2, <3>3, <1>8
    <3>4. CASE i = L
      <4>1. p[i].first = a /\ p[i].last = n
        BY <3>4, <1>6, <1>8
      <4>2. r[i].first = a /\ r[i].last = n - 1
        BY <3>4, <1>3 DEF a
      <4>3. m \in a .. n
        BY <4>2, <3>2, <1>1, <1>5
      <4>4. QED
        BY <4>1, <4>3
    <3>5. QED
      BY <3>3, <3>4
  <2>3. QED
    BY <2>1, <2>2
<1>16. PacksUpTo(s, p, n)
  <2>1. p \in Seq(Request(s)) /\ (n = 0 <=> p = <<>>) /\ Len(p) = L
    BY <1>1, <1>8, <1>9
  <2>2. QED
    BY <2>1, <1>11, <1>12, <1>13, <1>14, <1>15 DEF PacksUpTo
<1>17. QED
  BY <1>16 DEF p, q, a, L

\* Packing the texts of s.
LEMMA PackedFacts ==
  ASSUME EmbedAllAssumption, NEW s \in Seq(Text)
  PROVE  PacksUpTo(s, Packed(s), Len(s))
<1> DEFINE N == Len(s)
           Val(f, n) == IF n = 0 THEN <<>> ELSE Put(s, f[n - 1], n)
           Solves(f) == f = [n \in 0 .. N |-> Val(f, n)]
           R == Seq(Request(s))
           op == [x \in R \X (1 .. N) |-> Put(s, x[1], x[2])]
<1>1. N \in Nat
  OBVIOUS
<1>2. ASSUME NEW r \in R, NEW n \in 1 .. N PROVE Put(s, r, n) \in R
  <2>1. s[n] \in Text /\ Bytes[s[n]] \in Nat /\ n \in Nat
    BY DEF EmbedAllAssumption
  <2>2. [first |-> n, last |-> n, bytes |-> Bytes[s[n]]] \in Request(s)
    BY <2>1 DEF Request
  <2>3. Append(r, [first |-> n, last |-> n, bytes |-> Bytes[s[n]]]) \in R
    BY <2>2
  <2>4. CASE Len(r) > 0
    <3>1. Len(r) \in 1 .. Len(r)
      BY <2>4
    <3>2. r[Len(r)] \in Request(s)
      BY <3>1
    <3>3. r[Len(r)].first \in 1 .. Len(s) /\ Grown(r[Len(r)], s[n]) \in Nat
      <4>1. r[Len(r)].first \in 1 .. Len(s) /\ r[Len(r)].bytes \in Nat
        BY <3>2 DEF Request
      <4>2. \A x, y \in Nat : x + 1 + y \in Nat
        OBVIOUS
      <4>3. QED
        BY <4>1, <4>2, <2>1 DEF Grown
    <3> DEFINE q == [first |-> r[Len(r)].first, last |-> n, bytes |-> Grown(r[Len(r)], s[n])]
    <3>4. q \in Request(s)
      BY <3>3 DEF Request
    <3> HIDE DEF q
    <3>5. [r EXCEPT ![Len(r)] = q] \in R
      BY <3>1, <3>4, ExceptSeq
    <3>6. QED
      BY <3>5, <2>3 DEF Put, q
  <2>5. CASE ~(Len(r) > 0)
    BY <2>3, <2>5 DEF Put
  <2>6. QED
    BY <2>4, <2>5
<1>3. op \in [R \X (1 .. N) -> R] /\ \A r \in R, n \in 1 .. N : op[<<r, n>>] = Put(s, r, n)
  <2> HIDE DEF R
  <2>1. QED
    BY <1>2
<1> HIDE DEF op
<1>4. PICK f : IsRecursive(f, R, <<>>, N, op)
  <2>1. <<>> \in R
    OBVIOUS
  <2> HIDE DEF R, N
  <2>2. Recurs(R, <<>>, N, op)
    BY <1>1, <1>3, <2>1 DEF Recurs
  <2>3. QED
    BY <2>2, Recursion
<1> HIDE DEF R, N
<1>5. \A n \in 0 .. N : f[n] = Val(f, n)
  <2>1. ASSUME NEW n \in 1 .. N PROVE f[n] = Put(s, f[n - 1], n)
    <3>1. f[n - 1] \in R
      BY <1>1, <1>4 DEF IsRecursive
    <3>2. QED
      BY <3>1, <1>3, <1>4 DEF IsRecursive
  <2>2. QED
    BY <2>1, <1>1, <1>4 DEF IsRecursive
<1>6. Solves(f)
  <2> HIDE DEF Val
  <2>1. QED
    BY <1>4, <1>5 DEF IsRecursive
<1> DEFINE g == CHOOSE h : Solves(h)
<1>7. Solves(g)
  <2> HIDE DEF Solves
  <2>1. QED
    BY <1>6
<1>8. Packed(s) = g[N]
  BY DEF Packed, N
<1> HIDE DEF g
<1>9. \A n \in 0 .. N : g[n] = Val(g, n)
  <2> HIDE DEF Val
  <2>1. QED
    BY <1>7
<1>10. g[0] = <<>> /\ \A n \in 1 .. N : g[n] = Put(s, g[n - 1], n)
  BY <1>1, <1>9
<1> DEFINE T == {n \in Nat : n <= N => PacksUpTo(s, g[n], n)}
<1>11. 0 \in T
  <2>1. <<>> \in Seq(Request(s)) /\ Len(<<>>) = 0
    OBVIOUS
  <2>2. PacksUpTo(s, <<>>, 0)
    BY <2>1 DEF PacksUpTo
  <2>3. QED
    BY <2>2, <1>10
<1>12. ASSUME NEW m \in Nat, m \in T PROVE m + 1 \in T
  <2>1. SUFFICES ASSUME m + 1 <= N PROVE PacksUpTo(s, g[m + 1], m + 1)
    OBVIOUS
  <2> DEFINE r == g[m]
             k == m + 1
             joins == Len(r) > 0 /\ k - r[Len(r)].first < BatchSize /\ Grown(r[Len(r)], s[k]) <= Budget
  <2>2. k \in 1 .. N /\ k - 1 = m /\ m <= N
    BY <1>1, <2>1
  <2>3. PacksUpTo(s, r, k - 1) /\ g[k] = Put(s, r, k)
    BY <2>2, <1>10, <1>12
  <2>4. k \in 1 .. Len(s)
    BY <2>2 DEF N
  <2> HIDE DEF r, k
  <2>5. CASE joins
    <3>1. Put(s, r, k) = [r EXCEPT ![Len(r)] = [first |-> r[Len(r)].first, last |-> k,
                                                bytes |-> Grown(r[Len(r)], s[k])]]
      BY <2>5 DEF Put
    <3>2. PacksUpTo(s, Put(s, r, k), k)
      <4>1. Len(r) > 0 /\ k - r[Len(r)].first < BatchSize /\ Grown(r[Len(r)], s[k]) <= Budget
        BY <2>5
      <4>2. PacksUpTo(s, r, k - 1)
        BY <2>3
      <4>3. PacksUpTo(s, [r EXCEPT ![Len(r)] = [first |-> r[Len(r)].first, last |-> k,
                                                bytes |-> Grown(r[Len(r)], s[k])]], k)
        BY <4>1, <4>2, <2>4, JoinsRequest, Zenon
      <4>4. QED
        BY <3>1, <4>3, Zenon
    <3>3. QED
      BY <3>2, <2>3 DEF k
  <2>6. CASE ~joins
    <3>1. Put(s, r, k) = Append(r, [first |-> k, last |-> k, bytes |-> Bytes[s[k]]])
      BY <2>6 DEF Put
    <3>2. PacksUpTo(s, Put(s, r, k), k)
      BY <3>1, <2>3, <2>4, OpensRequest
    <3>3. QED
      BY <3>2, <2>3 DEF k
  <2>7. QED
    BY <2>5, <2>6
<1>13. Nat \subseteq T
  <2> HIDE DEF T
  <2>1. QED
    BY <1>11, <1>12, AllNaturals
<1>14. QED
  BY <1>1, <1>8, <1>13 DEF N

\* Texts of a request, and all of them one after the other.
TextsIn(s, q) == SubSeq(s, q.first, q.last)

LEMMA RequestTexts ==
  ASSUME EmbedAllAssumption, NEW s \in Seq(Text), NEW r, PacksUpTo(s, r, Len(s)), NEW i \in 1 .. Len(r)
  PROVE  /\ r[i].first \in 1 .. Len(s) /\ r[i].last \in r[i].first .. Len(s)
         /\ TextsIn(s, r[i]) \in Seq(Text) /\ Len(TextsIn(s, r[i])) = r[i].last - r[i].first + 1
         /\ Len(TextsIn(s, r[i])) \in 1 .. BatchSize
         /\ ToSet(TextsIn(s, r[i])) = {s[n] : n \in r[i].first .. r[i].last}
<1> DEFINE a == r[i].first
           z == r[i].last
<1>1. a \in 1 .. Len(s) /\ z \in 1 .. Len(s) /\ Len(s) \in Nat
  <2>1. r[i] \in Request(s)
    BY DEF PacksUpTo
  <2>2. QED
    BY <2>1 DEF Request
<1>2. a <= z /\ z - a < BatchSize
  BY DEF PacksUpTo
<1>b. TextsIn(s, r[i]) = SubSeq(s, a, z)
  BY DEF TextsIn
<1> HIDE DEF a, z
<1> DEFINE b == SubSeq(s, a, z)
<1>3. a \in Int /\ z \in Int /\ \A k \in a .. z : s[k] \in Text
  BY <1>1
<1>4. b \in Seq(Text) /\ Len(b) = z - a + 1 /\ \A k \in 1 .. z - a + 1 : b[k] = s[a + k - 1]
  BY <1>2, <1>3, SubSeqProperties
<1>c. TextsIn(s, r[i]) = b
  BY <1>b
<1> HIDE DEF b
<1>5. BatchSize \in Nat
  BY DEF EmbedAllAssumption
<1>6. Len(b) \in 1 .. BatchSize
  BY <1>1, <1>2, <1>4, <1>5
<1>7. ToSet(b) = {s[n] : n \in a .. z}
  <2>1. ToSet(b) = {b[k] : k \in 1 .. Len(b)}
    <3>1. DOMAIN b = 1 .. Len(b)
      BY <1>4
    <3>2. QED
      BY <3>1 DEF ToSet
  <2>2. ASSUME NEW n \in a .. z PROVE n - a + 1 \in 1 .. Len(b) /\ b[n - a + 1] = s[n]
    <3>1. n - a + 1 \in 1 .. z - a + 1 /\ a + (n - a + 1) - 1 = n
      BY <1>1
    <3>2. QED
      BY <3>1, <1>4
  <2>3. ASSUME NEW k \in 1 .. Len(b) PROVE a + k - 1 \in a .. z /\ b[k] = s[a + k - 1]
    <3>1. Len(b) = z - a + 1 /\ \A x \in 1 .. z - a + 1 : b[x] = s[a + x - 1]
      BY <1>4
    <3>2. k \in 1 .. z - a + 1
      BY <3>1
    <3>3. a + k - 1 \in a .. z
      BY <3>2, <1>1
    <3>4. QED
      BY <3>1, <3>2, <3>3
  <2>4. ASSUME NEW t \in ToSet(b) PROVE t \in {s[n] : n \in a .. z}
    BY <2>1, <2>3
  <2>5. ASSUME NEW t \in {s[n] : n \in a .. z} PROVE t \in ToSet(b)
    BY <2>1, <2>2
  <2>6. QED
    BY <2>4, <2>5
<1>8. z \in a .. Len(s)
  BY <1>1, <1>2
<1>9. QED
  BY <1>1, <1>4, <1>6, <1>7, <1>8, <1>c DEF a, z

LEMMA Flattened ==
  ASSUME EmbedAllAssumption, NEW s \in Seq(Text), NEW r, PacksUpTo(s, r, Len(s))
  PROVE  FlattenSeq([i \in DOMAIN r |-> SubSeq(s, r[i].first, r[i].last)]) = s
<1> DEFINE L == Len(r)
           w == [i \in DOMAIN r |-> SubSeq(s, r[i].first, r[i].last)]
           Val(h, i) == IF i = 1 THEN w[i] ELSE h[i - 1] \o w[i]
           Solves(h) == h = [i \in 1 .. L |-> Val(h, i)]
           g == [i \in 1 .. L |-> SubSeq(s, 1, r[i].last)]
<1>1. L \in Nat /\ DOMAIN r = 1 .. L /\ Len(s) \in Nat
  BY DEF PacksUpTo
<1>2. Len(w) = L
  BY <1>1
<1>3. CASE L = 0
  <2>1. r = <<>>
    BY <1>3, EmptySeq DEF PacksUpTo
  <2>2. s = <<>>
    <3>1. Len(s) = 0
      BY <2>1 DEF PacksUpTo
    <3>2. QED
      BY <3>1, EmptySeq
  <2>3. w = <<>>
    BY <2>1
  <2> HIDE DEF w
  <2>4. QED
    BY <1>2, <1>3, <2>2, <2>3 DEF FlattenSeq
<1>4. CASE L # 0
  <2>1. FlattenSeq(w) = (CHOOSE h : Solves(h))[L]
    <3> HIDE DEF w
    <3>1. QED
      BY <1>2, <1>4 DEF FlattenSeq
  <2>2. \A i \in 1 .. L : /\ r[i].first \in 1 .. Len(s) /\ r[i].last \in r[i].first .. Len(s)
                          /\ w[i] = SubSeq(s, r[i].first, r[i].last)
    <3>1. \A i \in 1 .. L : r[i].first \in 1 .. Len(s) /\ r[i].last \in r[i].first .. Len(s)
      BY RequestTexts
    <3>2. QED
      BY <3>1, <1>1
  <2> HIDE DEF w
  <2>3. 1 \in 1 .. L /\ w[1] = SubSeq(s, 1, r[1].last)
    <3>1. r # <<>>
      BY <1>4 DEF L
    <3>2. r[1].first = 1
      BY <3>1, <1>1 DEF PacksUpTo
    <3>3. 1 \in 1 .. L
      BY <1>1, <1>4
    <3>4. QED
      BY <3>2, <3>3, <2>2
  <2>4. ASSUME NEW i \in 2 .. L
        PROVE  /\ i - 1 \in 1 .. L
               /\ SubSeq(s, 1, r[i].last) = SubSeq(s, 1, r[i - 1].last) \o w[i]
    <3>1. i \in 1 .. L /\ i - 1 \in 1 .. L
      BY <1>1
    <3>2. r[i].first = r[i - 1].last + 1
      BY DEF PacksUpTo
    <3>3. r[i - 1].last \in 1 .. Len(s) /\ r[i].last \in 1 .. Len(s) /\ r[i - 1].last + 1 <= r[i].last
      <4>1. r[i - 1].first \in 1 .. Len(s) /\ r[i - 1].last \in r[i - 1].first .. Len(s)
        BY <3>1, <2>2
      <4>2. r[i].first \in 1 .. Len(s) /\ r[i].last \in r[i].first .. Len(s)
        BY <3>1, <2>2
      <4>3. QED
        BY <4>1, <4>2, <3>2, <1>1
    <3>4. w[i] = SubSeq(s, r[i - 1].last + 1, r[i].last)
      BY <3>1, <3>2, <2>2
    <3>5. SubSeq(s, 1, r[i].last) = SubSeq(s, 1, r[i - 1].last) \o SubSeq(s, r[i - 1].last + 1, r[i].last)
      <4>1. /\ 1 \in 1 .. Len(s) + 1 /\ r[i - 1].last \in 1 - 1 .. Len(s)
            /\ r[i].last \in r[i - 1].last .. Len(s)
        BY <3>3, <1>1
      <4>2. QED
        BY <4>1, ConcatAdjacentSubSeq
    <3>6. QED
      BY <3>1, <3>4, <3>5
  <2>5. Solves(g)
    <3>1. \A i \in 1 .. L : g[i] = Val(g, i)
      <4>1. \A i \in 1 .. L : g[i] = SubSeq(s, 1, r[i].last)
        OBVIOUS
      <4> HIDE DEF g
      <4>2. ASSUME NEW i \in 1 .. L PROVE g[i] = Val(g, i)
        <5>1. CASE i = 1
          BY <5>1, <4>1, <2>3
        <5>2. CASE i # 1
          <6>1. i \in 2 .. L
            BY <5>2, <1>1
          <6>2. g[i - 1] = SubSeq(s, 1, r[i - 1].last)
            BY <6>1, <4>1, <2>4
          <6>3. QED
            BY <6>1, <6>2, <5>2, <4>1, <2>4
        <5>3. QED
          BY <5>1, <5>2
      <4>3. QED
        BY <4>2
    <3>2. g = [i \in 1 .. L |-> g[i]]
      OBVIOUS
    <3> HIDE DEF g, Val
    <3>3. QED
      BY <3>1, <3>2
  <2> DEFINE h == CHOOSE x : Solves(x)
  <2>6. Solves(h)
    <3> HIDE DEF Solves
    <3>1. QED
      BY <2>5
  <2> HIDE DEF h, g
  <2>7. \A i \in 1 .. L : h[i] = Val(h, i)
    <3> HIDE DEF Val
    <3>1. QED
      BY <2>6
  <2> DEFINE T == {i \in Nat : i + 1 <= L => h[i + 1] = SubSeq(s, 1, r[i + 1].last)}
  <2>8. 0 \in T
    <3>1. h[1] = w[1]
      BY <2>3, <2>7
    <3>2. QED
      BY <3>1, <2>3
  <2>9. ASSUME NEW m \in Nat, m \in T PROVE m + 1 \in T
    <3>1. SUFFICES ASSUME (m + 1) + 1 <= L
                   PROVE h[(m + 1) + 1] = SubSeq(s, 1, r[(m + 1) + 1].last)
      OBVIOUS
    <3> DEFINE k == (m + 1) + 1
    <3>2. k \in 2 .. L /\ k \in 1 .. L /\ k # 1 /\ k - 1 = m + 1 /\ m + 1 <= L
      BY <3>1, <1>1
    <3> HIDE DEF k
    <3>3. h[k - 1] = SubSeq(s, 1, r[k - 1].last)
      BY <2>9, <3>2
    <3>4. h[k] = h[k - 1] \o w[k]
      BY <2>7, <3>2
    <3>5. h[k] = SubSeq(s, 1, r[k].last)
      BY <2>4, <3>2, <3>3, <3>4
    <3>6. QED
      BY <3>5 DEF k
  <2>10. Nat \subseteq T
    <3> HIDE DEF T
    <3>1. QED
      BY <2>8, <2>9, AllNaturals
  <2>11. h[L] = SubSeq(s, 1, r[L].last)
    <3>1. L - 1 \in Nat /\ (L - 1) + 1 = L
      BY <1>1, <1>4
    <3>2. L - 1 \in T
      BY <2>10, <3>1
    <3>3. (L - 1) + 1 <= L
      BY <3>1, <1>1
    <3>4. QED
      BY <3>1, <3>2, <3>3
  <2>12. r[L].last = Len(s)
    <3>1. Len(s) # 0
      BY <1>4, <1>1, EmptySeq DEF PacksUpTo
    <3>2. QED
      BY <3>1, <1>1 DEF PacksUpTo
  <2>13. SubSeq(s, 1, Len(s)) = s
    BY SubSeqFull
  <2>14. QED
    BY <2>1, <2>11, <2>12, <2>13 DEF h, w
<1>5. QED
  BY <1>3, <1>4

\* The texts that are missing, each once.
LEMMA MissingFacts ==
  ASSUME NEW s \in Seq(Text), NEW found
  PROVE  /\ Missing(s, found) \in Seq(Text)
         /\ \A m, n \in DOMAIN Missing(s, found) : Missing(s, found)[m] = Missing(s, found)[n] => m = n
         /\ ToSet(Missing(s, found)) = ToSet(s) \ found
<1> DEFINE N == Len(s)
           Adds(q, n) == IF s[n] \in found \cup ToSet(q) THEN q ELSE Append(q, s[n])
           Val(f, n) == IF n = 0 THEN <<>>
                        ELSE IF s[n] \in found \cup ToSet(f[n - 1]) THEN f[n - 1]
                        ELSE Append(f[n - 1], s[n])
           Solves(f) == f = [n \in 0 .. N |-> Val(f, n)]
           R == Seq(Text)
           op == [x \in R \X (1 .. N) |-> Adds(x[1], x[2])]
<1>1. N \in Nat /\ DOMAIN s = 1 .. N /\ \A n \in 1 .. N : s[n] \in Text
  OBVIOUS
<1>2. \A q \in R, n \in 1 .. N : Adds(q, n) \in R
  OBVIOUS
<1>3. op \in [R \X (1 .. N) -> R] /\ \A q \in R, n \in 1 .. N : op[<<q, n>>] = Adds(q, n)
  <2> HIDE DEF R, Adds
  <2>1. QED
    BY <1>2
<1> HIDE DEF op
<1>4. PICK f : IsRecursive(f, R, <<>>, N, op)
  <2>1. <<>> \in R
    OBVIOUS
  <2> HIDE DEF R, N
  <2>2. Recurs(R, <<>>, N, op)
    BY <1>1, <1>3, <2>1 DEF Recurs
  <2>3. QED
    BY <2>2, Recursion
<1> HIDE DEF N
<1>5. \A n \in 0 .. N : f[n] = Val(f, n)
  <2>1. ASSUME NEW n \in 1 .. N PROVE f[n] = Adds(f[n - 1], n)
    <3> HIDE DEF Adds, R
    <3>1. f[n - 1] \in R
      BY <1>1, <1>4 DEF IsRecursive
    <3>2. QED
      BY <3>1, <1>3, <1>4 DEF IsRecursive
  <2>2. f[0] = <<>>
    BY <1>4 DEF IsRecursive
  <2>3. \A n \in 0 .. N : n = 0 \/ n \in 1 .. N
    BY <1>1
  <2>4. \A n \in 1 .. N : n # 0
    BY <1>1
  <2>5. QED
    BY <2>1, <2>2, <2>3, <2>4
<1>6. Solves(f)
  <2> HIDE DEF Val
  <2>1. QED
    BY <1>4, <1>5 DEF IsRecursive
<1> DEFINE g == CHOOSE h : Solves(h)
<1>7. Solves(g)
  <2> HIDE DEF Solves
  <2>1. QED
    BY <1>6
<1>8. Missing(s, found) = g[N]
  BY DEF Missing, N
<1> HIDE DEF g
<1>9. \A n \in 0 .. N : g[n] = Val(g, n)
  <2> HIDE DEF Val
  <2>1. QED
    BY <1>7
<1>10. g[0] = <<>> /\ \A n \in 1 .. N : g[n] = Adds(g[n - 1], n)
  BY <1>1, <1>9
<1> DEFINE Holds(q, n) == /\ q \in Seq(Text) /\ \A i, j \in DOMAIN q : q[i] = q[j] => i = j
                          /\ \A t : t \in ToSet(q) <=> t \notin found /\ \E m \in 1 .. n : s[m] = t
           T == {n \in Nat : n <= N => Holds(g[n], n)}
<1>11. Holds(<<>>, 0)
  <2>1. DOMAIN <<>> = {} /\ <<>> \in Seq(Text) /\ 1 .. 0 = {}
    OBVIOUS
  <2>2. ToSet(<<>>) = {}
    BY <2>1 DEF ToSet
  <2>3. QED
    BY <2>1, <2>2
<1>12. 0 \in T
  <2> HIDE DEF Holds
  <2>1. QED
    BY <1>10, <1>11
<1>13. ASSUME NEW n \in 1 .. N, NEW q, Holds(q, n - 1) PROVE Holds(Adds(q, n), n)
  <2>1. \A t : (\E m \in 1 .. n : s[m] = t) <=> (\E m \in 1 .. n - 1 : s[m] = t) \/ t = s[n]
    <3>1. \A m : m \in 1 .. n <=> m \in 1 .. n - 1 \/ m = n
      BY <1>1
    <3>2. QED
      BY <3>1
  <2>2. CASE s[n] \in found \cup ToSet(q)
    <3>1. s[n] \in found \/ \E m \in 1 .. n - 1 : s[m] = s[n]
      BY <2>2, <1>13
    <3>2. QED
      BY <3>1, <2>1, <2>2, <1>13
  <2>3. CASE s[n] \notin found \cup ToSet(q)
    <3> DEFINE p == Append(q, s[n])
               L == Len(q)
    <3>1. q \in Seq(Text) /\ s[n] \in Text
      BY <1>1, <1>13
    <3>2. /\ p \in Seq(Text) /\ DOMAIN p = 1 .. L + 1 /\ L \in Nat /\ DOMAIN q = 1 .. L
          /\ p[L + 1] = s[n] /\ \A i \in 1 .. L : p[i] = q[i]
      BY <3>1, AppendProperties
    <3> HIDE DEF p, L
    <3>3. \A i : i \in 1 .. L + 1 <=> i \in 1 .. L \/ i = L + 1
      BY <3>2
    <3>4. \A t : t \in ToSet(q) <=> \E i \in 1 .. L : q[i] = t
      BY <3>2 DEF ToSet
    <3>5. \A t : t \in ToSet(p) <=> t \in ToSet(q) \/ t = s[n]
      <4>1. \A t : t \in ToSet(p) <=> \E i \in 1 .. L + 1 : p[i] = t
        BY <3>2 DEF ToSet
      <4>2. QED
        BY <4>1, <3>2, <3>3, <3>4
    <3>6. ASSUME NEW i \in DOMAIN p, NEW j \in DOMAIN p, p[i] = p[j] PROVE i = j
      <4>1. \A k \in 1 .. L : q[k] # s[n]
        BY <2>3, <3>4
      <4>2. \A x, y \in 1 .. L : q[x] = q[y] => x = y
        BY <1>13, <3>2
      <4>3. QED
        BY <4>1, <4>2, <3>2, <3>3, <3>6
    <3>7. \A t : t \in ToSet(p) <=> t \notin found /\ \E m \in 1 .. n : s[m] = t
      BY <3>5, <2>1, <2>3, <1>13
    <3>8. Adds(q, n) = p
      BY <2>3 DEF p
    <3>9. QED
      BY <3>2, <3>6, <3>7, <3>8
  <2>4. QED
    BY <2>2, <2>3
<1>14. ASSUME NEW m \in Nat, m \in T PROVE m + 1 \in T
  <2> HIDE DEF Holds, Adds
  <2>1. SUFFICES ASSUME m + 1 <= N PROVE Holds(g[m + 1], m + 1)
    OBVIOUS
  <2>2. m + 1 \in 1 .. N /\ (m + 1) - 1 = m /\ m <= N
    BY <1>1, <2>1
  <2>3. g[m + 1] = Adds(g[m], m + 1) /\ Holds(g[m], (m + 1) - 1)
    BY <2>2, <1>10, <1>14
  <2>4. QED
    BY <2>2, <2>3, <1>13
<1>15. N \in T
  <2> HIDE DEF T
  <2>1. QED
    BY <1>1, <1>12, <1>14, AllNaturals
<1>16. Holds(g[N], N)
  <2> HIDE DEF Holds
  <2>1. QED
    BY <1>1, <1>15
<1>17. ToSet(g[N]) = ToSet(s) \ found
  <2>1. \A t : t \in ToSet(s) <=> \E m \in 1 .. N : s[m] = t
    BY <1>1 DEF ToSet
  <2>2. QED
    BY <2>1, <1>16
<1>18. QED
  BY <1>8, <1>16, <1>17

-----------------------------------------------------------------------------
\* What Consistent says of one call, by the values of its variables.
AnsweredIn(pl, fi) ==
  {n \in DOMAIN pl : \E i \in ToSet(fi) : n \in Packed(pl)[i].first .. Packed(pl)[i].last}

TextsAt(pl, P) == {pl[n] : n \in P}

Progress(in, u, h, pl, fi) ==
  IF u THEN Count(in, h \cup TextsAt(pl, AnsweredIn(pl, fi))) ELSE Cardinality(AnsweredIn(pl, fi))

Planned(pl, in, u, h) == pl = IF u THEN Missing(in, h) ELSE in

Coherent(p, in, u, h, pl, ru, fi, fa, re, rs) ==
  /\ h \subseteq ToSet(in)
  /\ ru \cup ToSet(fi) \subseteq DOMAIN Packed(pl) /\ ru \cap ToSet(fi) = {}
  /\ ru # {} => ~TooLarge(pl)
  /\ pl # <<>> \/ p \in {"run", "write"} => Planned(pl, in, u, h)
  /\ p \in {"idle", "wait", "opening", "read"} => h = {} /\ pl = <<>> /\ ru = {} /\ fi = <<>>
  /\ re = Progress(in, u, h, pl, fi)
  /\ p \in {"write", "done"} => ToSet(fi) = DOMAIN Packed(pl)
  /\ p \in {"read", "write"} => u
  /\ p = "done" => rs = in /\ re = Len(in)
  /\ p = "failed" => fa # {} \/ TooLarge(pl)

LEMMA SameCardinality == ASSUME NEW S PROVE Cardinality(S) = Cardinality(S)
  BY DEF Cardinality, Cardinality, IsFiniteSet, IsFiniteSet

LEMMA InputFacts ==
  ASSUME EmbedAllAssumption, NEW in \in Inputs
  PROVE  in \in Seq(Text) /\ in # <<>> /\ Len(in) \in Nat /\ DOMAIN in = 1 .. Len(in) /\ Len(in) > 0
<1>1. in \in Seq(Text) /\ in # <<>>
  BY DEF EmbedAllAssumption
<1>2. Len(in) \in Nat /\ DOMAIN in = 1 .. Len(in)
  BY <1>1
<1>3. QED
  BY <1>1, <1>2, EmptySeq

\* The positions of a sequence, and of those with texts of two sets.
LEMMA CountFacts ==
  ASSUME NEW s \in Seq(Text), NEW A, NEW B
  PROVE  /\ Count(s, A) \in Nat /\ Count(s, A) <= Len(s) /\ Count(s, {}) = 0
         /\ (ToSet(s) \subseteq A => Count(s, A) = Len(s))
         /\ (A \cap B = {} => Count(s, A \cup B) = Count(s, A) + Count(s, B))
<1> DEFINE At(X) == {i \in DOMAIN s : s[i] \in X}
<1>1. Len(s) \in Nat /\ DOMAIN s = 1 .. Len(s)
  OBVIOUS
<1>2. IsFiniteSet(DOMAIN s) /\ Cardinality(DOMAIN s) = Len(s)
  <2>1. IsFiniteSet(1 .. Len(s)) /\ Cardinality(1 .. Len(s)) = IF 1 > Len(s) THEN 0 ELSE Len(s) - 1 + 1
    BY <1>1, FS_Interval
  <2>2. QED
    BY <1>1, <2>1
<1>3. \A X : /\ At(X) \subseteq DOMAIN s /\ IsFiniteSet(At(X))
             /\ Cardinality(At(X)) \in Nat /\ Cardinality(At(X)) <= Len(s)
  <2>1. \A X : At(X) \subseteq DOMAIN s
    OBVIOUS
  <2> HIDE DEF At
  <2>2. QED
    BY <1>2, <2>1, FS_Subset, FS_CardinalityType
<1>4. \A X : Count(s, X) = Cardinality(At(X))
  BY SameCardinality DEF Count
<1>5. Count(s, {}) = 0
  <2>1. At({}) = {}
    OBVIOUS
  <2> HIDE DEF At
  <2>2. QED
    BY <2>1, <1>4, FS_EmptySet
<1>6. ASSUME ToSet(s) \subseteq A PROVE Count(s, A) = Len(s)
  <2>1. At(A) = DOMAIN s
    BY <1>6 DEF ToSet
  <2> HIDE DEF At
  <2>2. QED
    BY <2>1, <1>2, <1>4
<1>7. ASSUME A \cap B = {} PROVE Count(s, A \cup B) = Count(s, A) + Count(s, B)
  <2>1. At(A \cup B) = At(A) \cup At(B) /\ At(A) \cap At(B) = {}
    BY <1>7
  <2> HIDE DEF At
  <2>2. Cardinality(At(A) \cup At(B)) = Cardinality(At(A)) + Cardinality(At(B))
    <3>1. IsFiniteSet(At(A)) /\ IsFiniteSet(At(B)) /\ Cardinality(At(A)) \in Nat /\ Cardinality(At(B)) \in Nat
      BY <1>3
    <3>2. Cardinality(At(A) \cup At(B)) = Cardinality(At(A)) + Cardinality(At(B)) - Cardinality({})
      BY <2>1, <3>1, FS_Union
    <3>3. QED
      BY <3>1, <3>2, FS_EmptySet
  <2>3. /\ Count(s, A \cup B) = Cardinality(At(A \cup B))
        /\ Count(s, A) = Cardinality(At(A)) /\ Count(s, B) = Cardinality(At(B))
    BY <1>4
  <2>4. QED
    BY <2>1, <2>2, <2>3
<1>8. QED
  <2> HIDE DEF At
  <2>1. QED
    BY <1>3, <1>4, <1>5, <1>6, <1>7

\* Nothing is packed of nothing.
LEMMA NothingPacked == ASSUME EmbedAllAssumption PROVE DOMAIN Packed(<<>>) = {}
<1>1. <<>> \in Seq(Text) /\ Len(<<>>) = 0
  OBVIOUS
<1>2. PacksUpTo(<<>>, Packed(<<>>), 0)
  BY <1>1, PackedFacts
<1>3. Packed(<<>>) = <<>>
  BY <1>2 DEF PacksUpTo
<1>4. QED
  BY <1>3

\* A call that has sent nothing.
LEMMA SoundFresh ==
  ASSUME EmbedAllAssumption, NEW in \in Inputs, NEW u, NEW fa, NEW rs,
         NEW p \in {"idle", "wait", "opening", "read"}, p = "read" => u
  PROVE  Coherent(p, in, u, {}, <<>>, {}, <<>>, fa, 0, rs)
<1>1. ToSet(<<>>) = {} /\ AnsweredIn(<<>>, <<>>) = {}
  <2>1. DOMAIN <<>> = {}
    OBVIOUS
  <2>2. QED
    BY <2>1 DEF ToSet, AnsweredIn
<1>2. Cardinality({}) = 0
  BY FS_EmptySet
<1>3. Count(in, {}) = 0
  BY InputFacts, CountFacts
<1>4. {} \cup TextsAt(<<>>, {}) = {}
  BY DEF TextsAt
<1>5. QED
  BY <1>1, <1>2, <1>3, <1>4, NothingPacked DEF Coherent, Progress

\* A call that has planned what to send.
LEMMA SoundPlanned ==
  ASSUME EmbedAllAssumption, NEW in \in Inputs, NEW u \in BOOLEAN, NEW h,
         h \subseteq ToSet(in), ~u => h = {},
         NEW s, s = IF u THEN Missing(in, h) ELSE in,
         NEW re, re = IF Count(in, h) > 0 THEN Count(in, h) ELSE 0,
         NEW fa, NEW rs, s = <<>> => rs = in,
         NEW p, p = IF s = <<>> THEN "done" ELSE IF TooLarge(s) THEN "failed" ELSE "run"
  PROVE  Coherent(p, in, u, h, s, {}, <<>>, fa, re, rs)
<1>1. in \in Seq(Text) /\ in # <<>> /\ Len(in) > 0
  BY InputFacts
<1>2. ToSet(<<>>) = {} /\ AnsweredIn(s, <<>>) = {}
  <2>1. DOMAIN <<>> = {}
    OBVIOUS
  <2>2. ToSet(<<>>) = {}
    BY <2>1 DEF ToSet
  <2>3. QED
    BY <2>2 DEF AnsweredIn
<1>3. re = Count(in, h)
  <2>1. Count(in, h) \in Nat
    BY <1>1, CountFacts
  <2>2. QED
    BY <2>1
<1>4. re = IF u THEN Count(in, h \cup TextsAt(s, AnsweredIn(s, <<>>)))
           ELSE Cardinality(AnsweredIn(s, <<>>))
  <2>1. h \cup TextsAt(s, {}) = h
    BY DEF TextsAt
  <2>2. ~u => Count(in, h) = 0
    BY <1>1, CountFacts
  <2>3. QED
    BY <2>1, <2>2, <1>2, <1>3, FS_EmptySet
<1>5. s = <<>> => re = Len(in)
  <2>1. SUFFICES ASSUME s = <<>> PROVE ToSet(in) \subseteq h
    BY <1>1, <1>3, CountFacts
  <2>2. u /\ Missing(in, h) = <<>>
    BY <1>1, <2>1
  <2>3. ToSet(Missing(in, h)) = ToSet(in) \ h
    BY <1>1, MissingFacts
  <2>4. QED
    BY <2>2, <2>3, <1>2
<1>6. s = <<>> => ToSet(<<>>) = DOMAIN Packed(s)
  BY <1>2, NothingPacked
<1>7. QED
  BY <1>2, <1>4, <1>5, <1>6 DEF Coherent, Planned, Progress

\* What has been planned, and how it is packed.
LEMMA PlanFacts ==
  ASSUME EmbedAllAssumption, NEW in \in Inputs, NEW u \in BOOLEAN, NEW h, NEW pl,
         Planned(pl, in, u, h)
  PROVE  /\ pl \in Seq(Text) /\ PacksUpTo(pl, Packed(pl), Len(pl))
         /\ Len(pl) \in Nat /\ DOMAIN pl = 1 .. Len(pl)
         /\ DOMAIN Packed(pl) = 1 .. Len(Packed(pl)) /\ Len(Packed(pl)) \in Nat
         /\ u => /\ \A m, n \in DOMAIN pl : pl[m] = pl[n] => m = n
                 /\ ToSet(pl) = ToSet(in) \ h
<1>1. in \in Seq(Text)
  BY InputFacts
<1>2. (u => pl = Missing(in, h)) /\ (~u => pl = in)
  BY DEF Planned
<1>3. pl \in Seq(Text)
  BY <1>1, <1>2, MissingFacts
<1>4. PacksUpTo(pl, Packed(pl), Len(pl))
  BY <1>3, PackedFacts
<1>5. Packed(pl) \in Seq(Request(pl))
  BY <1>4 DEF PacksUpTo
<1>6. u => /\ \A m, n \in DOMAIN pl : pl[m] = pl[n] => m = n
           /\ ToSet(pl) = ToSet(in) \ h
  BY <1>1, <1>2, MissingFacts
<1>7. QED
  BY <1>3, <1>4, <1>5, <1>6

\* A request is answered.
LEMMA SoundAnswered ==
  ASSUME EmbedAllAssumption, NEW in \in Inputs, NEW u \in BOOLEAN, NEW h, NEW pl, NEW ru, NEW fi \in Seq(Nat),
         NEW fa, NEW re, NEW rs, NEW p, Coherent(p, in, u, h, pl, ru, fi, fa, re, rs), NEW i \in ru
  PROVE  LET b == SubSeq(pl, Packed(pl)[i].first, Packed(pl)[i].last)
             w == IF u THEN Count(in, ToSet(b)) ELSE Len(b)
         IN Coherent(p, in, u, h, pl, ru \ {i}, Append(fi, i), fa, re + w, rs)
<1> DEFINE r == Packed(pl)
           D == r[i].first .. r[i].last
           A == AnsweredIn(pl, fi)
           b == SubSeq(pl, r[i].first, r[i].last)
           w == IF u THEN Count(in, ToSet(b)) ELSE Len(b)
<1>1. i \in DOMAIN r /\ i \notin ToSet(fi) /\ ToSet(fi) \subseteq DOMAIN r
  BY DEF Coherent
<1>2. pl # <<>>
  BY <1>1, NothingPacked
<1>3. Planned(pl, in, u, h)
  BY <1>2 DEF Coherent
<1>4. /\ pl \in Seq(Text) /\ PacksUpTo(pl, Packed(pl), Len(pl)) /\ Len(pl) \in Nat /\ DOMAIN pl = 1 .. Len(pl)
      /\ DOMAIN Packed(pl) = 1 .. Len(Packed(pl)) /\ Len(Packed(pl)) \in Nat
      /\ u => /\ \A m, n \in DOMAIN pl : pl[m] = pl[n] => m = n
              /\ ToSet(pl) = ToSet(in) \ h
  <2> HIDE DEF r, A, D, b, w
  <2>1. QED
    BY <1>3, PlanFacts
<1>r. /\ PacksUpTo(pl, r, Len(pl)) /\ DOMAIN r = 1 .. Len(r) /\ Len(r) \in Nat /\ i \in 1 .. Len(r)
  BY <1>1, <1>4
<1> HIDE DEF r
<1>5. \A j \in DOMAIN r : r[j].first \in 1 .. Len(pl) /\ r[j].last \in r[j].first .. Len(pl)
  BY <1>4, <1>r, RequestTexts
<1>6. /\ b \in Seq(Text) /\ Len(b) = r[i].last - r[i].first + 1
      /\ ToSet(b) = TextsAt(pl, D)
  <2>1. TextsIn(pl, r[i]) = b
    BY DEF TextsIn
  <2> HIDE DEF A, D, b, w
  <2>2. /\ TextsIn(pl, r[i]) \in Seq(Text) /\ Len(TextsIn(pl, r[i])) = r[i].last - r[i].first + 1
        /\ ToSet(TextsIn(pl, r[i])) = {pl[n] : n \in r[i].first .. r[i].last}
    BY <1>4, <1>r, RequestTexts
  <2>3. QED
    BY <2>1, <2>2 DEF D, TextsAt
<1> HIDE DEF b
<1>7. p \notin {"idle", "wait", "opening", "read", "write", "done"}
  BY <1>1 DEF Coherent, r
<1>8. ToSet(Append(fi, i)) = ToSet(fi) \cup {i}
  <2>1. i \in Nat
    BY <1>r
  <2> DEFINE q == Append(fi, i)
             L == Len(fi)
  <2>2. /\ DOMAIN q = 1 .. L + 1 /\ DOMAIN fi = 1 .. L /\ L \in Nat
        /\ q[L + 1] = i /\ \A k \in 1 .. L : q[k] = fi[k]
    BY <2>1, AppendProperties
  <2> HIDE DEF q, L
  <2>3. \A k : k \in 1 .. L + 1 <=> k \in 1 .. L \/ k = L + 1
    BY <2>2
  <2>4. \A t : t \in ToSet(q) <=> t \in ToSet(fi) \/ t = i
    <3>1. \A t : t \in ToSet(q) <=> \E k \in 1 .. L + 1 : q[k] = t
      BY <2>2 DEF ToSet
    <3>2. \A t : t \in ToSet(fi) <=> \E k \in 1 .. L : fi[k] = t
      BY <2>2 DEF ToSet
    <3>3. QED
      BY <3>1, <3>2, <2>2, <2>3
  <2>5. QED
    BY <2>4 DEF q
<1>9. AnsweredIn(pl, Append(fi, i)) = A \cup D
  <2>1. D \subseteq DOMAIN pl
    BY <1>1, <1>4, <1>5
  <2>2. QED
    BY <2>1, <1>8 DEF AnsweredIn, r
<1>10. A \cap D = {} /\ A \subseteq DOMAIN pl
  <2>1. ASSUME NEW n \in D, NEW j \in ToSet(fi), n \in r[j].first .. r[j].last PROVE FALSE
    <3>1. j \in DOMAIN r /\ j # i
      BY <1>1
    <3>2. /\ r[i].first \in Nat /\ r[i].last \in Nat /\ r[j].first \in Nat /\ r[j].last \in Nat
      <4>1. /\ r[i].first \in 1 .. Len(pl) /\ r[i].last \in r[i].first .. Len(pl)
            /\ r[j].first \in 1 .. Len(pl) /\ r[j].last \in r[j].first .. Len(pl)
        BY <3>1, <1>1, <1>5
      <4>2. Len(pl) \in Nat
        BY <1>4
      <4>3. QED
        BY <4>1, <4>2
    <3>3. r[i].last < r[j].first \/ r[j].last < r[i].first
      <4>1. i < j \/ j < i
        BY <3>1, <1>r
      <4>2. QED
        BY <4>1, <3>1, <1>r DEF PacksUpTo
    <3>4. QED
      BY <3>2, <3>3, <2>1
  <2>2. A \subseteq DOMAIN pl
    BY DEF AnsweredIn
  <2>3. A \cap D = {}
    BY <2>1 DEF AnsweredIn, r
  <2>4. QED
    BY <2>2, <2>3
<1> HIDE DEF A
<1>11. re + w = IF u THEN Count(in, h \cup TextsAt(pl, A \cup D)) ELSE Cardinality(A \cup D)
  <2>1. CASE u
    <3>1. re = Count(in, h \cup TextsAt(pl, A)) /\ w = Count(in, TextsAt(pl, D))
      BY <2>1, <1>6 DEF Coherent, Progress, A
    <3>2. (h \cup TextsAt(pl, A)) \cap TextsAt(pl, D) = {}
      <4>1. D \subseteq DOMAIN pl
        BY <1>1, <1>4, <1>5
      <4>2. ASSUME NEW n \in D PROVE pl[n] \notin h
        <5>1. pl[n] \in ToSet(pl)
          BY <4>1 DEF ToSet
        <5>2. QED
          BY <5>1, <2>1, <1>4
      <4>3. ASSUME NEW n \in D, NEW m \in A PROVE pl[n] # pl[m]
        BY <4>1, <2>1, <1>4, <1>10
      <4>4. QED
        BY <4>2, <4>3 DEF TextsAt
    <3>3. (h \cup TextsAt(pl, A)) \cup TextsAt(pl, D) = h \cup TextsAt(pl, A \cup D)
      BY DEF TextsAt
    <3>4. in \in Seq(Text)
      BY InputFacts
    <3> DEFINE X == h \cup TextsAt(pl, A)
               Y == TextsAt(pl, D)
    <3>5. X \cap Y = {} /\ re = Count(in, X) /\ w = Count(in, Y)
      BY <3>1, <3>2
    <3>6. X \cup Y = h \cup TextsAt(pl, A \cup D)
      BY <3>3
    <3> HIDE DEF X, Y, w, D
    <3>7. Count(in, X \cup Y) = Count(in, X) + Count(in, Y)
      BY <3>4, <3>5, CountFacts
    <3>8. QED
      BY <3>5, <3>6, <3>7, <2>1
  <2>2. CASE ~u
    <3>1. re = Cardinality(A) /\ w = Len(b)
      BY <2>2 DEF Coherent, Progress, A
    <3>2. r[i].first \in Nat /\ r[i].last \in Nat /\ r[i].first <= r[i].last
      BY <1>1, <1>4, <1>5
    <3>3. IsFiniteSet(D) /\ Cardinality(D) = r[i].last - r[i].first + 1
      <4>1. /\ IsFiniteSet(D)
            /\ Cardinality(D) = IF r[i].first > r[i].last THEN 0 ELSE r[i].last - r[i].first + 1
        <5>1. r[i].first \in Int /\ r[i].last \in Int
          BY <3>2
        <5>2. QED
          BY <5>1, FS_Interval
      <4>2. QED
        BY <4>1, <3>2
    <3> HIDE DEF D
    <3>4. IsFiniteSet(A)
      <4>1. IsFiniteSet(1 .. Len(pl))
        BY <1>4, FS_Interval
      <4>2. QED
        BY <4>1, <1>4, <1>10, FS_Subset
    <3>5. Cardinality(A \cup D) = Cardinality(A) + Cardinality(D)
      <4>1. Cardinality(A \cup D) = Cardinality(A) + Cardinality(D) - Cardinality({})
        BY <3>3, <3>4, <1>10, FS_Union
      <4>2. Cardinality(A) \in Nat /\ Cardinality(D) \in Nat
        BY <3>3, <3>4, FS_CardinalityType
      <4>3. QED
        BY <4>1, <4>2, FS_EmptySet
    <3>6. QED
      BY <3>1, <3>3, <3>5, <1>6, <2>2
  <2>3. QED
    BY <2>1, <2>2
<1> HIDE DEF w, D
<1>12. /\ h \subseteq ToSet(in)
       /\ (ru \ {i}) \cup ToSet(Append(fi, i)) \subseteq DOMAIN Packed(pl)
       /\ (ru \ {i}) \cap ToSet(Append(fi, i)) = {} /\ ~TooLarge(pl)
       /\ p = "failed" => fa # {} \/ TooLarge(pl)
  BY <1>1, <1>8 DEF Coherent, r
<1>13. Coherent(p, in, u, h, pl, ru \ {i}, Append(fi, i), fa, re + w, rs)
  BY <1>3, <1>7, <1>9, <1>11, <1>12 DEF Coherent, Progress
<1>14. QED
  BY <1>13 DEF w, b, r

\* Requests are sent, fail, or are cancelled.
LEMMA SoundRequests ==
  ASSUME EmbedAllAssumption, NEW in, NEW u, NEW h, NEW pl, NEW ru, NEW fi, NEW fa, NEW re, NEW rs, NEW p,
         Coherent(p, in, u, h, pl, ru, fi, fa, re, rs)
  PROVE  /\ Coherent("cancelled", in, u, h, pl, {}, fi, fa, re, rs)
         /\ \A i \in ru : Coherent("failed", in, u, h, pl, ru \ {i}, fi, fa \cup {i}, re, rs)
         /\ \A i \in DOMAIN Packed(pl) \ (ru \cup fa \cup ToSet(fi)) :
              ~TooLarge(pl) => Coherent(p, in, u, h, pl, ru \cup {i}, fi, fa, re, rs)
<1>1. Coherent("cancelled", in, u, h, pl, {}, fi, fa, re, rs)
  BY DEF Coherent
<1>2. ASSUME NEW i \in ru PROVE Coherent("failed", in, u, h, pl, ru \ {i}, fi, fa \cup {i}, re, rs)
  BY DEF Coherent
<1>3. ASSUME NEW i \in DOMAIN Packed(pl) \ (ru \cup fa \cup ToSet(fi)), ~TooLarge(pl)
      PROVE  Coherent(p, in, u, h, pl, ru \cup {i}, fi, fa, re, rs)
  BY <1>3, NothingPacked DEF Coherent
<1>4. QED
  BY <1>1, <1>2, <1>3

\* When all requests are answered, every text of the plan is.
AllOf(pl, fi) == ToSet(fi) = DOMAIN Packed(pl)

LEMMA AllAnswered ==
  ASSUME EmbedAllAssumption, NEW in \in Inputs, NEW u \in BOOLEAN, NEW h, NEW pl, Planned(pl, in, u, h),
         NEW fi, AllOf(pl, fi), h \subseteq ToSet(in)
  PROVE  Progress(in, u, h, pl, fi) = Len(in)
<1> DEFINE r == Packed(pl)
           A == AnsweredIn(pl, fi)
<1>1. /\ pl \in Seq(Text) /\ PacksUpTo(pl, Packed(pl), Len(pl)) /\ Len(pl) \in Nat /\ DOMAIN pl = 1 .. Len(pl)
      /\ DOMAIN Packed(pl) = 1 .. Len(Packed(pl)) /\ Len(Packed(pl)) \in Nat
      /\ u => /\ \A m, n \in DOMAIN pl : pl[m] = pl[n] => m = n
              /\ ToSet(pl) = ToSet(in) \ h
  BY PlanFacts
<1>2. A = DOMAIN pl
  <2>1. \A n \in DOMAIN pl : \E i \in DOMAIN r : n \in r[i].first .. r[i].last
    BY <1>1 DEF PacksUpTo
  <2>2. QED
    BY <2>1 DEF AnsweredIn, AllOf
<1> HIDE DEF A, r
<1>3. ASSUME ~u PROVE Cardinality(A) = Len(in)
  <2>1. pl = in
    BY <1>3 DEF Planned
  <2>2. Cardinality(1 .. Len(pl)) = IF 1 > Len(pl) THEN 0 ELSE Len(pl) - 1 + 1
    <3>1. 1 \in Int /\ Len(pl) \in Int
      BY <1>1
    <3>2. QED
      BY <3>1, FS_Interval
  <2>3. Cardinality(A) = Len(pl)
    BY <2>2, <1>1, <1>2
  <2>4. QED
    BY <2>1, <2>3
<1>4. ASSUME u PROVE Count(in, h \cup TextsAt(pl, A)) = Len(in)
  <2>1. TextsAt(pl, A) = ToSet(pl)
    BY <1>2 DEF ToSet, TextsAt
  <2>2. ToSet(in) \subseteq h \cup TextsAt(pl, A)
    BY <2>1, <1>1, <1>4
  <2>3. QED
    BY <2>2, InputFacts, CountFacts
<1>5. QED
  BY <1>3, <1>4 DEF A, Progress

\* All requests of a call are answered.
LEMMA SoundGathered ==
  ASSUME EmbedAllAssumption, NEW in \in Inputs, NEW u \in BOOLEAN, NEW h, NEW pl, NEW ru, NEW fi,
         NEW fa, NEW re, NEW rs, Coherent("run", in, u, h, pl, ru, fi, fa, re, rs),
         ToSet(fi) = DOMAIN Packed(pl)
  PROVE  /\ u => Coherent("write", in, u, h, pl, ru, fi, fa, re, rs)
         /\ ~u => pl = in /\ Coherent("done", in, u, h, pl, ru, fi, fa, re, in)
<1>1. Planned(pl, in, u, h) /\ h \subseteq ToSet(in) /\ AllOf(pl, fi)
  BY DEF Coherent, AllOf
<1>2. u => Coherent("write", in, u, h, pl, ru, fi, fa, re, rs)
  BY DEF Coherent
<1>3. ASSUME ~u PROVE pl = in /\ Coherent("done", in, u, h, pl, ru, fi, fa, re, in)
  <2>1. pl = in
    BY <1>1, <1>3 DEF Planned
  <2>2. re = Len(in)
    <3>1. Progress(in, u, h, pl, fi) = Len(in)
      BY <1>1, AllAnswered
    <3>2. QED
      BY <3>1, <1>3 DEF Coherent
  <2> HIDE <2>1
  <2>3. Coherent("done", in, u, h, pl, ru, fi, fa, re, in)
    BY <2>2 DEF Coherent
  <2>4. QED
    BY <2>1, <2>3
<1>4. QED
  BY <1>2, <1>3

\* The vectors of a call are written and scattered to the positions of its input.
LEMMA SoundWritten ==
  ASSUME EmbedAllAssumption, NEW in \in Inputs, NEW u \in BOOLEAN, NEW h, NEW pl, NEW ru, NEW fi,
         NEW fa, NEW re, NEW rs, Coherent("write", in, u, h, pl, ru, fi, fa, re, rs)
  PROVE  /\ u /\ Coherent("done", in, u, h, pl, ru, fi, fa, re, in)
         /\ [i \in DOMAIN in |-> IF in[i] \in h THEN in[i]
                                 ELSE pl[CHOOSE n \in DOMAIN pl : pl[n] = in[i]]] = in
<1>1. u /\ Planned(pl, in, u, h) /\ h \subseteq ToSet(in) /\ AllOf(pl, fi)
  BY DEF Coherent, AllOf
<1>2. re = Len(in)
  <2>1. Progress(in, u, h, pl, fi) = Len(in)
    <3>1. Planned(pl, in, u, h) /\ h \subseteq ToSet(in) /\ AllOf(pl, fi)
      BY <1>1
    <3>2. QED
      BY <3>1, AllAnswered
  <2>2. QED
    BY <2>1, <1>1 DEF Coherent
<1>3. Coherent("done", in, u, h, pl, ru, fi, fa, re, in)
  BY <1>1, <1>2 DEF Coherent, AllOf
<1>4. ToSet(pl) = ToSet(in) \ h
  <2>1. Planned(pl, in, u, h)
    BY <1>1
  <2>2. /\ pl \in Seq(Text) /\ PacksUpTo(pl, Packed(pl), Len(pl))
        /\ Len(pl) \in Nat /\ DOMAIN pl = 1 .. Len(pl)
        /\ DOMAIN Packed(pl) = 1 .. Len(Packed(pl)) /\ Len(Packed(pl)) \in Nat
        /\ u => /\ \A m, n \in DOMAIN pl : pl[m] = pl[n] => m = n
                /\ ToSet(pl) = ToSet(in) \ h
    BY <2>1, PlanFacts
  <2>3. QED
    BY <2>2, <1>1
<1>5. ASSUME NEW i \in DOMAIN in, in[i] \notin h PROVE pl[CHOOSE n \in DOMAIN pl : pl[n] = in[i]] = in[i]
  <2>1. in[i] \in ToSet(pl)
    BY <1>4, <1>5 DEF ToSet
  <2>2. \E n \in DOMAIN pl : pl[n] = in[i]
    BY <2>1 DEF ToSet
  <2>3. QED
    BY <2>2
<1>6. in \in Seq(Text)
  BY InputFacts
<1> DEFINE g == [i \in DOMAIN in |-> IF in[i] \in h THEN in[i]
                                     ELSE pl[CHOOSE n \in DOMAIN pl : pl[n] = in[i]]]
<1>7. \A i \in DOMAIN in : g[i] = in[i]
  BY <1>5
<1>8. g = [i \in DOMAIN in |-> g[i]] /\ in = [i \in DOMAIN in |-> in[i]]
  BY <1>6
<1>9. g = in
  <2> HIDE DEF g
  <2>1. QED
    BY <1>7, <1>8
<1>10. QED
  BY <1>1, <1>3, <1>9

-----------------------------------------------------------------------------
\* The state of the calls.
Shape ==
  /\ pc \in [Call -> {"idle", "wait", "opening", "read", "run", "write", "done", "failed", "cancelled"}]
  /\ input \in [Call -> Inputs] /\ uses \in [Call -> BOOLEAN]
  /\ hits \in [Call -> SUBSET Text] /\ plan \in [Call -> Seq(Text)] /\ result \in [Call -> Seq(Text)]
  /\ running \in [Call -> SUBSET Nat] /\ failed \in [Call -> SUBSET Nat]
  /\ finished \in [Call -> Seq(Nat)] /\ reported \in [Call -> Nat]

SoundAt(c) ==
  Coherent(pc[c], input[c], uses[c], hits[c], plan[c], running[c], finished[c], failed[c], reported[c],
        result[c])

\* Only the call c takes a step.
Only(c) ==
  \A d \in Call \ {c} :
    /\ pc'[d] = pc[d] /\ uses'[d] = uses[d] /\ hits'[d] = hits[d] /\ plan'[d] = plan[d]
    /\ running'[d] = running[d] /\ finished'[d] = finished[d] /\ failed'[d] = failed[d]
    /\ reported'[d] = reported[d] /\ result'[d] = result[d]

\* A step of c keeps what holds of all calls.
Advances(c) == Shape' /\ input' = input /\ Only(c) /\ SoundAt(c)'

LEMMA Linked ==
  ASSUME NEW c
  PROVE  (Consistent(c) <=> SoundAt(c)) /\ (Consistent(c)' <=> SoundAt(c)')
<1>1. Consistent(c) <=> SoundAt(c)
  <2>1. Answered(c) = AnsweredIn(plan[c], finished[c])
    BY DEF Answered, AnsweredIn
  <2>2. {plan[c][n] : n \in Answered(c)} = TextsAt(plan[c], AnsweredIn(plan[c], finished[c]))
    BY <2>1 DEF TextsAt
  <2>3. Cardinality(Answered(c)) = Cardinality(AnsweredIn(plan[c], finished[c]))
    BY <2>1, SameCardinality
  <2>4. QED
    BY <2>2, <2>3 DEF Consistent, SoundAt, Coherent, Progress, Planned
<1>2. Consistent(c)' <=> SoundAt(c)'
  <2>1. Answered(c)' = AnsweredIn(plan'[c], finished'[c])
    BY DEF Answered, AnsweredIn
  <2>2. {plan'[c][n] : n \in Answered(c)'} = TextsAt(plan'[c], AnsweredIn(plan'[c], finished'[c]))
    BY <2>1 DEF TextsAt
  <2>3. Cardinality(Answered(c)') = Cardinality(AnsweredIn(plan'[c], finished'[c]))
    BY <2>1, SameCardinality
  <2>4. QED
    BY <2>2, <2>3 DEF Consistent, SoundAt, Coherent, Progress, Planned
<1>3. QED
  BY <1>1, <1>2

LEMMA AllSound ==
  ASSUME NEW c \in Call, Advances(c), \A d \in Call : SoundAt(d)
  PROVE  \A d \in Call : SoundAt(d)'
<1>1. ASSUME NEW d \in Call \ {c} PROVE SoundAt(d)'
  BY DEF Advances, Only, SoundAt
<1>2. QED
  BY <1>1 DEF Advances

\* A call plans what to send.
LEMMA EmbedAdvances ==
  ASSUME EmbedAllAssumption, Shape, NEW c \in Call, SoundAt(c),
         pc[c] \in {"idle", "wait", "opening", "read"}, NEW u \in BOOLEAN,
         uses' = [uses EXCEPT ![c] = u], NEW found, found \subseteq ToSet(input[c]),
         ~u => found = {}, NEW s, s = IF u THEN Missing(input[c], found) ELSE input[c],
         Embed(c, s, found)
  PROVE  Advances(c) /\ pc'[c] \in {"run", "done", "failed"}
<1> DEFINE known == Count(input[c], found)
           p == IF s = <<>> THEN "done" ELSE IF TooLarge(s) THEN "failed" ELSE "run"
           re == IF known > 0 THEN known ELSE 0
           rs == IF s = <<>> THEN input[c] ELSE result[c]
<1>1. input[c] \in Inputs /\ input[c] \in Seq(Text)
  <2>1. input[c] \in Inputs
    BY DEF Shape
  <2>2. QED
    BY <2>1, InputFacts
<1>2. hits[c] = {} /\ plan[c] = <<>> /\ running[c] = {} /\ finished[c] = <<>> /\ reported[c] = 0
  <2>1. hits[c] = {} /\ plan[c] = <<>> /\ running[c] = {} /\ finished[c] = <<>>
    BY DEF SoundAt, Coherent
  <2>2. reported[c] = Progress(input[c], uses[c], {}, <<>>, <<>>)
    BY <2>1 DEF SoundAt, Coherent
  <2>3. uses[c] \in BOOLEAN
    BY DEF Shape
  <2>4. Coherent("idle", input[c], uses[c], {}, <<>>, {}, <<>>, {}, 0, <<>>)
    BY <1>1, SoundFresh
  <2>5. 0 = Progress(input[c], uses[c], {}, <<>>, <<>>)
    BY <2>4 DEF Coherent
  <2>6. QED
    BY <2>1, <2>2, <2>5
<1>3. s \in Seq(Text) /\ known \in Nat /\ re \in Nat /\ rs \in Seq(Text)
  <2>1. s \in Seq(Text)
    BY <1>1, MissingFacts
  <2>2. known \in Nat
    BY <1>1, CountFacts
  <2>3. QED
    BY <2>1, <2>2, <1>1 DEF Shape
<1>4. /\ plan' = [plan EXCEPT ![c] = s] /\ hits' = [hits EXCEPT ![c] = found]
      /\ input' = input /\ running' = running /\ finished' = finished /\ failed' = failed
  BY DEF Embed, requests
<1>5. reported' = [reported EXCEPT ![c] = re]
  BY <1>2 DEF Embed
<1>6. pc' = [pc EXCEPT ![c] = p] /\ result' = [result EXCEPT ![c] = rs]
  <2>1. result = [result EXCEPT ![c] = result[c]]
    BY DEF Shape
  <2>2. QED
    BY <2>1 DEF Embed, Goto
<1>7. Coherent(p, input[c], u, found, s, {}, <<>>, failed[c], re, rs)
  <2> HIDE DEF p, re, rs
  <2>1. p = IF s = <<>> THEN "done" ELSE IF TooLarge(s) THEN "failed" ELSE "run"
    BY DEF p
  <2>2. re = IF Count(input[c], found) > 0 THEN Count(input[c], found) ELSE 0
    BY DEF re
  <2>3. s = <<>> => rs = input[c]
    BY DEF rs
  <2>4. QED
    BY <1>1, <2>1, <2>2, <2>3, SoundPlanned
<1>8. p \in {"run", "done", "failed"}
  OBVIOUS
<1>9. found \in SUBSET Text
  BY <1>1 DEF ToSet
<1> HIDE DEF p, re, rs, known
<1>10. Shape'
  BY <1>3, <1>4, <1>5, <1>6, <1>8, <1>9 DEF Shape
<1>11. Only(c)
  BY <1>4, <1>5, <1>6 DEF Only, Shape
<1>12. SoundAt(c)'
  <2>1. /\ pc'[c] = p /\ input'[c] = input[c] /\ uses'[c] = u /\ hits'[c] = found /\ plan'[c] = s
        /\ running'[c] = {} /\ finished'[c] = <<>> /\ failed'[c] = failed[c] /\ reported'[c] = re
        /\ result'[c] = rs
    BY <1>2, <1>4, <1>5, <1>6 DEF Shape
  <2>2. QED
    BY <2>1, <1>7 DEF SoundAt
<1>13. QED
  BY <1>4, <1>6, <1>8, <1>10, <1>11, <1>12 DEF Advances, Shape

\* A call that has got the cache or goes on without it.
LEMMA ProceedAdvances ==
  ASSUME EmbedAllAssumption, Shape, NEW c \in Call, SoundAt(c),
         pc[c] \in {"idle", "wait", "opening"}, NEW got \in BOOLEAN, Proceed(c, got)
  PROVE  Advances(c) /\ pc'[c] \in {"read", "run", "done", "failed"}
<1>1. uses' = [uses EXCEPT ![c] = got]
  BY DEF Proceed
<1>2. CASE got /\ dim
  <2>1. /\ pc' = [pc EXCEPT ![c] = "read"] /\ input' = input /\ hits' = hits /\ plan' = plan
        /\ running' = running /\ finished' = finished /\ failed' = failed
        /\ reported' = reported /\ result' = result
    BY <1>2 DEF Proceed, Goto, requests
  <2>2. input[c] \in Inputs /\ uses[c] \in BOOLEAN
    BY DEF Shape
  <2>3. hits[c] = {} /\ plan[c] = <<>> /\ running[c] = {} /\ finished[c] = <<>>
    BY DEF SoundAt, Coherent
  <2>4. reported[c] = 0
    <3>1. reported[c] = Progress(input[c], uses[c], {}, <<>>, <<>>)
      BY <2>3 DEF SoundAt, Coherent
    <3>2. Coherent("idle", input[c], uses[c], {}, <<>>, {}, <<>>, {}, 0, <<>>)
      BY <2>2, SoundFresh
    <3>3. QED
      BY <3>1, <3>2 DEF Coherent
  <2>5. Coherent("read", input[c], got, {}, <<>>, {}, <<>>, failed[c], 0, result[c])
    BY <2>2, <1>2, SoundFresh
  <2>6. SoundAt(c)'
    <3>1. pc'[c] = "read" /\ uses'[c] = got
      BY <1>1, <2>1 DEF Shape
    <3>2. QED
      BY <3>1, <2>1, <2>3, <2>4, <2>5 DEF SoundAt
  <2>7. Shape' /\ Only(c)
    BY <1>1, <2>1 DEF Shape, Only
  <2>8. QED
    BY <2>1, <2>6, <2>7 DEF Advances, Shape
<1>3. CASE ~(got /\ dim)
  <2> DEFINE s == IF got THEN Missing(input[c], {}) ELSE input[c]
  <2>1. Embed(c, s, {})
    BY <1>3 DEF Proceed
  <2> HIDE DEF s
  <2>2. s = IF got THEN Missing(input[c], {}) ELSE input[c]
    BY DEF s
  <2>3. {} \subseteq ToSet(input[c])
    OBVIOUS
  <2>4. pc[c] \in {"idle", "wait", "opening", "read"}
    OBVIOUS
  <2>5. QED
    BY <1>1, <2>1, <2>2, <2>3, <2>4, EmbedAdvances
<1>4. QED
  BY <1>2, <1>3

\* A call that waits for the lock or opens the cache.
LEMMA WaitAdvances ==
  ASSUME EmbedAllAssumption, Shape, NEW c \in Call, SoundAt(c), pc[c] \in {"idle", "wait"},
         NEW p \in {"wait", "opening"}, Goto(c, p),
         UNCHANGED <<input, uses, hits, plan, running, finished, failed, reported, result>>
  PROVE  Advances(c) /\ pc'[c] = p
<1>1. pc' = [pc EXCEPT ![c] = p]
  BY DEF Goto
<1>2. Shape' /\ Only(c) /\ pc'[c] = p
  BY <1>1 DEF Shape, Only
<1>3. SoundAt(c)'
  BY <1>2 DEF SoundAt, Coherent
<1>4. QED
  BY <1>2, <1>3 DEF Advances

LEMMA BeginAdvances ==
  ASSUME EmbedAllAssumption, Shape, NEW c \in Call, SoundAt(c), Begin(c)
  PROVE  Advances(c) /\ pc[c] # "opening" /\ pc'[c] # "opening" /\ opener' = opener
<1>1. pc[c] = "idle" /\ opener' = opener
  BY DEF Begin, client
<1>2. CASE Caching /\ ~failedOpen /\ ~cache
  <2>1. /\ Goto(c, "wait")
        /\ UNCHANGED <<input, uses, hits, plan, running, finished, failed, reported, result>>
    BY <1>2 DEF Begin, requests
  <2>2. QED
    BY <1>1, <2>1, WaitAdvances
<1>3. CASE ~(Caching /\ ~failedOpen /\ ~cache)
  <2>1. Proceed(c, Caching /\ ~failedOpen)
    BY <1>3 DEF Begin
  <2>2. (Caching /\ ~failedOpen) \in BOOLEAN
    OBVIOUS
  <2>3. pc[c] \in {"idle", "wait", "opening"}
    BY <1>1
  <2>4. Advances(c) /\ pc'[c] \in {"read", "run", "done", "failed"}
    BY <2>1, <2>2, <2>3, ProceedAdvances
  <2>5. QED
    BY <1>1, <2>4
<1>4. QED
  BY <1>2, <1>3

LEMMA TakeInitLockAdvances ==
  ASSUME EmbedAllAssumption, Shape, NEW c \in Call, SoundAt(c), TakeInitLock(c)
  PROVE  /\ Advances(c) /\ pc[c] # "opening" /\ opener = None
         /\ opener' = IF pc'[c] = "opening" THEN c ELSE opener
<1>1. pc[c] = "wait" /\ opener = None
  BY DEF TakeInitLock
<1>2. CASE cache
  <2>1. Proceed(c, TRUE) /\ opener' = opener
    BY <1>2 DEF TakeInitLock
  <2>2. TRUE \in BOOLEAN /\ pc[c] \in {"idle", "wait", "opening"}
    BY <1>1
  <2>3. Advances(c) /\ pc'[c] \in {"read", "run", "done", "failed"}
    BY <2>1, <2>2, ProceedAdvances
  <2>4. QED
    BY <1>1, <2>1, <2>3
<1>3. CASE ~cache
  <2>1. /\ opener' = c /\ Goto(c, "opening")
        /\ UNCHANGED <<input, uses, hits, plan, running, finished, failed, reported, result>>
    BY <1>3 DEF TakeInitLock, requests
  <2>2. Advances(c) /\ pc'[c] = "opening"
    BY <1>1, <2>1, WaitAdvances
  <2>3. QED
    BY <1>1, <2>1, <2>2
<1>4. QED
  BY <1>2, <1>3

LEMMA OpenedAdvances ==
  ASSUME EmbedAllAssumption, Shape, NEW c \in Call, SoundAt(c), Opened(c)
  PROVE  Advances(c) /\ pc[c] = "opening" /\ pc'[c] # "opening" /\ opener' = None
<1>1. pc[c] = "opening" /\ opener' = None
  BY DEF Opened
<1>2. PICK ok \in BOOLEAN : Proceed(c, ok)
  BY DEF Opened
<1>3. pc[c] \in {"idle", "wait", "opening"}
  BY <1>1
<1>4. Advances(c) /\ pc'[c] \in {"read", "run", "done", "failed"}
  BY <1>2, <1>3, ProceedAdvances
<1>5. QED
  BY <1>1, <1>4

LEMMA ReadAdvances ==
  ASSUME EmbedAllAssumption, Shape, NEW c \in Call, SoundAt(c), Read(c)
  PROVE  Advances(c) /\ pc[c] # "opening" /\ pc'[c] # "opening" /\ opener' = opener
<1>1. pc[c] = "read" /\ pc[c] \in {"idle", "wait", "opening", "read"} /\ uses[c]
  BY DEF Read, SoundAt, Coherent
<1>2. CASE /\ Embed(c, Missing(input[c], ToSet(input[c]) \cap stored), ToSet(input[c]) \cap stored)
           /\ UNCHANGED <<client, uses>>
  <2> DEFINE found == ToSet(input[c]) \cap stored
             s == Missing(input[c], found)
  <2>1. Embed(c, s, found) /\ opener' = opener /\ uses' = uses
    BY <1>2 DEF client
  <2>2. found \subseteq ToSet(input[c])
    OBVIOUS
  <2> HIDE DEF found
  <2>3. s = IF TRUE THEN Missing(input[c], found) ELSE input[c]
    OBVIOUS
  <2> HIDE DEF s
  <2>4. uses' = [uses EXCEPT ![c] = TRUE]
    BY <1>1, <2>1 DEF Shape
  <2>5. Advances(c) /\ pc'[c] \in {"run", "done", "failed"}
    BY <1>1, <2>1, <2>2, <2>3, <2>4, EmbedAdvances
  <2>6. QED
    BY <1>1, <2>1, <2>5
<1>3. CASE Embed(c, input[c], {}) /\ GiveUp /\ uses' = [uses EXCEPT ![c] = FALSE]
  <2>1. {} \subseteq ToSet(input[c]) /\ opener' = opener
    BY <1>3 DEF GiveUp
  <2>2. input[c] = IF FALSE THEN Missing(input[c], {}) ELSE input[c]
    OBVIOUS
  <2>3. Advances(c) /\ pc'[c] \in {"run", "done", "failed"}
    BY <1>1, <1>3, <2>1, <2>2, EmbedAdvances
  <2>4. QED
    BY <1>1, <2>1, <2>3
<1>4. QED
  BY <1>2, <1>3 DEF Read

\* A request of c is sent.
LEMMA SendAdvances ==
  ASSUME EmbedAllAssumption, Shape, NEW c \in Call, SoundAt(c), Send(c)
  PROVE  Advances(c) /\ pc'[c] = pc[c] /\ opener' = opener
<1>1. PICK i \in Pending(c) : running' = [running EXCEPT ![c] = @ \cup {i}]
  BY DEF Send
<1>2. /\ pc' = pc /\ input' = input /\ uses' = uses /\ hits' = hits /\ plan' = plan
      /\ finished' = finished /\ failed' = failed /\ reported' = reported /\ result' = result
      /\ opener' = opener
  BY DEF Send, client
<1>3. /\ i \in DOMAIN Packed(plan[c]) \ (running[c] \cup failed[c] \cup ToSet(finished[c]))
      /\ ~TooLarge(plan[c])
  BY DEF Pending
<1>4. i \in Nat
  <2>1. plan[c] \in Seq(Text)
    BY DEF Shape
  <2>2. PacksUpTo(plan[c], Packed(plan[c]), Len(plan[c]))
    BY <2>1, PackedFacts
  <2>3. Packed(plan[c]) \in Seq(Request(plan[c]))
    BY <2>2 DEF PacksUpTo
  <2>4. DOMAIN Packed(plan[c]) = 1 .. Len(Packed(plan[c]))
    BY <2>3
  <2>5. QED
    BY <1>3, <2>4
<1>5. running'[c] = running[c] \cup {i}
  BY <1>1 DEF Shape
<1>6. SoundAt(c)'
  <2>1. Coherent(pc[c], input[c], uses[c], hits[c], plan[c], running[c] \cup {i}, finished[c], failed[c],
              reported[c], result[c])
    BY <1>3, SoundRequests DEF SoundAt
  <2>2. QED
    BY <2>1, <1>2, <1>5 DEF SoundAt
<1>7. Shape' /\ Only(c)
  <2>1. running' \in [Call -> SUBSET Nat] /\ \A d \in Call \ {c} : running'[d] = running[d]
    BY <1>1, <1>4 DEF Shape
  <2>2. QED
    BY <2>1, <1>2 DEF Shape, Only
<1>8. QED
  BY <1>2, <1>6, <1>7 DEF Advances

\* A request of c is answered.
LEMMA AnswerAdvances ==
  ASSUME EmbedAllAssumption, Shape, NEW c \in Call, SoundAt(c), NEW i \in running[c], Answer(c, i)
  PROVE  Advances(c) /\ pc'[c] = pc[c] /\ opener' = opener
<1> DEFINE b == SubSeq(plan[c], Packed(plan[c])[i].first, Packed(plan[c])[i].last)
           w == IF uses[c] THEN Count(input[c], ToSet(b)) ELSE Len(b)
<1>1. /\ pc' = pc /\ input' = input /\ uses' = uses /\ hits' = hits /\ plan' = plan
      /\ failed' = failed /\ result' = result /\ opener' = opener
      /\ running' = [running EXCEPT ![c] = @ \ {i}]
      /\ finished' = [finished EXCEPT ![c] = Append(@, i)]
      /\ reported' = [reported EXCEPT ![c] = @ + w]
  BY DEF Answer, TextsOf
<1>2. input[c] \in Inputs /\ uses[c] \in BOOLEAN /\ finished[c] \in Seq(Nat) /\ i \in Nat /\ reported[c] \in Nat
  BY DEF Shape
<1>3. Coherent(pc[c], input[c], uses[c], hits[c], plan[c], running[c] \ {i}, Append(finished[c], i), failed[c],
            reported[c] + w, result[c])
  <2>1. Coherent(pc[c], input[c], uses[c], hits[c], plan[c], running[c], finished[c], failed[c],
              reported[c], result[c])
    BY DEF SoundAt
  <2>2. QED
    BY <1>2, <2>1, SoundAnswered
<1>4. w \in Nat
  <2>1. input[c] \in Seq(Text)
    BY <1>2, InputFacts
  <2>2. Count(input[c], ToSet(b)) \in Nat
    BY <2>1, CountFacts
  <2>3. Len(b) \in Nat
    <3>1. plan[c] \in Seq(Text)
      BY DEF Shape
    <3>2. PacksUpTo(plan[c], Packed(plan[c]), Len(plan[c]))
      BY <3>1, PackedFacts
    <3>3. i \in DOMAIN Packed(plan[c])
      BY DEF SoundAt, Coherent
    <3>4. i \in 1 .. Len(Packed(plan[c]))
      BY <3>2, <3>3 DEF PacksUpTo
    <3>5. TextsIn(plan[c], Packed(plan[c])[i]) \in Seq(Text)
      BY <3>1, <3>2, <3>4, RequestTexts
    <3>6. b \in Seq(Text)
      BY <3>5 DEF TextsIn
    <3> HIDE DEF b
    <3>7. QED
      BY <3>6
  <2>4. QED
    BY <2>2, <2>3
<1> HIDE DEF w, b
<1>5. SoundAt(c)'
  <2>1. /\ running'[c] = running[c] \ {i} /\ finished'[c] = Append(finished[c], i)
        /\ reported'[c] = reported[c] + w
    BY <1>1 DEF Shape
  <2>2. QED
    BY <2>1, <1>1, <1>3 DEF SoundAt
<1>6. Shape'
  <2>1. reported[c] + w \in Nat /\ Append(finished[c], i) \in Seq(Nat)
    BY <1>2, <1>4
  <2>2. QED
    BY <2>1, <1>1 DEF Shape
<1>7. Only(c)
  BY <1>1 DEF Shape, Only
<1>8. QED
  BY <1>1, <1>5, <1>6, <1>7 DEF Advances

\* A request of c fails.
LEMMA FailAdvances ==
  ASSUME EmbedAllAssumption, Shape, NEW c \in Call, SoundAt(c), NEW i \in running[c], Fail(c, i)
  PROVE  Advances(c) /\ pc[c] # "opening" /\ pc'[c] # "opening" /\ opener' = opener
<1>1. /\ pc' = [pc EXCEPT ![c] = "failed"] /\ input' = input /\ uses' = uses /\ hits' = hits /\ plan' = plan
      /\ finished' = finished /\ result' = result /\ reported' = reported /\ opener' = opener
      /\ running' = [running EXCEPT ![c] = @ \ {i}] /\ failed' = [failed EXCEPT ![c] = @ \cup {i}]
  BY DEF Fail, Goto, client
<1>2. pc[c] # "opening"
  BY DEF SoundAt, Coherent
<1>3. Coherent("failed", input[c], uses[c], hits[c], plan[c], running[c] \ {i}, finished[c], failed[c] \cup {i},
            reported[c], result[c])
  BY SoundRequests DEF SoundAt
<1>4. /\ pc'[c] = "failed" /\ running'[c] = running[c] \ {i} /\ failed'[c] = failed[c] \cup {i}
  BY <1>1 DEF Shape
<1>5. SoundAt(c)'
  BY <1>1, <1>3, <1>4 DEF SoundAt
<1>6. Shape' /\ Only(c)
  BY <1>1 DEF Shape, Only
<1>7. QED
  BY <1>1, <1>2, <1>4, <1>5, <1>6 DEF Advances

\* The vectors of a plan, in its order.
LEMMA VectorsFacts ==
  ASSUME EmbedAllAssumption, Shape, NEW c \in Call
  PROVE  Vectors(c) = plan[c]
<1>1. plan[c] \in Seq(Text)
  BY DEF Shape
<1>2. PacksUpTo(plan[c], Packed(plan[c]), Len(plan[c]))
  BY <1>1, PackedFacts
<1>3. FlattenSeq([i \in DOMAIN Packed(plan[c]) |->
        SubSeq(plan[c], Packed(plan[c])[i].first, Packed(plan[c])[i].last)]) = plan[c]
  BY <1>1, <1>2, Flattened
<1>4. QED
  BY <1>3 DEF Vectors, TextsOf

LEMMA GatherAdvances ==
  ASSUME EmbedAllAssumption, Shape, NEW c \in Call, SoundAt(c), Gather(c)
  PROVE  Advances(c) /\ pc[c] # "opening" /\ pc'[c] # "opening" /\ opener' = opener
<1>1. /\ pc[c] = "run" /\ ToSet(finished[c]) = DOMAIN Packed(plan[c])
      /\ input' = input /\ uses' = uses /\ hits' = hits /\ plan' = plan /\ running' = running
      /\ finished' = finished /\ failed' = failed /\ reported' = reported /\ opener' = opener
  BY DEF Gather, client, requests
<1>2. input[c] \in Inputs /\ uses[c] \in BOOLEAN
  BY DEF Shape
<1>3. Coherent("run", input[c], uses[c], hits[c], plan[c], running[c], finished[c], failed[c],
            reported[c], result[c])
  BY <1>1 DEF SoundAt
<1>4. /\ uses[c] => Coherent("write", input[c], uses[c], hits[c], plan[c], running[c], finished[c], failed[c],
                          reported[c], result[c])
      /\ ~uses[c] => /\ plan[c] = input[c]
                     /\ Coherent("done", input[c], uses[c], hits[c], plan[c], running[c], finished[c], failed[c],
                              reported[c], input[c])
  BY <1>1, <1>2, <1>3, SoundGathered
<1>5. CASE uses[c]
  <2>1. pc' = [pc EXCEPT ![c] = "write"] /\ result' = result
    BY <1>5 DEF Gather, Goto
  <2>2. pc'[c] = "write" /\ Shape' /\ Only(c)
    BY <2>1, <1>1 DEF Shape, Only
  <2>3. SoundAt(c)'
    BY <2>1, <2>2, <1>1, <1>4, <1>5 DEF SoundAt
  <2>4. QED
    BY <2>2, <2>3, <1>1 DEF Advances
<1>6. CASE ~uses[c]
  <2>1. pc' = [pc EXCEPT ![c] = "done"] /\ result' = [result EXCEPT ![c] = input[c]]
    <3>1. Scattered(c) = input[c]
      BY <1>4, <1>6, VectorsFacts DEF Scattered
    <3>2. QED
      BY <3>1, <1>6 DEF Gather, Goto
  <2>2. input[c] \in Seq(Text)
    BY <1>2, InputFacts
  <2>3. pc'[c] = "done" /\ result'[c] = input[c]
    BY <2>1 DEF Shape
  <2>4. Shape' /\ Only(c)
    BY <2>1, <2>2, <1>1 DEF Shape, Only
  <2>5. SoundAt(c)'
    <3>1. Coherent("done", input[c], uses[c], hits[c], plan[c], running[c], finished[c], failed[c],
                reported[c], input[c])
      BY <1>4, <1>6
    <3> HIDE <1>4
    <3>2. QED
      BY <3>1, <2>3, <1>1 DEF SoundAt
  <2>6. QED
    BY <2>3, <2>4, <2>5, <1>1 DEF Advances
<1>7. QED
  BY <1>5, <1>6

LEMMA WriteAdvances ==
  ASSUME EmbedAllAssumption, Shape, NEW c \in Call, SoundAt(c), Write(c)
  PROVE  Advances(c) /\ pc[c] # "opening" /\ pc'[c] # "opening" /\ opener' = opener
<1>1. /\ pc[c] = "write" /\ opener' = opener
      /\ input' = input /\ uses' = uses /\ hits' = hits /\ plan' = plan /\ running' = running
      /\ finished' = finished /\ failed' = failed /\ reported' = reported
      /\ pc' = [pc EXCEPT ![c] = "done"] /\ result' = [result EXCEPT ![c] = Scattered(c)]
  BY DEF Write, GiveUp, Goto, requests
<1>2. input[c] \in Inputs /\ uses[c] \in BOOLEAN
  BY DEF Shape
<1>3. Coherent("write", input[c], uses[c], hits[c], plan[c], running[c], finished[c], failed[c],
            reported[c], result[c])
  BY <1>1 DEF SoundAt
<1>4. /\ uses[c] /\ Coherent("done", input[c], uses[c], hits[c], plan[c], running[c], finished[c], failed[c],
                          reported[c], input[c])
      /\ [i \in DOMAIN input[c] |-> IF input[c][i] \in hits[c] THEN input[c][i]
            ELSE plan[c][CHOOSE n \in DOMAIN plan[c] : plan[c][n] = input[c][i]]] = input[c]
  BY <1>2, <1>3, SoundWritten
<1>5. Scattered(c) = input[c]
  <2>1. Vectors(c) = plan[c]
    BY VectorsFacts
  <2>2. Scattered(c) = [i \in DOMAIN input[c] |-> IF input[c][i] \in hits[c] THEN input[c][i]
          ELSE plan[c][CHOOSE n \in DOMAIN plan[c] : plan[c][n] = input[c][i]]]
    BY <2>1, <1>4 DEF Scattered
  <2>3. QED
    BY <2>2, <1>4
<1>6. input[c] \in Seq(Text)
  BY <1>2, InputFacts
<1>7. pc'[c] = "done" /\ result'[c] = input[c]
  BY <1>1, <1>5 DEF Shape
<1>8. Shape' /\ Only(c)
  BY <1>1, <1>5, <1>6 DEF Shape, Only
<1>9. SoundAt(c)'
  <2>1. Coherent("done", input[c], uses[c], hits[c], plan[c], running[c], finished[c], failed[c],
              reported[c], input[c])
    BY <1>4
  <2>2. QED
    BY <2>1, <1>1, <1>7 DEF SoundAt
<1>10. QED
  BY <1>1, <1>7, <1>8, <1>9 DEF Advances

LEMMA CancelAdvances ==
  ASSUME EmbedAllAssumption, Shape, NEW c \in Call, SoundAt(c), Cancel(c)
  PROVE  Advances(c) /\ pc'[c] # "opening" /\ opener' = IF opener = c THEN None ELSE opener
<1>1. /\ input' = input /\ uses' = uses /\ hits' = hits /\ plan' = plan
      /\ finished' = finished /\ failed' = failed /\ reported' = reported /\ result' = result
      /\ pc' = [pc EXCEPT ![c] = "cancelled"] /\ running' = [running EXCEPT ![c] = {}]
      /\ opener' = IF opener = c THEN None ELSE opener
  BY DEF Cancel, Goto
<1>2. Coherent("cancelled", input[c], uses[c], hits[c], plan[c], {}, finished[c], failed[c],
            reported[c], result[c])
  BY SoundRequests DEF SoundAt
<1>3. pc'[c] = "cancelled" /\ running'[c] = {}
  BY <1>1 DEF Shape
<1>4. SoundAt(c)'
  BY <1>1, <1>2, <1>3 DEF SoundAt
<1>5. Shape' /\ Only(c)
  BY <1>1 DEF Shape, Only
<1>6. QED
  BY <1>1, <1>3, <1>4, <1>5 DEF Advances

\* The lock of the cache is held by the call that opens the cache.
Held == opener \in Call \cup {None} /\ \A c \in Call : opener = c <=> pc[c] = "opening"

LEMMA StoredAdvances ==
  ASSUME Shape, NEW c \in Call, stored \subseteq Text,
         Begin(c) \/ Step(c) \/ Cancel(c)
  PROVE  stored' \subseteq Text
<1>1. ToSet(plan[c]) \subseteq Text
  <2>1. plan[c] \in Seq(Text)
    BY DEF Shape
  <2>2. QED
    BY <2>1 DEF ToSet
<1>2. stored' = stored \/ stored' = stored \cup ToSet(plan[c])
  <2>1. CASE Begin(c)
    BY <2>1 DEF Begin, client
  <2>2. CASE TakeInitLock(c)
    BY <2>2 DEF TakeInitLock
  <2>3. CASE Opened(c)
    BY <2>3 DEF Opened
  <2>4. CASE Read(c)
    BY <2>4 DEF Read, GiveUp, client
  <2>5. CASE Send(c)
    BY <2>5 DEF Send, client
  <2>6. CASE Gather(c)
    BY <2>6 DEF Gather, client
  <2>7. CASE Write(c)
    BY <2>7 DEF Write, GiveUp
  <2>8. ASSUME NEW i \in running[c], Answer(c, i) \/ Fail(c, i) PROVE stored' = stored
    BY <2>8 DEF Answer, Fail, client
  <2>9. CASE Cancel(c)
    BY <2>9 DEF Cancel
  <2>10. QED
    BY <2>1, <2>2, <2>3, <2>4, <2>5, <2>6, <2>7, <2>8, <2>9 DEF Step
<1>3. QED
  BY <1>1, <1>2

LEMMA FlagsAdvance ==
  ASSUME NEW c \in Call, cache \in BOOLEAN, failedOpen \in BOOLEAN, dim \in BOOLEAN,
         Begin(c) \/ Step(c) \/ Cancel(c)
  PROVE  cache' \in BOOLEAN /\ failedOpen' \in BOOLEAN /\ dim' \in BOOLEAN
<1>1. CASE Begin(c)
  BY <1>1 DEF Begin, client
<1>2. CASE TakeInitLock(c)
  BY <1>2 DEF TakeInitLock
<1>3. CASE Opened(c)
  BY <1>3 DEF Opened
<1>4. CASE Read(c)
  BY <1>4 DEF Read, GiveUp, client
<1>5. CASE Send(c)
  BY <1>5 DEF Send, client
<1>6. CASE Gather(c)
  BY <1>6 DEF Gather, client
<1>7. CASE Write(c)
  BY <1>7 DEF Write, GiveUp
<1>8. ASSUME NEW i \in running[c], Answer(c, i) \/ Fail(c, i)
      PROVE  cache' \in BOOLEAN /\ failedOpen' \in BOOLEAN /\ dim' \in BOOLEAN
  BY <1>8 DEF Answer, Fail, client
<1>9. CASE Cancel(c)
  BY <1>9 DEF Cancel
<1>10. QED
  BY <1>1, <1>2, <1>3, <1>4, <1>5, <1>6, <1>7, <1>8, <1>9 DEF Step

\* The lock is taken and given back by the call that opens the cache.
LEMMA HeldAdvances ==
  ASSUME EmbedAllAssumption, Held, NEW c \in Call, Only(c),
         \/ pc'[c] # "opening" /\ opener' = IF pc[c] = "opening" THEN None ELSE opener
         \/ pc'[c] = pc[c] /\ opener' = opener
         \/ opener = None /\ pc'[c] = "opening" /\ opener' = c
  PROVE  Held'
<1>1. None \notin Call
  BY DEF EmbedAllAssumption
<1>2. \A d \in Call \ {c} : pc'[d] = pc[d]
  BY DEF Only
<1>3. opener \in Call \cup {None} /\ \A d \in Call : opener = d <=> pc[d] = "opening"
  BY DEF Held
<1>4. opener' \in Call \cup {None}
  BY <1>3
<1>5. ASSUME NEW d \in Call PROVE opener' = d <=> pc'[d] = "opening"
  <2>1. CASE d = c
    BY <2>1, <1>1, <1>3
  <2>2. CASE d # c
    BY <2>2, <1>1, <1>2, <1>3
  <2>3. QED
    BY <2>1, <2>2
<1>6. QED
  BY <1>4, <1>5 DEF Held

\* A step of a call.
LEMMA CallAdvances ==
  ASSUME EmbedAllAssumption, Shape, Held, NEW c \in Call, SoundAt(c), Begin(c) \/ Step(c) \/ Cancel(c)
  PROVE  Advances(c) /\ Held'
<1> DEFINE Lock == \/ pc'[c] # "opening" /\ opener' = IF pc[c] = "opening" THEN None ELSE opener
                   \/ pc'[c] = pc[c] /\ opener' = opener
                   \/ opener = None /\ pc'[c] = "opening" /\ opener' = c
<1>1. CASE Begin(c)
  <2>1. Advances(c) /\ pc[c] # "opening" /\ pc'[c] # "opening" /\ opener' = opener
    BY <1>1, BeginAdvances
  <2>2. QED
    BY <2>1, HeldAdvances DEF Advances
<1>2. CASE TakeInitLock(c)
  <2>1. /\ Advances(c) /\ pc[c] # "opening" /\ opener = None
        /\ opener' = IF pc'[c] = "opening" THEN c ELSE opener
    BY <1>2, TakeInitLockAdvances
  <2>2. Only(c) /\ Lock
    BY <2>1 DEF Advances
  <2> HIDE DEF Lock
  <2>3. Held'
    BY <2>2, HeldAdvances DEF Lock
  <2>4. QED
    BY <2>1, <2>3
<1>3. CASE Opened(c)
  <2>1. Advances(c) /\ pc[c] = "opening" /\ pc'[c] # "opening" /\ opener' = None
    BY <1>3, OpenedAdvances
  <2>2. QED
    BY <2>1, HeldAdvances DEF Advances
<1>4. CASE Read(c)
  <2>1. Advances(c) /\ pc[c] # "opening" /\ pc'[c] # "opening" /\ opener' = opener
    BY <1>4, ReadAdvances
  <2>2. QED
    BY <2>1, HeldAdvances DEF Advances
<1>5. CASE Send(c)
  <2>1. Advances(c) /\ pc'[c] = pc[c] /\ opener' = opener
    BY <1>5, SendAdvances
  <2>2. QED
    BY <2>1, HeldAdvances DEF Advances
<1>6. CASE Gather(c)
  <2>1. Advances(c) /\ pc[c] # "opening" /\ pc'[c] # "opening" /\ opener' = opener
    BY <1>6, GatherAdvances
  <2>2. QED
    BY <2>1, HeldAdvances DEF Advances
<1>7. CASE Write(c)
  <2>1. Advances(c) /\ pc[c] # "opening" /\ pc'[c] # "opening" /\ opener' = opener
    BY <1>7, WriteAdvances
  <2>2. QED
    BY <2>1, HeldAdvances DEF Advances
<1>8. ASSUME NEW i \in running[c], Answer(c, i) PROVE Advances(c) /\ Held'
  <2>1. Advances(c) /\ pc'[c] = pc[c] /\ opener' = opener
    BY <1>8, AnswerAdvances
  <2>2. QED
    BY <2>1, HeldAdvances DEF Advances
<1>9. ASSUME NEW i \in running[c], Fail(c, i) PROVE Advances(c) /\ Held'
  <2>1. Advances(c) /\ pc[c] # "opening" /\ pc'[c] # "opening" /\ opener' = opener
    BY <1>9, FailAdvances
  <2>2. QED
    BY <2>1, HeldAdvances DEF Advances
<1>10. CASE Cancel(c)
  <2>1. Advances(c) /\ pc'[c] # "opening" /\ opener' = IF opener = c THEN None ELSE opener
    BY <1>10, CancelAdvances
  <2>2. opener = c <=> pc[c] = "opening"
    BY DEF Held
  <2>3. QED
    BY <2>1, <2>2, HeldAdvances DEF Advances
<1>11. QED
  BY <1>1, <1>2, <1>3, <1>4, <1>5, <1>6, <1>7, <1>8, <1>9, <1>10 DEF Step

LEMMA InvByParts ==
  /\ IInv <=> /\ cache \in BOOLEAN /\ failedOpen \in BOOLEAN /\ dim \in BOOLEAN /\ stored \subseteq Text
              /\ Shape /\ Held /\ \A c \in Call : SoundAt(c)
  /\ IInv' <=> /\ cache' \in BOOLEAN /\ failedOpen' \in BOOLEAN /\ dim' \in BOOLEAN /\ stored' \subseteq Text
               /\ Shape' /\ Held' /\ \A c \in Call : SoundAt(c)'
<1>1. \A c : (Consistent(c) <=> SoundAt(c)) /\ (Consistent(c)' <=> SoundAt(c)')
  BY Linked
<1>2. IInv <=> /\ cache \in BOOLEAN /\ failedOpen \in BOOLEAN /\ dim \in BOOLEAN /\ stored \subseteq Text
               /\ Shape /\ Held /\ \A c \in Call : SoundAt(c)
  BY <1>1 DEF IInv, TypeOK, Shape, Held
<1>3. IInv' <=> /\ cache' \in BOOLEAN /\ failedOpen' \in BOOLEAN /\ dim' \in BOOLEAN /\ stored' \subseteq Text
                /\ Shape' /\ Held' /\ \A c \in Call : SoundAt(c)'
  BY <1>1 DEF IInv, TypeOK, Shape, Held
<1>4. QED
  BY <1>2, <1>3

LEMMA CallsInit == ASSUME EmbedAllAssumption, Init PROVE IInv
<1>1. Shape
  BY DEF Init, Shape
<1>2. Held
  BY DEF Init, Held, EmbedAllAssumption
<1>3. ASSUME NEW c \in Call PROVE SoundAt(c)
  <2>1. /\ pc[c] = "idle" /\ uses[c] = FALSE /\ hits[c] = {} /\ plan[c] = <<>> /\ running[c] = {}
        /\ finished[c] = <<>> /\ reported[c] = 0
    BY DEF Init
  <2>2. input[c] \in Inputs
    BY <1>1 DEF Shape
  <2>3. Coherent("idle", input[c], uses[c], {}, <<>>, {}, <<>>, failed[c], 0, result[c])
    BY <2>2, SoundFresh
  <2>4. QED
    BY <2>1, <2>3 DEF SoundAt
<1>4. QED
  BY <1>1, <1>2, <1>3, InvByParts DEF Init

LEMMA CallsStep == ASSUME EmbedAllAssumption, IInv, [Next]_vars PROVE IInv'
<1>1. /\ cache \in BOOLEAN /\ failedOpen \in BOOLEAN /\ dim \in BOOLEAN /\ stored \subseteq Text
      /\ Shape /\ Held /\ \A c \in Call : SoundAt(c)
  BY InvByParts
<1>2. ASSUME NEW c \in Call, Begin(c) \/ Step(c) \/ Cancel(c) PROVE IInv'
  <2>1. Advances(c) /\ Held'
    BY <1>1, <1>2, CallAdvances
  <2>2. \A d \in Call : SoundAt(d)'
    BY <1>1, <2>1, AllSound
  <2>3. stored' \subseteq Text
    BY <1>1, <1>2, StoredAdvances
  <2>4. cache' \in BOOLEAN /\ failedOpen' \in BOOLEAN /\ dim' \in BOOLEAN
    BY <1>1, <1>2, FlagsAdvance
  <2>5. QED
    BY <2>1, <2>2, <2>3, <2>4, InvByParts DEF Advances
<1>3. ASSUME stored' \subseteq Text,
             UNCHANGED <<cache, failedOpen, opener, dim, pc, input, uses, hits, plan,
                         running, finished, failed, reported, result>>
      PROVE  IInv'
  <2>1. Shape'
    BY <1>1, <1>3 DEF Shape
  <2>2. Held'
    BY <1>1, <1>3 DEF Held
  <2>3. \A c \in Call : SoundAt(c)'
    BY <1>1, <1>3 DEF SoundAt
  <2>4. QED
    BY <1>1, <1>3, <2>1, <2>2, <2>3, InvByParts
<1>4. CASE Evict
  BY <1>1, <1>3, <1>4 DEF Evict, requests
<1>5. CASE UNCHANGED vars
  BY <1>1, <1>3, <1>5 DEF vars, client, requests
<1>6. QED
  BY <1>2, <1>4, <1>5 DEF Next

\* The texts of the requests of a call.
LEMMA SentTexts ==
  ASSUME EmbedAllAssumption, NEW pl \in Seq(Text), NEW fi, ToSet(fi) \subseteq DOMAIN Packed(pl)
  PROVE  UNION {ToSet(SubSeq(pl, Packed(pl)[i].first, Packed(pl)[i].last)) : i \in ToSet(fi)}
           = TextsAt(pl, AnsweredIn(pl, fi))
<1> DEFINE r == Packed(pl)
<1>1. PacksUpTo(pl, r, Len(pl)) /\ Len(pl) \in Nat /\ DOMAIN pl = 1 .. Len(pl)
  BY PackedFacts
<1>2. DOMAIN r = 1 .. Len(r)
  BY <1>1 DEF PacksUpTo
<1>3. ASSUME NEW i \in ToSet(fi)
      PROVE  /\ r[i].first .. r[i].last \subseteq DOMAIN pl
             /\ ToSet(SubSeq(pl, r[i].first, r[i].last)) = {pl[n] : n \in r[i].first .. r[i].last}
  <2>1. i \in 1 .. Len(r)
    BY <1>2
  <2> HIDE DEF r
  <2>2. /\ r[i].first \in 1 .. Len(pl) /\ r[i].last \in r[i].first .. Len(pl)
        /\ ToSet(TextsIn(pl, r[i])) = {pl[n] : n \in r[i].first .. r[i].last}
    BY <1>1, <2>1, RequestTexts
  <2>3. r[i].first .. r[i].last \subseteq DOMAIN pl
    BY <1>1, <2>2
  <2>4. QED
    BY <2>2, <2>3 DEF TextsIn
<1> HIDE DEF r
<1>4. \A t : t \in TextsAt(pl, AnsweredIn(pl, fi))
               <=> \E i \in ToSet(fi) : \E n \in r[i].first .. r[i].last : t = pl[n]
  BY <1>3 DEF TextsAt, AnsweredIn, r
<1>5. \A t : t \in UNION {ToSet(SubSeq(pl, r[i].first, r[i].last)) : i \in ToSet(fi)}
               <=> \E i \in ToSet(fi) : \E n \in r[i].first .. r[i].last : t = pl[n]
  <2> DEFINE Texts(i) == ToSet(SubSeq(pl, r[i].first, r[i].last))
  <2>1. \A i \in ToSet(fi) : \A t : t \in Texts(i) <=> \E n \in r[i].first .. r[i].last : t = pl[n]
    BY <1>3
  <2> HIDE DEF Texts
  <2>2. \A t : t \in UNION {Texts(i) : i \in ToSet(fi)} <=> \E i \in ToSet(fi) : t \in Texts(i)
    OBVIOUS
  <2>3. \A t : t \in UNION {Texts(i) : i \in ToSet(fi)}
                 <=> \E i \in ToSet(fi) : \E n \in r[i].first .. r[i].last : t = pl[n]
    BY <2>1, <2>2
  <2>4. QED
    BY <2>3 DEF Texts
<1>6. QED
  BY <1>4, <1>5 DEF r

\* No call reports more than its input has.
LEMMA ReportedFits ==
  ASSUME EmbedAllAssumption, NEW in \in Inputs, NEW u \in BOOLEAN, NEW h, NEW pl, NEW fi,
         pl # <<>> => Planned(pl, in, u, h)
  PROVE  Progress(in, u, h, pl, fi) <= Len(in)
<1>1. in \in Seq(Text) /\ Len(in) \in Nat /\ DOMAIN in = 1 .. Len(in)
  BY InputFacts
<1>2. CASE u
  BY <1>1, <1>2, CountFacts DEF Progress
<1>3. CASE ~u
  <2> DEFINE A == AnsweredIn(pl, fi)
  <2>1. A \subseteq DOMAIN in
    <3>1. pl = <<>> => DOMAIN pl = {}
      OBVIOUS
    <3>2. A \subseteq DOMAIN pl
      BY DEF AnsweredIn
    <3>3. QED
      BY <3>1, <3>2, <1>3 DEF Planned
  <2>2. IsFiniteSet(1 .. Len(in)) /\ Cardinality(1 .. Len(in)) = IF 1 > Len(in) THEN 0 ELSE Len(in) - 1 + 1
    <3>1. 1 \in Int /\ Len(in) \in Int
      BY <1>1
    <3>2. QED
      BY <3>1, FS_Interval
  <2>3. Cardinality(1 .. Len(in)) = Len(in)
    BY <2>2, <1>1
  <2> HIDE DEF A
  <2>4. Cardinality(A) <= Cardinality(1 .. Len(in))
    BY <2>1, <2>2, <1>1, FS_Subset
  <2>5. QED
    BY <2>3, <2>4, <1>3 DEF Progress, A
<1>4. QED
  BY <1>2, <1>3

\* What the invariant says of one call that is running.
LEMMA AnswersAreRight ==
  ASSUME EmbedAllAssumption, IInv PROVE TextsAreAnswered
<1>1. /\ Shape /\ Held /\ (\A c \in Call : SoundAt(c)) /\ TypeOK
  BY InvByParts DEF IInv
<1>2. \A c \in Call : /\ input[c] \in Inputs /\ uses[c] \in BOOLEAN /\ plan[c] \in Seq(Text)
  BY <1>1 DEF Shape
<1>3. SentOnce
  <2>1. ASSUME NEW c \in Call, uses[c]
        PROVE  /\ \A m, n \in DOMAIN plan[c] : plan[c][m] = plan[c][n] => m = n
               /\ ToSet(plan[c]) \cap hits[c] = {}
    <3>1. CASE plan[c] = <<>>
      <4>1. DOMAIN plan[c] = {}
        BY <3>1
      <4>2. QED
        BY <4>1 DEF ToSet
    <3>2. CASE plan[c] # <<>>
      <4>1. Planned(plan[c], input[c], uses[c], hits[c])
        BY <1>1, <3>2 DEF SoundAt, Coherent
      <4>2. plan[c] = Missing(input[c], hits[c]) /\ input[c] \in Seq(Text)
        BY <4>1, <2>1, <1>2, InputFacts DEF Planned
      <4>3. QED
        BY <4>2, MissingFacts
    <3>3. QED
      BY <3>1, <3>2
  <2>2. QED
    BY <2>1 DEF SentOnce
<1>4. RequestsKeepLimits
  <2>1. ASSUME NEW c \in Call, NEW i \in running[c]
        PROVE  Len(TextsOf(c, i)) \in 1 .. BatchSize /\ BodySize(TextsOf(c, i)) <= Budget
    <3> DEFINE r == Packed(plan[c])
    <3>1. PacksUpTo(plan[c], r, Len(plan[c]))
      BY <1>2, PackedFacts
    <3>2. i \in DOMAIN r /\ ~TooLarge(plan[c])
      BY <1>1 DEF SoundAt, Coherent
    <3>3. i \in 1 .. Len(r)
      BY <3>1, <3>2 DEF PacksUpTo
    <3>4. Len(TextsIn(plan[c], r[i])) \in 1 .. BatchSize
      <4> HIDE DEF r
      <4>1. QED
        BY <1>2, <3>1, <3>3, RequestTexts
    <3>5. r[i].bytes = BodySize(SubSeq(plan[c], r[i].first, r[i].last)) /\ r[i].bytes <= Budget
      BY <3>1, <3>2, <3>3 DEF PacksUpTo
    <3>6. TextsOf(c, i) = TextsIn(plan[c], r[i]) /\ TextsOf(c, i) = SubSeq(plan[c], r[i].first, r[i].last)
      BY DEF TextsOf, TextsIn
    <3> HIDE DEF r
    <3>7. QED
      BY <3>4, <3>5, <3>6
  <2>2. ASSUME NEW c \in Call
        PROVE  FlattenSeq([i \in DOMAIN Packed(plan[c]) |-> TextsOf(c, i)]) = plan[c]
    BY <1>1, VectorsFacts DEF Vectors
  <2>3. QED
    BY <2>1, <2>2 DEF RequestsKeepLimits
<1>5. SameOrder
  BY <1>1 DEF SoundAt, Coherent, SameOrder
<1>6. ProgressIsExact
  <2>1. ASSUME NEW c \in Call PROVE reported[c] <= Len(input[c])
    <3>1. plan[c] # <<>> => Planned(plan[c], input[c], uses[c], hits[c])
      BY <1>1 DEF SoundAt, Coherent
    <3>2. Progress(input[c], uses[c], hits[c], plan[c], finished[c]) <= Len(input[c])
      BY <3>1, <1>2, ReportedFits
    <3>3. QED
      BY <3>2, <1>1 DEF SoundAt, Coherent
  <2>2. ASSUME NEW c \in Call, uses[c]
        PROVE  reported[c] = Count(input[c],
                 hits[c] \cup UNION {ToSet(TextsOf(c, i)) : i \in ToSet(finished[c])})
    <3>1. UNION {ToSet(TextsOf(c, i)) : i \in ToSet(finished[c])}
            = TextsAt(plan[c], AnsweredIn(plan[c], finished[c]))
      <4>1. ToSet(finished[c]) \subseteq DOMAIN Packed(plan[c])
        BY <1>1 DEF SoundAt, Coherent
      <4>2. QED
        BY <4>1, <1>2, SentTexts DEF TextsOf
    <3>2. reported[c] = Count(input[c], hits[c] \cup TextsAt(plan[c], AnsweredIn(plan[c], finished[c])))
      BY <1>1, <2>2 DEF SoundAt, Coherent, Progress
    <3>3. QED
      BY <3>1, <3>2
  <2>3. \A c \in Call : pc[c] = "done" => reported[c] = Len(input[c])
    BY <1>1 DEF SoundAt, Coherent
  <2>4. QED
    BY <2>1, <2>2, <2>3 DEF ProgressIsExact
<1>7. CacheFailsOpen
  BY <1>1 DEF SoundAt, Coherent, CacheFailsOpen
<1>8. QED
  BY <1>1, <1>3, <1>4, <1>5, <1>6, <1>7 DEF TextsAreAnswered

(* A call of embed_all that returns has the vector of every text at the    *)
(* place the text has in its input, and has told of all of them, whatever  *)
(* the persistent cache does, in whatever order the requests finish and    *)
(* whichever call is cancelled; no text is sent twice, or when it was      *)
(* found, and every request keeps to the batch size and the byte budget.   *)
THEOREM TextSafety == Spec => []TextsAreAnswered
<1>1. Init => IInv
  BY EmbedAllAssumption, CallsInit
<1>2. IInv /\ [Next]_vars => IInv'
  BY EmbedAllAssumption, CallsStep
<1>3. IInv => TextsAreAnswered
  BY EmbedAllAssumption, AnswersAreRight
<1>4. QED
  BY <1>1, <1>2, <1>3, PTL DEF Spec
=============================================================================
