-------------------------- MODULE VocabCacheProofs --------------------------
(* Theorems about VocabCache, for any processes, threads, TTL and bounds,   *)
(* and about the in-memory cache and the singletons beside it.              *)
EXTENDS Caches, Induction, FiniteSetTheorems, SequenceTheorems

LEMMA SnapshotFacts ==
  /\ \A s \in Snapshot : s # None /\ s.rev \in Nat /\ s.epoch \in Nat
  /\ \A m, n \in Nat : [rev |-> m, epoch |-> n] \in Snapshot
  BY CacheAssumption DEF Snapshot

LEMMA KindFacts ==
  /\ "vocab" \in Kind /\ "freq" \in Kind /\ "total" \in Kind
  /\ \A k \in Kind : k = "vocab" \/ k = "freq" \/ k = "total"
  /\ Empty \in [Kind -> Snapshot \cup {None}]
  /\ \A k \in Kind : Empty[k] = None
  BY DEF Kind, Empty

LEMMA InitIInv == Init => IInv
  BY CacheAssumption DEF Init, IInv, TypeOK, FillInv, FileInv, LocalInv, SeenInv,
     AgeInv,
     WritesAreSeen, FuzzyIsCurrent, Empty, Kind, Filling, P

\* TypeOK by groups of variables.
SharedType ==
  /\ revision \in 0 .. MaxRevision /\ now \in Nat \ {0}
  /\ committedAt \in [1 .. MaxRevision -> Nat]
  /\ fileLock \in Thread \cup {None}
  /\ connLock \in [Proc -> Thread \cup {None}]
  /\ cacheLock \in [Proc -> Thread \cup {None}]
  /\ conn \subseteq Thread
  /\ returned \in [Proc -> 0 .. MaxRevision]
CachesType ==
  /\ cache \in [Proc -> [Kind -> Snapshot \cup {None}]]
  /\ fuzzy \in [Proc -> [{"vocab", "freq"} -> Snapshot] \cup {None}]
  /\ stamp \in [Proc -> Nat]
  /\ epoch \in [Proc -> Nat]
PcType == pc \in [Thread -> {"idle"} \cup Reading \cup Writing]
LocalsType ==
  /\ kind \in [Thread -> Kind]
  /\ fetched \in [Thread -> 0 .. MaxRevision]
  /\ snap \in [Thread -> [Kind -> Snapshot \cup {None}]]
  /\ wrote \in [Thread -> 0 .. MaxRevision]
  /\ since \in [Thread -> 0 .. MaxRevision]

LEMMA Types == TypeOK <=> SharedType /\ CachesType /\ PcType /\ LocalsType
  BY DEF TypeOK, SharedType, CachesType, PcType, LocalsType

\* The numbers that the invariants compare.
LEMMA Numbers ==
  ASSUME TypeOK
  PROVE  /\ revision \in Nat /\ now \in Nat
         /\ \A p \in Proc : stamp[p] \in Nat /\ returned[p] \in Nat /\ epoch[p] \in Nat
         /\ \A t \in Thread : fetched[t] \in Nat /\ wrote[t] \in Nat /\ since[t] \in Nat
         /\ \A r \in 1 .. MaxRevision : committedAt[r] \in Nat
         /\ \A p \in Proc, k \in Kind : cache[p][k] # None => cache[p][k].rev \in Nat
         /\ \A t \in Thread, k \in Kind : snap[t][k] # None => snap[t][k].rev \in Nat
  BY CacheAssumption DEF TypeOK, Snapshot

\* What an end of a call, and a getter that is passed, do to the locals.
LEMMA LeaveFacts ==
  ASSUME TypeOK, NEW t \in Thread, Leave(t)
  PROVE  /\ PcType' /\ LocalsType'
         /\ pc'[t] = "idle" /\ kind'[t] = "vocab" /\ fetched'[t] = 0 /\ wrote'[t] = 0
         /\ since'[t] = 0 /\ \A k \in Kind : snap'[t][k] = None
         /\ \A u \in Thread : u # t =>
              /\ pc'[u] = pc[u] /\ kind'[u] = kind[u] /\ fetched'[u] = fetched[u]
              /\ snap'[u] = snap[u] /\ wrote'[u] = wrote[u] /\ since'[u] = since[u]
<1>1. /\ pc' = [pc EXCEPT ![t] = "idle"] /\ kind' = [kind EXCEPT ![t] = "vocab"]
      /\ fetched' = [fetched EXCEPT ![t] = 0] /\ wrote' = [wrote EXCEPT ![t] = 0]
      /\ since' = [since EXCEPT ![t] = 0] /\ snap' = [snap EXCEPT ![t] = Empty]
  BY DEF Leave, Goto
<1>2. PcType /\ LocalsType /\ 0 \in 0 .. MaxRevision
  BY Types, CacheAssumption
<1>3. PcType'
  BY <1>1, <1>2 DEF PcType
<1>4. LocalsType'
  BY <1>1, <1>2, KindFacts DEF LocalsType
<1> QED
  BY <1>1, <1>2, <1>3, <1>4, KindFacts DEF PcType, LocalsType

LEMMA GetterFacts ==
  ASSUME TypeOK, NEW t \in Thread, AfterGetter(t), NEW s \in Snapshot,
         snap' = [snap EXCEPT ![t][kind[t]] = s], UNCHANGED <<fetched, wrote, since>>
  PROVE  /\ PcType' /\ LocalsType'
         /\ pc'[t] = IF kind[t] = "total" THEN "fuzzy" ELSE "check"
         /\ kind'[t] = IF kind[t] = "vocab" THEN "freq" ELSE "total"
         /\ snap'[t][kind[t]] = s
         /\ \A k \in Kind : k # kind[t] => snap'[t][k] = snap[t][k]
         /\ \A u \in Thread : u # t =>
              pc'[u] = pc[u] /\ kind'[u] = kind[u] /\ snap'[u] = snap[u]
<1>1. /\ pc' = [pc EXCEPT ![t] = IF kind[t] = "total" THEN "fuzzy" ELSE "check"]
      /\ kind' = [kind EXCEPT ![t] = IF kind[t] = "vocab" THEN "freq" ELSE "total"]
  BY DEF AfterGetter, Goto
<1>2. PcType /\ LocalsType
  BY Types
<1>3. PcType'
  BY <1>1, <1>2 DEF PcType, Reading
<1>4. snap' \in [Thread -> [Kind -> Snapshot \cup {None}]]
  BY <1>2 DEF LocalsType
<1>5. kind' \in [Thread -> Kind]
  BY <1>1, <1>2, KindFacts DEF LocalsType
<1> QED
  BY <1>1, <1>2, <1>3, <1>4, <1>5 DEF PcType, LocalsType

\* What dropping the caches of one process does.
LEMMA ClearFacts ==
  ASSUME TypeOK, NEW p \in Proc, ClearCaches(p)
  PROVE  /\ CachesType'
         /\ \A k \in Kind : cache'[p][k] = None
         /\ fuzzy'[p] = None /\ stamp'[p] = 0
         /\ \A q \in Proc : q # p =>
              cache'[q] = cache[q] /\ fuzzy'[q] = fuzzy[q] /\ stamp'[q] = stamp[q]
<1>1. CachesType
  BY Types
<1>2. /\ cache' \in [Proc -> [Kind -> Snapshot \cup {None}]]
      /\ fuzzy' \in [Proc -> [{"vocab", "freq"} -> Snapshot] \cup {None}]
  BY <1>1, KindFacts DEF ClearCaches, CachesType
<1>3. stamp' \in [Proc -> Nat]
  BY <1>1 DEF ClearCaches, CachesType
<1>4. epoch' \in [Proc -> Nat]
  BY <1>1 DEF ClearCaches, CachesType
<1> QED
  BY <1>1, <1>2, <1>3, <1>4, KindFacts DEF ClearCaches, CachesType

\* A thread's process, and the snapshot that a fill publishes.
LEMMA ThreadFacts ==
  ASSUME TypeOK, NEW t \in Thread
  PROVE  /\ P(t) \in Proc /\ t # None /\ kind[t] \in Kind
         /\ [rev |-> fetched[t], epoch |-> epoch[P(t)]] \in Snapshot
<1>1. P(t) \in Proc /\ t # None
  BY CacheAssumption DEF P
<1> QED
  BY <1>1, Numbers, SnapshotFacts DEF TypeOK

LEMMA PublishFacts ==
  ASSUME TypeOK, NEW t \in Thread, Publish(t)
  PROVE  /\ CachesType' /\ PcType' /\ LocalsType'
         /\ cache'[P(t)][kind[t]] = [rev |-> fetched[t], epoch |-> epoch[P(t)]]
         /\ \A k \in Kind : k # kind[t] => cache'[P(t)][k] = cache[P(t)][k]
         /\ \A p \in Proc : p # P(t) => cache'[p] = cache[p] /\ stamp'[p] = stamp[p]
         /\ stamp'[P(t)] = IF stamp[P(t)] = 0 THEN now ELSE stamp[P(t)]
<1> DEFINE new == [rev |-> fetched[t], epoch |-> epoch[P(t)]]
<1>1. P(t) \in Proc /\ kind[t] \in Kind /\ new \in Snapshot /\ now \in Nat
  BY ThreadFacts, Numbers
<1>2. CachesType
  BY Types
<1>3. /\ cache' = [cache EXCEPT ![P(t)][kind[t]] = new]
      /\ snap' = [snap EXCEPT ![t][kind[t]] = new]
      /\ stamp' = [stamp EXCEPT ![P(t)] = IF stamp[P(t)] = 0 THEN now ELSE stamp[P(t)]]
      /\ AfterGetter(t) /\ UNCHANGED <<fuzzy, epoch, fetched, wrote, since>>
  BY DEF Publish
<1> HIDE DEF new
<1>4. PcType' /\ LocalsType'
  BY <1>1, <1>3, GetterFacts
<1>5. cache' \in [Proc -> [Kind -> Snapshot \cup {None}]]
  BY <1>1, <1>2, <1>3 DEF CachesType
<1>6. stamp' \in [Proc -> Nat]
  BY <1>1, <1>2, <1>3 DEF CachesType
<1>7. CachesType'
  BY <1>2, <1>3, <1>5, <1>6 DEF CachesType
<1> QED
  BY <1>1, <1>2, <1>3, <1>4, <1>7 DEF CachesType, new

\* What FillInv says of a thread and of a process.
LEMMA FillFacts ==
  ASSUME TypeOK, FillInv
  PROVE  /\ \A t \in Thread : pc[t] \in Filling => cacheLock[P(t)] = t
         /\ \A t \in Thread : pc[t] \in Filling => cache[P(t)][kind[t]] = None
         /\ \A p \in Proc, k \in Kind : cache[p][k] # None => stamp[p] # 0
  BY DEF FillInv


LEMMA GotoFacts ==
  ASSUME TypeOK, NEW t \in Thread, NEW place, Goto(t, place)
  PROVE  pc'[t] = place /\ \A u \in Thread : u # t => pc'[u] = pc[u]
  BY DEF TypeOK, Goto

\* Every cache that is not empty afterwards is what it was.
Kept ==
  /\ \A p \in Proc, k \in Kind : cache'[p][k] # None =>
       cache'[p][k] = cache[p][k] /\ stamp'[p] = stamp[p]
  /\ \A p \in Proc : stamp'[p] = stamp[p] \/ stamp'[p] = 0

Dropped ==
  /\ Kept
  /\ \A p \in Proc : fuzzy'[p] # None => fuzzy'[p] = fuzzy[p] /\ cache'[p] = cache[p]

LEMMA ClearDrops == ASSUME TypeOK, NEW p \in Proc, ClearCaches(p) PROVE Dropped
  BY ClearFacts DEF Dropped, Kept

LEMMA RefreshDrops == ASSUME TypeOK, NEW t \in Thread, Refresh(t) PROVE Dropped
<1>1. CASE UNCHANGED caches
  BY <1>1 DEF Dropped, Kept, caches
<1>2. CASE ClearCaches(P(t))
  BY <1>2, ClearDrops, ThreadFacts
<1> QED
  BY <1>1, <1>2 DEF Refresh

LEMMA RestartFacts ==
  ASSUME TypeOK, NEW p \in Proc, Restart(p)
  PROVE  /\ Dropped /\ CachesType' /\ LocalsType'
         /\ \A k \in Kind : cache'[p][k] = None
<1>1. CachesType /\ LocalsType /\ 0 \in 0 .. MaxRevision
  BY Types, CacheAssumption
<1>2. cache' = [cache EXCEPT ![p] = Empty] /\ fuzzy' = [fuzzy EXCEPT ![p] = None]
      /\ stamp' = [stamp EXCEPT ![p] = 0] /\ epoch' = [epoch EXCEPT ![p] = 0]
  BY DEF Restart
<1>3. /\ cache' \in [Proc -> [Kind -> Snapshot \cup {None}]]
      /\ fuzzy' \in [Proc -> [{"vocab", "freq"} -> Snapshot] \cup {None}]
  BY <1>1, <1>2, KindFacts DEF CachesType
<1>4. stamp' \in [Proc -> Nat] /\ epoch' \in [Proc -> Nat]
  BY <1>1, <1>2 DEF CachesType
<1>5. kind' \in [Thread -> Kind]
  BY <1>1, KindFacts DEF LocalsType, Restart
<1>6. snap' \in [Thread -> [Kind -> Snapshot \cup {None}]]
  BY <1>1, KindFacts DEF LocalsType, Restart
<1>7. /\ fetched' \in [Thread -> 0 .. MaxRevision] /\ wrote' \in [Thread -> 0 .. MaxRevision]
      /\ since' \in [Thread -> 0 .. MaxRevision]
  BY <1>1 DEF LocalsType, Restart
<1>8. \A k \in Kind : cache'[p][k] = None
  BY <1>1, <1>2, KindFacts DEF CachesType
<1>9. Dropped
  BY <1>1, <1>2, <1>8 DEF CachesType, Dropped, Kept
<1> QED
  BY <1>3, <1>4, <1>5, <1>6, <1>7, <1>8, <1>9 DEF CachesType, LocalsType

\* What a step of t leaves alone: the other threads; and, for most steps,
\* everything that SeenInv and AgeInv speak of.
Bystanders(t) ==
  \A u \in Thread : u # t =>
    /\ pc'[u] = pc[u] /\ kind'[u] = kind[u] /\ fetched'[u] = fetched[u]
    /\ snap'[u] = snap[u] /\ wrote'[u] = wrote[u] /\ since'[u] = since[u]

Quiet(t) ==
  /\ Kept /\ Bystanders(t) /\ pc'[t] # "publish"
  /\ UNCHANGED <<revision, now, committedAt, returned>>
  /\ wrote'[t] \in {0, wrote[t]} /\ since'[t] \in {0, since[t]}

LEMMA LeaveBystanders ==
  ASSUME TypeOK, NEW t \in Thread, Leave(t)
  PROVE  Bystanders(t) /\ pc'[t] = "idle" /\ wrote'[t] = 0 /\ since'[t] = 0
  BY LeaveFacts DEF Bystanders

LEMMA QueryBystanders ==
  ASSUME TypeOK, NEW t \in Thread, StartQuery(t)
  PROVE  Bystanders(t) /\ pc'[t] = "check"
<1>1. Goto(t, "check") /\ since' = [since EXCEPT ![t] = returned[P(t)]]
  BY DEF StartQuery
<1>2. UNCHANGED <<kind, fetched, snap, wrote>>
  BY DEF StartQuery
<1>3. \A u \in Thread : u # t => since'[u] = since[u]
  BY <1>1 DEF TypeOK
<1> QED
  BY <1>1, <1>2, <1>3, GotoFacts DEF Bystanders

LEMMA CommitBystanders ==
  ASSUME TypeOK, NEW t \in Thread, Commit(t)
  PROVE  /\ Bystanders(t) /\ pc'[t] = "invalidate"
         /\ wrote'[t] = revision + 1 /\ since'[t] = since[t]
<1>1. Goto(t, "invalidate") /\ wrote' = [wrote EXCEPT ![t] = revision + 1]
  BY DEF Commit
<1>2. UNCHANGED <<kind, fetched, snap, since>>
  BY DEF Commit
<1>3. wrote'[t] = revision + 1 /\ \A u \in Thread : u # t => wrote'[u] = wrote[u]
  BY <1>1 DEF TypeOK
<1> QED
  BY <1>1, <1>2, <1>3, GotoFacts DEF Bystanders

LEMMA GotoBystanders ==
  ASSUME TypeOK, NEW t \in Thread, NEW place, Goto(t, place), UNCHANGED locals
  PROVE  /\ Bystanders(t) /\ pc'[t] = place
         /\ wrote'[t] = wrote[t] /\ since'[t] = since[t]
  BY GotoFacts DEF Bystanders, locals

LEMMA QuietSteps ==
  ASSUME TypeOK, NEW t \in Thread,
         \/ Check(t) \/ Refresh(t) \/ UseCache(t) \/ StartFill(t) \/ Connect(t)
         \/ Fuzzy(t) \/ Return(t) \/ ReadError(t)
         \/ StartWrite(t) \/ Begin(t) \/ Rollback(t) \/ OpenError(t)
  PROVE  Quiet(t)
<1>1. CASE Check(t)
  <2>1. Goto(t, IF Expired(P(t)) THEN "clear" ELSE "get") /\ UNCHANGED locals
    BY <1>1 DEF Check
  <2>2. Bystanders(t) /\ pc'[t] # "publish" /\ wrote'[t] = wrote[t] /\ since'[t] = since[t]
    BY <2>1, GotoBystanders
  <2>3. Kept /\ UNCHANGED <<revision, now, committedAt, returned>>
    BY <1>1 DEF Check, Kept, shared, caches
  <2> QED
    BY <2>2, <2>3 DEF Quiet
<1>2. CASE Refresh(t)
  <2>1. Kept
    BY <1>2, RefreshDrops DEF Dropped
  <2>2. Bystanders(t) /\ pc'[t] = "get" /\ wrote'[t] = wrote[t] /\ since'[t] = since[t]
    BY <1>2, GotoBystanders DEF Refresh
  <2>3. UNCHANGED <<revision, now, committedAt, returned>>
    BY <1>2 DEF Refresh, shared
  <2> QED
    BY <2>1, <2>2, <2>3 DEF Quiet
<1>3. CASE StartFill(t)
  <2>1. Goto(t, "connect") /\ UNCHANGED locals
    BY <1>3 DEF StartFill
  <2>2. Bystanders(t) /\ pc'[t] # "publish" /\ wrote'[t] = wrote[t] /\ since'[t] = since[t]
    BY <2>1, GotoBystanders
  <2>3. Kept /\ UNCHANGED <<revision, now, committedAt, returned>>
    BY <1>3 DEF StartFill, Kept, shared, caches
  <2> QED
    BY <2>2, <2>3 DEF Quiet
<1>4. CASE Connect(t)
  <2>1. Goto(t, IF pc[t] = "connect" THEN "read" ELSE "begin") /\ UNCHANGED locals
    BY <1>4 DEF Connect
  <2>2. Bystanders(t) /\ pc'[t] # "publish" /\ wrote'[t] = wrote[t] /\ since'[t] = since[t]
    BY <2>1, GotoBystanders
  <2>3. Kept /\ UNCHANGED <<revision, now, committedAt, returned>>
    BY <1>4 DEF Connect, Kept, shared, caches
  <2> QED
    BY <2>2, <2>3 DEF Quiet
<1>5. CASE StartWrite(t)
  <2>1. Goto(t, "open") /\ UNCHANGED locals
    BY <1>5 DEF StartWrite
  <2>2. Bystanders(t) /\ pc'[t] # "publish" /\ wrote'[t] = wrote[t] /\ since'[t] = since[t]
    BY <2>1, GotoBystanders
  <2>3. Kept /\ UNCHANGED <<revision, now, committedAt, returned>>
    BY <1>5 DEF StartWrite, Kept, caches
  <2> QED
    BY <2>2, <2>3 DEF Quiet
<1>6. CASE Begin(t)
  <2>1. Goto(t, "commit") /\ UNCHANGED locals
    BY <1>6 DEF Begin
  <2>2. Bystanders(t) /\ pc'[t] # "publish" /\ wrote'[t] = wrote[t] /\ since'[t] = since[t]
    BY <2>1, GotoBystanders
  <2>3. Kept /\ UNCHANGED <<revision, now, committedAt, returned>>
    BY <1>6 DEF Begin, Kept, shared, caches
  <2> QED
    BY <2>2, <2>3 DEF Quiet
<1>7. CASE UseCache(t)
  <2>1. P(t) \in Proc /\ kind[t] \in Kind
    BY ThreadFacts
  <2>2. cache[P(t)][kind[t]] \in Snapshot
    BY <1>7, <2>1 DEF TypeOK, UseCache
  <2>3. /\ AfterGetter(t) /\ snap' = [snap EXCEPT ![t][kind[t]] = cache[P(t)][kind[t]]]
        /\ UNCHANGED <<fetched, wrote, since>>
    BY <1>7 DEF UseCache
  <2>4. /\ pc'[t] = (IF kind[t] = "total" THEN "fuzzy" ELSE "check")
        /\ \A u \in Thread : u # t =>
             pc'[u] = pc[u] /\ kind'[u] = kind[u] /\ snap'[u] = snap[u]
    BY <2>2, <2>3, GetterFacts
  <2>6. Bystanders(t) /\ pc'[t] # "publish"
    BY <2>3, <2>4 DEF Bystanders
  <2>5. Kept /\ UNCHANGED <<revision, now, committedAt, returned>>
    BY <1>7 DEF UseCache, Kept, shared, caches
  <2> QED
    BY <2>3, <2>5, <2>6 DEF Quiet
<1>8. CASE Fuzzy(t)
  <2>1. Leave(t)
    BY <1>8 DEF Fuzzy
  <2>2. Kept /\ UNCHANGED <<revision, now, committedAt, returned>>
    BY <1>8 DEF Fuzzy, Kept, shared
  <2> QED
    BY <2>1, <2>2, LeaveBystanders DEF Quiet
<1>9. CASE Return(t)
  <2>1. Leave(t)
    BY <1>9 DEF Return
  <2>2. Kept /\ UNCHANGED <<revision, now, committedAt, returned>>
    BY <1>9 DEF Return, Kept, shared, caches
  <2> QED
    BY <2>1, <2>2, LeaveBystanders DEF Quiet
<1>10. CASE ReadError(t)
  <2>1. Leave(t)
    BY <1>10 DEF ReadError
  <2>2. Kept /\ UNCHANGED <<revision, now, committedAt, returned>>
    BY <1>10 DEF ReadError, Kept, shared, caches
  <2> QED
    BY <2>1, <2>2, LeaveBystanders DEF Quiet
<1>11. CASE Rollback(t)
  <2>1. Leave(t)
    BY <1>11 DEF Rollback
  <2>2. Kept /\ UNCHANGED <<revision, now, committedAt, returned>>
    BY <1>11 DEF Rollback, Kept, caches
  <2> QED
    BY <2>1, <2>2, LeaveBystanders DEF Quiet
<1>12. CASE OpenError(t)
  <2>1. Leave(t)
    BY <1>12 DEF OpenError
  <2>2. Kept /\ UNCHANGED <<revision, now, committedAt, returned>>
    BY <1>12 DEF OpenError, Kept, caches
  <2> QED
    BY <2>1, <2>2, LeaveBystanders DEF Quiet
<1> QED
  BY <1>1, <1>2, <1>3, <1>4, <1>5, <1>6, <1>7, <1>8, <1>9, <1>10, <1>11, <1>12

LEMMA FillFrame ==
  ASSUME TypeOK, FillInv, NEW t \in Thread, Kept, Bystanders(t),
         UNCHANGED cacheLock, pc[t] \notin Filling, pc'[t] \notin Filling
  PROVE  FillInv'
<1>1. \A u \in Thread : P(u) \in Proc /\ kind[u] \in Kind
  BY ThreadFacts
<1>2. \A u \in Thread : pc'[u] \in Filling <=> pc[u] \in Filling
  BY DEF Bystanders
<1>3. \A u \in Thread : pc'[u] \in Filling => kind'[u] = kind[u]
  BY DEF Bystanders
<1>4. \A u \in Thread : pc'[u] \in Filling => cache'[P(u)][kind'[u]] = None
  BY <1>1, <1>2, <1>3 DEF FillInv, Kept
<1>5. \A p \in Proc, k \in Kind : cache'[p][k] # None => stamp'[p] # 0
  BY DEF FillInv, Kept
<1> QED
  BY <1>2, <1>4, <1>5 DEF FillInv, P

LEMMA SeenFrame ==
  ASSUME TypeOK, SeenInv, NEW t \in Thread, Quiet(t)
  PROVE  SeenInv'
<1>1. Kept /\ Bystanders(t) /\ revision' = revision /\ returned' = returned
  BY DEF Quiet
<1>2. \A p \in Proc, k \in Kind : cache'[p][k] # None =>
        returned'[p] <= cache'[p][k].rev /\ cache'[p][k].rev <= revision'
  BY <1>1 DEF SeenInv, Kept
<1>3. ASSUME NEW u \in Thread
      PROVE  wrote'[u] <= revision' /\ since'[u] <= returned'[P(u)]
  <2>1. P(u) \in Proc /\ returned[P(u)] \in Nat /\ revision \in Nat
    BY ThreadFacts, Numbers
  <2>2. wrote'[u] \in {0, wrote[u]} /\ since'[u] \in {0, since[u]}
    BY DEF Quiet, Bystanders
  <2> QED
    BY <1>1, <2>1, <2>2 DEF SeenInv
<1>4. \A u \in Thread : pc'[u] = "publish" =>
        returned'[P(u)] <= fetched'[u] /\ fetched'[u] <= revision'
  BY <1>1 DEF SeenInv, Quiet, Bystanders
<1> QED
  BY <1>1, <1>2, <1>3, <1>4 DEF SeenInv, P

LEMMA AgeFrame ==
  ASSUME TypeOK, AgeInv, NEW t \in Thread, Quiet(t)
  PROVE  AgeInv'
<1>1. /\ Kept /\ Bystanders(t) /\ revision' = revision /\ now' = now
      /\ committedAt' = committedAt /\ pc'[t] # "publish"
  BY DEF Quiet
<1>2. \A p \in Proc : stamp'[p] <= now'
  BY <1>1, Numbers DEF AgeInv, Kept
<1>3. \A p \in Proc, k \in Kind : cache'[p][k] # None /\ cache'[p][k].rev < revision' =>
        stamp'[p] <= committedAt'[cache'[p][k].rev + 1]
  BY <1>1 DEF AgeInv, Kept
<1>4. \A u \in Thread : pc'[u] = "publish" /\ fetched'[u] < revision' =>
        committedAt'[fetched'[u] + 1] = now'
  BY <1>1 DEF AgeInv, Bystanders
<1> QED
  BY <1>2, <1>3, <1>4 DEF AgeInv

LEMMA StepTypeOK ==
  ASSUME TypeOK, FillInv, FileInv, LocalInv, [Next]_vars
  PROVE  TypeOK'
<1> USE Types, ThreadFacts, CacheAssumption
<1>0. CASE UNCHANGED vars
  BY <1>0 DEF vars, TypeOK
<1>1. ASSUME NEW t \in Thread, StartQuery(t) PROVE TypeOK'
  <2>1. SharedType'
    BY <1>1 DEF StartQuery, shared, SharedType
  <2>2. CachesType'
    BY <1>1 DEF StartQuery, caches, CachesType
  <2>3. PcType'
    BY <1>1 DEF StartQuery, Goto, PcType, Reading, Writing
  <2>4. LocalsType'
    <3>1. returned[P(t)] \in 0 .. MaxRevision
      BY DEF SharedType
    <3> QED
      BY <1>1, <3>1 DEF StartQuery, LocalsType
  <2> QED
    BY <2>1, <2>2, <2>3, <2>4 DEF TypeOK, SharedType, CachesType, PcType, LocalsType
<1>2. ASSUME NEW t \in Thread, Check(t) PROVE TypeOK'
  <2>1. SharedType'
    BY <1>2 DEF Check, shared, SharedType
  <2>2. CachesType'
    BY <1>2 DEF Check, caches, CachesType
  <2>3. PcType'
    BY <1>2 DEF Check, Goto, PcType, Reading, Writing
  <2>4. LocalsType'
    BY <1>2 DEF Check, locals, LocalsType
  <2> QED
    BY <2>1, <2>2, <2>3, <2>4 DEF TypeOK, SharedType, CachesType, PcType, LocalsType
<1>3. ASSUME NEW t \in Thread, Refresh(t) PROVE TypeOK'
  <2>1. SharedType'
    BY <1>3 DEF Refresh, shared, SharedType
  <2>2. CachesType'
    BY <1>3, ClearFacts DEF Refresh, caches, CachesType
  <2>3. PcType'
    BY <1>3 DEF Refresh, Goto, PcType, Reading, Writing
  <2>4. LocalsType'
    BY <1>3 DEF Refresh, locals, LocalsType
  <2> QED
    BY <2>1, <2>2, <2>3, <2>4 DEF TypeOK, SharedType, CachesType, PcType, LocalsType
<1>4. ASSUME NEW t \in Thread, UseCache(t) PROVE TypeOK'
  <2>1. SharedType'
    BY <1>4 DEF UseCache, shared, SharedType
  <2>2. CachesType'
    BY <1>4 DEF UseCache, caches, CachesType
  <2>3. PcType' /\ LocalsType'
    <3>1. cache[P(t)][kind[t]] \in Snapshot
      <4>1. P(t) \in Proc /\ kind[t] \in Kind
        BY ThreadFacts
      <4> QED
        BY <1>4, <4>1 DEF CachesType, UseCache
    <3>2. /\ snap' = [snap EXCEPT ![t][kind[t]] = cache[P(t)][kind[t]]]
          /\ AfterGetter(t) /\ UNCHANGED <<fetched, wrote, since>>
      BY <1>4 DEF UseCache
    <3> QED
      BY <3>1, <3>2, GetterFacts
  <2> QED
    BY <2>1, <2>2, <2>3 DEF TypeOK, SharedType, CachesType, PcType, LocalsType
<1>5. ASSUME NEW t \in Thread, StartFill(t) PROVE TypeOK'
  <2>1. SharedType'
    BY <1>5 DEF StartFill, shared, SharedType
  <2>2. CachesType'
    BY <1>5 DEF StartFill, caches, CachesType
  <2>3. PcType'
    BY <1>5 DEF StartFill, Goto, PcType, Reading, Writing
  <2>4. LocalsType'
    BY <1>5 DEF StartFill, locals, LocalsType
  <2> QED
    BY <2>1, <2>2, <2>3, <2>4 DEF TypeOK, SharedType, CachesType, PcType, LocalsType
<1>6. ASSUME NEW t \in Thread, Connect(t) PROVE TypeOK'
  <2>1. SharedType'
    BY <1>6 DEF Connect, shared, SharedType
  <2>2. CachesType'
    BY <1>6 DEF Connect, caches, CachesType
  <2>3. PcType'
    BY <1>6 DEF Connect, Goto, PcType, Reading, Writing
  <2>4. LocalsType'
    BY <1>6 DEF Connect, locals, LocalsType
  <2> QED
    BY <2>1, <2>2, <2>3, <2>4 DEF TypeOK, SharedType, CachesType, PcType, LocalsType
<1>7. ASSUME NEW t \in Thread, Read(t) PROVE TypeOK'
  <2>1. SharedType'
    BY <1>7 DEF Read, shared, SharedType
  <2>2. CachesType'
    BY <1>7 DEF Read, caches, CachesType
  <2>3. PcType'
    BY <1>7 DEF Read, Goto, PcType, Reading, Writing
  <2>4. LocalsType'
    <3>1. revision \in 0 .. MaxRevision
      BY DEF SharedType
    <3> QED
      BY <1>7, <3>1 DEF Read, LocalsType
  <2> QED
    BY <2>1, <2>2, <2>3, <2>4 DEF TypeOK, SharedType, CachesType, PcType, LocalsType
<1>8. ASSUME NEW t \in Thread, Publish(t) PROVE TypeOK'
  <2>1. SharedType'
    BY <1>8 DEF Publish, shared, SharedType
  <2>2. CachesType'
    BY <1>8, PublishFacts DEF Publish, CachesType
  <2>3. PcType'
    BY <1>8, PublishFacts DEF Publish, PcType, Reading, Writing
  <2>4. LocalsType'
    BY <1>8, PublishFacts DEF Publish, LocalsType
  <2> QED
    BY <2>1, <2>2, <2>3, <2>4 DEF TypeOK, SharedType, CachesType, PcType, LocalsType
<1>9. ASSUME NEW t \in Thread, Fuzzy(t) PROVE TypeOK'
  <2>1. SharedType'
    BY <1>9 DEF Fuzzy, shared, SharedType
  <2>2. CachesType'
    <3>1. kind[t] = "total"
      BY <1>9 DEF Fuzzy, LocalInv
    <3>2. snap[t]["vocab"] # None /\ snap[t]["freq"] # None
      BY <3>1 DEF LocalInv
    <3>3. snap[t]["vocab"] \in Snapshot /\ snap[t]["freq"] \in Snapshot
      BY <3>2, KindFacts DEF LocalsType
    <3>4. [k \in {"vocab", "freq"} |-> snap[t][k]] \in [{"vocab", "freq"} -> Snapshot]
      BY <3>3
    <3>5. fuzzy' \in [Proc -> [{"vocab", "freq"} -> Snapshot] \cup {None}]
      <4> DEFINE pair == [k \in {"vocab", "freq"} |-> snap[t][k]]
      <4>1. fuzzy' = [fuzzy EXCEPT ![P(t)] = pair] \/ fuzzy' = fuzzy
        BY <1>9 DEF Fuzzy
      <4> HIDE DEF pair
      <4> QED
        BY <3>4, <4>1 DEF CachesType, pair
    <3> QED
      BY <1>9, <3>5 DEF Fuzzy, CachesType
  <2>3. PcType' /\ LocalsType'
    BY <1>9, LeaveFacts DEF Fuzzy
  <2> QED
    BY <2>1, <2>2, <2>3 DEF TypeOK, SharedType, CachesType, PcType, LocalsType
<1>10. ASSUME NEW t \in Thread, Return(t) PROVE TypeOK'
  <2>1. SharedType'
    BY <1>10 DEF Return, shared, SharedType
  <2>2. CachesType'
    BY <1>10 DEF Return, caches, CachesType
  <2>3. PcType'
    BY <1>10, LeaveFacts DEF Return, PcType, Reading, Writing
  <2>4. LocalsType'
    BY <1>10, LeaveFacts DEF Return, LocalsType
  <2> QED
    BY <2>1, <2>2, <2>3, <2>4 DEF TypeOK, SharedType, CachesType, PcType, LocalsType
<1>11. ASSUME NEW t \in Thread, StartWrite(t) PROVE TypeOK'
  <2>1. SharedType'
    BY <1>11 DEF StartWrite, SharedType
  <2>2. CachesType'
    BY <1>11 DEF StartWrite, caches, CachesType
  <2>3. PcType'
    BY <1>11 DEF StartWrite, Goto, PcType, Reading, Writing
  <2>4. LocalsType'
    BY <1>11 DEF StartWrite, locals, LocalsType
  <2> QED
    BY <2>1, <2>2, <2>3, <2>4 DEF TypeOK, SharedType, CachesType, PcType, LocalsType
<1>12. ASSUME NEW t \in Thread, Begin(t) PROVE TypeOK'
  <2>1. SharedType'
    BY <1>12 DEF Begin, shared, SharedType
  <2>2. CachesType'
    BY <1>12 DEF Begin, caches, CachesType
  <2>3. PcType'
    BY <1>12 DEF Begin, Goto, PcType, Reading, Writing
  <2>4. LocalsType'
    BY <1>12 DEF Begin, locals, LocalsType
  <2> QED
    BY <2>1, <2>2, <2>3, <2>4 DEF TypeOK, SharedType, CachesType, PcType, LocalsType
<1>13. ASSUME NEW t \in Thread, Commit(t) PROVE TypeOK'
  <2>1. revision \in 0 .. MaxRevision /\ revision + 1 \in 0 .. MaxRevision
    BY <1>13 DEF Commit, FileInv, SharedType
  <2>2. SharedType'
    <3>1. revision' = revision + 1 /\ now' = now
      BY <1>13 DEF Commit
    <3>2. committedAt' \in [1 .. MaxRevision -> Nat]
      BY <1>13 DEF Commit, SharedType
    <3>3. connLock' \in [Proc -> Thread \cup {None}]
      BY <1>13 DEF Commit, SharedType
    <3> QED
      BY <1>13, <2>1, <3>1, <3>2, <3>3 DEF Commit, SharedType
  <2>3. CachesType'
    BY <1>13 DEF Commit, caches, CachesType
  <2>4. PcType'
    BY <1>13 DEF Commit, Goto, PcType, Reading, Writing
  <2>5. LocalsType'
    BY <1>13, <2>1 DEF Commit, LocalsType
  <2> QED
    BY <2>2, <2>3, <2>4, <2>5 DEF TypeOK, SharedType, CachesType, PcType, LocalsType
<1>14. ASSUME NEW t \in Thread, Invalidate(t) PROVE TypeOK'
  <2>1. SharedType'
    <3>1. Later(returned[P(t)], wrote[t]) \in 0 .. MaxRevision
      BY DEF Later, SharedType, LocalsType
    <3>2. returned' = [returned EXCEPT ![P(t)] = Later(returned[P(t)], wrote[t])]
      BY <1>14 DEF Invalidate
    <3>3. returned' \in [Proc -> 0 .. MaxRevision]
      BY <3>1, <3>2 DEF SharedType
    <3> QED
      BY <1>14, <3>3 DEF Invalidate, shared, SharedType
  <2>2. CachesType' /\ PcType' /\ LocalsType'
    BY <1>14, ClearFacts, LeaveFacts DEF Invalidate
  <2> QED
    BY <2>1, <2>2 DEF TypeOK, SharedType, CachesType, PcType, LocalsType
<1>15. ASSUME NEW t \in Thread, ReadError(t) PROVE TypeOK'
  <2>1. SharedType'
    BY <1>15 DEF ReadError, shared, SharedType
  <2>2. CachesType'
    BY <1>15 DEF ReadError, caches, CachesType
  <2>3. PcType'
    BY <1>15, LeaveFacts DEF ReadError, PcType, Reading, Writing
  <2>4. LocalsType'
    BY <1>15, LeaveFacts DEF ReadError, LocalsType
  <2> QED
    BY <2>1, <2>2, <2>3, <2>4 DEF TypeOK, SharedType, CachesType, PcType, LocalsType
<1>16. ASSUME NEW t \in Thread, Rollback(t) PROVE TypeOK'
  <2>1. SharedType'
    BY <1>16 DEF Rollback, SharedType
  <2>2. CachesType'
    BY <1>16 DEF Rollback, caches, CachesType
  <2>3. PcType'
    BY <1>16, LeaveFacts DEF Rollback, PcType, Reading, Writing
  <2>4. LocalsType'
    BY <1>16, LeaveFacts DEF Rollback, LocalsType
  <2> QED
    BY <2>1, <2>2, <2>3, <2>4 DEF TypeOK, SharedType, CachesType, PcType, LocalsType
<1>17. ASSUME NEW t \in Thread, OpenError(t) PROVE TypeOK'
  <2>1. SharedType'
    BY <1>17 DEF OpenError, SharedType
  <2>2. CachesType'
    BY <1>17 DEF OpenError, caches, CachesType
  <2>3. PcType'
    BY <1>17, LeaveFacts DEF OpenError, PcType, Reading, Writing
  <2>4. LocalsType'
    BY <1>17, LeaveFacts DEF OpenError, LocalsType
  <2> QED
    BY <2>1, <2>2, <2>3, <2>4 DEF TypeOK, SharedType, CachesType, PcType, LocalsType
<1>18. ASSUME NEW p \in Proc, Close(p) PROVE TypeOK'
  <2>1. SharedType'
    BY <1>18 DEF Close, shared, SharedType
  <2>2. CachesType'
    BY <1>18 DEF Close, caches, CachesType
  <2>3. PcType'
    BY <1>18 DEF Close, PcType, Reading, Writing
  <2>4. LocalsType'
    BY <1>18 DEF Close, locals, LocalsType
  <2> QED
    BY <2>1, <2>2, <2>3, <2>4 DEF TypeOK, SharedType, CachesType, PcType, LocalsType
<1>19. ASSUME NEW p \in Proc, Restart(p) PROVE TypeOK'
  <2>1. SharedType'
    BY <1>19 DEF Restart, SharedType
  <2>2. CachesType' /\ LocalsType'
    BY <1>19, RestartFacts
  <2>3. PcType'
    BY <1>19 DEF Restart, PcType
  <2> QED
    BY <2>1, <2>2, <2>3 DEF TypeOK, SharedType, CachesType, PcType, LocalsType
<1>20. CASE Tick
  <2>1. SharedType'
    BY <1>20 DEF Tick, SharedType
  <2>2. CachesType'
    BY <1>20 DEF Tick, caches, CachesType
  <2>3. PcType'
    BY <1>20 DEF Tick, PcType, Reading, Writing
  <2>4. LocalsType'
    BY <1>20 DEF Tick, locals, LocalsType
  <2> QED
    BY <2>1, <2>2, <2>3, <2>4 DEF TypeOK, SharedType, CachesType, PcType, LocalsType
<1> QED
  BY <1>0, <1>1, <1>2, <1>3, <1>4, <1>5, <1>6, <1>7, <1>8, <1>9, <1>10, <1>11, <1>12,
     <1>13, <1>14, <1>15, <1>16, <1>17, <1>18, <1>19, <1>20 DEF Next, Getter, Write,
     Failure

LEMMA StepFillInv ==
  ASSUME TypeOK, FillInv, [Next]_vars
  PROVE  FillInv'
<1> USE CacheAssumption DEF P, TypeOK, FillInv, Filling, Empty, Kind
<1>0. CASE UNCHANGED vars
  BY <1>0 DEF vars
<1>1. ASSUME NEW t \in Thread, StartQuery(t) PROVE FillInv'
  <2> HIDE DEF TypeOK, P, Empty, Kind, FillInv, Filling
  <2>1. Bystanders(t) /\ pc[t] \notin Filling /\ UNCHANGED cacheLock
    BY <1>1, QueryBystanders DEF StartQuery, Filling
  <2>2. pc'[t] \notin Filling
    BY <1>1, GotoFacts DEF StartQuery, Filling
  <2>3. Kept
    BY <1>1 DEF StartQuery, caches, Kept
  <2> QED
    BY <2>1, <2>2, <2>3, FillFrame
<1>2. ASSUME NEW t \in Thread, Check(t) PROVE FillInv'
  <2> HIDE DEF TypeOK, P, Empty, Kind, FillInv, Filling
  <2>1. Quiet(t) /\ pc[t] \notin Filling /\ UNCHANGED cacheLock
    BY <1>2, QuietSteps DEF Check, Filling
  <2>2. pc'[t] \notin Filling
    BY <1>2, GotoFacts DEF Check, Filling
  <2> QED
    BY <2>1, <2>2, FillFrame DEF Quiet
<1>3. ASSUME NEW t \in Thread, Refresh(t) PROVE FillInv'
  <2> HIDE DEF TypeOK, P, Empty, Kind, FillInv, Filling
  <2>1. Quiet(t) /\ pc[t] \notin Filling /\ UNCHANGED cacheLock
    BY <1>3, QuietSteps DEF Refresh, Filling
  <2>2. pc'[t] \notin Filling
    BY <1>3, GotoFacts DEF Refresh, Filling
  <2> QED
    BY <2>1, <2>2, FillFrame DEF Quiet
<1>4. ASSUME NEW t \in Thread, UseCache(t) PROVE FillInv'
  <2> HIDE DEF TypeOK, P, Empty, Kind, FillInv, Filling
  <2>1. Quiet(t) /\ pc[t] \notin Filling /\ UNCHANGED cacheLock
    BY <1>4, QuietSteps DEF UseCache, Filling
  <2>2. pc'[t] \notin Filling
    BY <1>4, GotoFacts DEF UseCache, AfterGetter, Filling
  <2> QED
    BY <2>1, <2>2, FillFrame DEF Quiet
<1>5. ASSUME NEW t \in Thread, StartFill(t) PROVE FillInv'
  <2> HIDE DEF TypeOK, P, Empty, Kind
  <2>1. pc[t] = "get" /\ pc'[t] = "connect" /\ \A u \in Thread : u # t => pc'[u] = pc[u]
    BY <1>5, GotoFacts DEF StartFill
  <2>2. /\ cacheLock[P(t)] = None /\ cacheLock'[P(t)] = t
        /\ \A p \in Proc : p # P(t) => cacheLock'[p] = cacheLock[p]
    BY <1>5, ThreadFacts DEF StartFill, TypeOK
  <2>3. cache[P(t)][kind[t]] = None /\ cache' = cache /\ kind' = kind /\ stamp' = stamp
    BY <1>5 DEF StartFill, caches, locals
  <2>4. \A u \in Thread : P(u) \in Proc /\ u # None
    BY ThreadFacts
  <2>5. \A u \in Thread : pc'[u] \in Filling <=> cacheLock'[P(u)] = u
    BY <2>1, <2>2, <2>4
  <2>6. \A u \in Thread : pc'[u] \in Filling => cache'[P(u)][kind'[u]] = None
    BY <2>1, <2>3
  <2>7. \A p \in Proc : cacheLock'[p] # None => P(cacheLock'[p]) = p
    BY <2>2
  <2> QED
    BY <2>3, <2>5, <2>6, <2>7 DEF P
<1>6. ASSUME NEW t \in Thread, Connect(t) PROVE FillInv'
  <2> HIDE DEF TypeOK, P, Empty, Kind
  <2>1. /\ pc[t] \in {"connect", "open"}
        /\ pc'[t] = (IF pc[t] = "connect" THEN "read" ELSE "begin")
        /\ \A u \in Thread : u # t => pc'[u] = pc[u]
    BY <1>6, GotoFacts DEF Connect
  <2>2. cacheLock' = cacheLock /\ cache' = cache /\ kind' = kind /\ stamp' = stamp
    BY <1>6 DEF Connect, caches, locals
  <2>3. \A u \in Thread : pc'[u] \in Filling <=> pc[u] \in Filling
    BY <2>1
  <2> QED
    BY <2>2, <2>3 DEF P
<1>7. ASSUME NEW t \in Thread, Read(t) PROVE FillInv'
  <2> HIDE DEF TypeOK, P, Empty, Kind, FillInv, Filling
  <2>1. /\ pc[t] = "read" /\ pc'[t] = "publish" /\ \A u \in Thread : u # t => pc'[u] = pc[u]
    BY <1>7, GotoFacts DEF Read
  <2>2. cacheLock' = cacheLock /\ cache' = cache /\ kind' = kind /\ stamp' = stamp
    BY <1>7 DEF Read, caches
  <2>3. \A u \in Thread : pc'[u] \in Filling <=> pc[u] \in Filling
    BY <2>1 DEF Filling
  <2> QED
    BY <2>2, <2>3 DEF P, FillInv
<1>8. ASSUME NEW t \in Thread, Publish(t) PROVE FillInv'
  <2> HIDE DEF TypeOK, P, Empty, Kind, FillInv, Filling
  <2>1. /\ pc[t] = "publish" /\ pc'[t] \in {"check", "fuzzy"}
        /\ \A u \in Thread : u # t => pc'[u] = pc[u] /\ kind'[u] = kind[u]
    BY <1>8, GotoFacts DEF Publish, AfterGetter, TypeOK
  <2>2. /\ \A p \in Proc : p # P(t) => cache'[p] = cache[p] /\ stamp'[p] = stamp[p]
        /\ stamp'[P(t)] # 0
    BY <1>8, PublishFacts DEF TypeOK
  <2>3. cacheLock'[P(t)] = None /\ \A p \in Proc : p # P(t) => cacheLock'[p] = cacheLock[p]
    BY <1>8, ThreadFacts DEF Publish, TypeOK
  <2>4. cacheLock[P(t)] = t /\ \A u \in Thread : P(u) \in Proc /\ u # None
    BY <2>1, FillFacts, ThreadFacts DEF Filling
  <2>5. ASSUME NEW u \in Thread PROVE pc'[u] \in Filling <=> cacheLock'[P(u)] = u
    <3>1. pc[u] \in Filling <=> cacheLock[P(u)] = u
      BY DEF FillInv
    <3>2. CASE u = t
      BY <2>1, <2>3, <2>4, <3>2 DEF Filling
    <3>3. CASE u # t
      BY <2>1, <2>3, <2>4, <3>1, <3>3
    <3> QED
      BY <3>2, <3>3
  <2>6. ASSUME NEW u \in Thread, pc'[u] \in Filling PROVE cache'[P(u)][kind'[u]] = None
    <3>1. u # t
      BY <2>1, <2>6 DEF Filling
    <3>2. P(u) # P(t)
      BY <2>3, <2>4, <2>5, <2>6
    <3>3. pc[u] \in Filling /\ kind'[u] = kind[u] /\ P(u) \in Proc
      BY <2>1, <2>4, <2>6, <3>1
    <3> QED
      BY <2>2, <3>2, <3>3, FillFacts
  <2>7. \A p \in Proc : cacheLock'[p] # None => P(cacheLock'[p]) = p
    BY <2>3 DEF FillInv
  <2>8. \A p \in Proc, k \in Kind : cache'[p][k] # None => stamp'[p] # 0
    BY <2>2, FillFacts
  <2> QED
    BY <2>5, <2>6, <2>7, <2>8 DEF FillInv, P
<1>9. ASSUME NEW t \in Thread, Fuzzy(t) PROVE FillInv'
  <2> HIDE DEF TypeOK, P, Empty, Kind, FillInv, Filling
  <2>1. Quiet(t) /\ pc[t] \notin Filling /\ UNCHANGED cacheLock
    BY <1>9, QuietSteps DEF Fuzzy, Filling
  <2>2. pc'[t] \notin Filling
    BY <1>9, LeaveFacts DEF Fuzzy, Filling
  <2> QED
    BY <2>1, <2>2, FillFrame DEF Quiet
<1>10. ASSUME NEW t \in Thread, Return(t) PROVE FillInv'
  <2> HIDE DEF TypeOK, P, Empty, Kind, FillInv, Filling
  <2>1. Quiet(t) /\ pc[t] \notin Filling /\ UNCHANGED cacheLock
    BY <1>10, QuietSteps DEF Return, Filling
  <2>2. pc'[t] \notin Filling
    BY <1>10, LeaveFacts DEF Return, Filling
  <2> QED
    BY <2>1, <2>2, FillFrame DEF Quiet
<1>11. ASSUME NEW t \in Thread, StartWrite(t) PROVE FillInv'
  <2> HIDE DEF TypeOK, P, Empty, Kind, FillInv, Filling
  <2>1. Quiet(t) /\ pc[t] \notin Filling /\ UNCHANGED cacheLock
    BY <1>11, QuietSteps DEF StartWrite, Filling
  <2>2. pc'[t] \notin Filling
    BY <1>11, GotoFacts DEF StartWrite, Filling
  <2> QED
    BY <2>1, <2>2, FillFrame DEF Quiet
<1>12. ASSUME NEW t \in Thread, Begin(t) PROVE FillInv'
  <2> HIDE DEF TypeOK, P, Empty, Kind, FillInv, Filling
  <2>1. Quiet(t) /\ pc[t] \notin Filling /\ UNCHANGED cacheLock
    BY <1>12, QuietSteps DEF Begin, Filling
  <2>2. pc'[t] \notin Filling
    BY <1>12, GotoFacts DEF Begin, Filling
  <2> QED
    BY <2>1, <2>2, FillFrame DEF Quiet
<1>13. ASSUME NEW t \in Thread, Commit(t) PROVE FillInv'
  <2> HIDE DEF TypeOK, P, Empty, Kind, FillInv, Filling
  <2>1. Bystanders(t) /\ pc[t] \notin Filling /\ UNCHANGED cacheLock
    BY <1>13, CommitBystanders DEF Commit, Filling
  <2>2. pc'[t] \notin Filling
    BY <1>13, GotoFacts DEF Commit, Filling
  <2>3. Kept
    BY <1>13 DEF Commit, caches, Kept
  <2> QED
    BY <2>1, <2>2, <2>3, FillFrame
<1>14. ASSUME NEW t \in Thread, Invalidate(t) PROVE FillInv'
  <2> HIDE DEF TypeOK, P, Empty, Kind, FillInv, Filling
  <2>1. Bystanders(t) /\ pc'[t] = "idle" /\ UNCHANGED cacheLock
    BY <1>14, LeaveBystanders DEF Invalidate
  <2>2. pc[t] \notin Filling
    BY <1>14 DEF Invalidate, Filling
  <2>3. Kept
    BY <1>14, ClearDrops, ThreadFacts DEF Invalidate, Dropped
  <2> QED
    BY <2>1, <2>2, <2>3, FillFrame DEF Filling
<1>15. ASSUME NEW t \in Thread, ReadError(t) PROVE FillInv'
  <2> HIDE DEF TypeOK, P, Empty, Kind, FillInv, Filling
  <2>1. /\ pc[t] \in Filling /\ pc'[t] = "idle"
        /\ \A u \in Thread : u # t => pc'[u] = pc[u] /\ kind'[u] = kind[u]
    BY <1>15, LeaveFacts DEF ReadError, Filling
  <2>2. cache' = cache /\ stamp' = stamp
    BY <1>15 DEF ReadError, caches
  <2>3. cacheLock'[P(t)] = None /\ \A p \in Proc : p # P(t) => cacheLock'[p] = cacheLock[p]
    BY <1>15, ThreadFacts DEF ReadError, TypeOK
  <2>4. cacheLock[P(t)] = t /\ \A u \in Thread : P(u) \in Proc /\ u # None
    BY <2>1, FillFacts, ThreadFacts
  <2>5. ASSUME NEW u \in Thread PROVE pc'[u] \in Filling <=> cacheLock'[P(u)] = u
    <3>1. pc[u] \in Filling <=> cacheLock[P(u)] = u
      BY DEF FillInv
    <3>2. CASE u = t
      BY <2>1, <2>3, <2>4, <3>2 DEF Filling
    <3>3. CASE u # t
      BY <2>1, <2>3, <2>4, <3>1, <3>3
    <3> QED
      BY <3>2, <3>3
  <2>6. \A u \in Thread : pc'[u] \in Filling => cache'[P(u)][kind'[u]] = None
    BY <2>1, <2>2, FillFacts DEF Filling
  <2>7. \A p \in Proc : cacheLock'[p] # None => P(cacheLock'[p]) = p
    BY <2>3 DEF FillInv
  <2> QED
    BY <2>2, <2>5, <2>6, <2>7 DEF FillInv, P
<1>16. ASSUME NEW t \in Thread, Rollback(t) PROVE FillInv'
  <2> HIDE DEF TypeOK, P, Empty, Kind, FillInv, Filling
  <2>1. Quiet(t) /\ pc[t] \notin Filling /\ UNCHANGED cacheLock
    BY <1>16, QuietSteps DEF Rollback, Filling
  <2>2. pc'[t] \notin Filling
    BY <1>16, LeaveFacts DEF Rollback, Filling
  <2> QED
    BY <2>1, <2>2, FillFrame DEF Quiet
<1>17. ASSUME NEW t \in Thread, OpenError(t) PROVE FillInv'
  <2> HIDE DEF TypeOK, P, Empty, Kind, FillInv, Filling
  <2>1. Quiet(t) /\ pc[t] \notin Filling /\ UNCHANGED cacheLock
    BY <1>17, QuietSteps DEF OpenError, Filling
  <2>2. pc'[t] \notin Filling
    BY <1>17, LeaveFacts DEF OpenError, Filling
  <2> QED
    BY <2>1, <2>2, FillFrame DEF Quiet
<1>18. ASSUME NEW p \in Proc, Close(p) PROVE FillInv'
  BY <1>18 DEF Close, shared, caches, locals
<1>19. ASSUME NEW p \in Proc, Restart(p) PROVE FillInv'
  BY <1>19 DEF Restart
<1>20. CASE Tick
  BY <1>20 DEF Tick, caches, locals
<1> QED
  BY <1>0, <1>1, <1>2, <1>3, <1>4, <1>5, <1>6, <1>7, <1>8, <1>9, <1>10, <1>11, <1>12,
     <1>13, <1>14, <1>15, <1>16, <1>17, <1>18, <1>19, <1>20 DEF Next, Getter, Write,
     Failure

LEMMA StepFileInv ==
  ASSUME TypeOK, FileInv, [Next]_vars
  PROVE  FileInv'
<1> USE CacheAssumption DEF P, TypeOK, FileInv
<1>0. CASE UNCHANGED vars
  BY <1>0 DEF vars
<1>1. ASSUME NEW t \in Thread, StartQuery(t) PROVE FileInv'
  BY <1>1 DEF StartQuery, Goto, shared, caches
<1>2. ASSUME NEW t \in Thread, Check(t) PROVE FileInv'
  BY <1>2 DEF Check, Goto, shared, caches, locals
<1>3. ASSUME NEW t \in Thread, Refresh(t) PROVE FileInv'
  BY <1>3 DEF Refresh, Goto, ClearCaches, shared, caches, locals
<1>4. ASSUME NEW t \in Thread, UseCache(t) PROVE FileInv'
  BY <1>4 DEF UseCache, AfterGetter, Goto, shared, caches
<1>5. ASSUME NEW t \in Thread, StartFill(t) PROVE FileInv'
  BY <1>5 DEF StartFill, Goto, shared, caches, locals
<1>6. ASSUME NEW t \in Thread, Connect(t) PROVE FileInv'
  BY <1>6 DEF Connect, Goto, shared, caches, locals
<1>7. ASSUME NEW t \in Thread, Read(t) PROVE FileInv'
  BY <1>7 DEF Read, Goto, shared, caches
<1>8. ASSUME NEW t \in Thread, Publish(t) PROVE FileInv'
  BY <1>8 DEF Publish, AfterGetter, Goto, shared
<1>9. ASSUME NEW t \in Thread, Fuzzy(t) PROVE FileInv'
  BY <1>9 DEF Fuzzy, Leave, Goto, shared
<1>10. ASSUME NEW t \in Thread, Return(t) PROVE FileInv'
  BY <1>10 DEF Return, Leave, Goto, shared, caches
<1>11. ASSUME NEW t \in Thread, StartWrite(t) PROVE FileInv'
  BY <1>11 DEF StartWrite, Goto, caches, locals
<1>12. ASSUME NEW t \in Thread, Begin(t) PROVE FileInv'
  BY <1>12 DEF Begin, Goto, shared, caches, locals
<1>13. ASSUME NEW t \in Thread, Commit(t) PROVE FileInv'
  BY <1>13 DEF Commit, Goto, caches
<1>14. ASSUME NEW t \in Thread, Invalidate(t) PROVE FileInv'
  BY <1>14 DEF Invalidate, Leave, ClearCaches, Later, Goto, shared
<1>15. ASSUME NEW t \in Thread, ReadError(t) PROVE FileInv'
  BY <1>15 DEF ReadError, Leave, Goto, shared, caches
<1>16. ASSUME NEW t \in Thread, Rollback(t) PROVE FileInv'
  BY <1>16 DEF Rollback, Leave, Goto, caches
<1>17. ASSUME NEW t \in Thread, OpenError(t) PROVE FileInv'
  BY <1>17 DEF OpenError, Leave, Goto, caches
<1>18. ASSUME NEW p \in Proc, Close(p) PROVE FileInv'
  BY <1>18 DEF Close, shared, caches, locals
<1>19. ASSUME NEW p \in Proc, Restart(p) PROVE FileInv'
  BY <1>19 DEF Restart
<1>20. CASE Tick
  BY <1>20 DEF Tick, caches, locals
<1> QED
  BY <1>0, <1>1, <1>2, <1>3, <1>4, <1>5, <1>6, <1>7, <1>8, <1>9, <1>10, <1>11, <1>12,
     <1>13, <1>14, <1>15, <1>16, <1>17, <1>18, <1>19, <1>20 DEF Next, Getter, Write,
     Failure

LEMMA StepLocalInv ==
  ASSUME TypeOK, FillInv, LocalInv, [Next]_vars
  PROVE  LocalInv'
<1> USE CacheAssumption DEF P, TypeOK, LocalInv, Empty, Kind, Snapshot
<1>0. CASE UNCHANGED vars
  BY <1>0 DEF vars
<1>1. ASSUME NEW t \in Thread, StartQuery(t) PROVE LocalInv'
  BY <1>1 DEF StartQuery, Goto, shared, caches
<1>2. ASSUME NEW t \in Thread, Check(t) PROVE LocalInv'
  BY <1>2 DEF Check, Goto, shared, caches, locals
<1>3. ASSUME NEW t \in Thread, Refresh(t) PROVE LocalInv'
  BY <1>3 DEF Refresh, Goto, ClearCaches, shared, caches, locals
<1>4. ASSUME NEW t \in Thread, UseCache(t) PROVE LocalInv'
  BY <1>4 DEF UseCache, AfterGetter, Goto, shared, caches
<1>5. ASSUME NEW t \in Thread, StartFill(t) PROVE LocalInv'
  BY <1>5 DEF StartFill, Goto, shared, caches, locals
<1>6. ASSUME NEW t \in Thread, Connect(t) PROVE LocalInv'
  BY <1>6 DEF Connect, Goto, shared, caches, locals
<1>7. ASSUME NEW t \in Thread, Read(t) PROVE LocalInv'
  BY <1>7 DEF Read, Goto, shared, caches
<1>8. ASSUME NEW t \in Thread, Publish(t) PROVE LocalInv'
  BY <1>8 DEF Publish, AfterGetter, Goto, shared
<1>9. ASSUME NEW t \in Thread, Fuzzy(t) PROVE LocalInv'
  BY <1>9 DEF Fuzzy, Leave, Goto, shared
<1>10. ASSUME NEW t \in Thread, Return(t) PROVE LocalInv'
  BY <1>10 DEF Return, Leave, Goto, shared, caches
<1>11. ASSUME NEW t \in Thread, StartWrite(t) PROVE LocalInv'
  BY <1>11 DEF StartWrite, Goto, caches, locals
<1>12. ASSUME NEW t \in Thread, Begin(t) PROVE LocalInv'
  BY <1>12 DEF Begin, Goto, shared, caches, locals
<1>13. ASSUME NEW t \in Thread, Commit(t) PROVE LocalInv'
  BY <1>13 DEF Commit, Goto, caches
<1>14. ASSUME NEW t \in Thread, Invalidate(t) PROVE LocalInv'
  BY <1>14 DEF Invalidate, Leave, ClearCaches, Later, Goto, shared
<1>15. ASSUME NEW t \in Thread, ReadError(t) PROVE LocalInv'
  BY <1>15 DEF ReadError, Leave, Goto, shared, caches
<1>16. ASSUME NEW t \in Thread, Rollback(t) PROVE LocalInv'
  BY <1>16 DEF Rollback, Leave, Goto, caches
<1>17. ASSUME NEW t \in Thread, OpenError(t) PROVE LocalInv'
  BY <1>17 DEF OpenError, Leave, Goto, caches
<1>18. ASSUME NEW p \in Proc, Close(p) PROVE LocalInv'
  BY <1>18 DEF Close, shared, caches, locals
<1>19. ASSUME NEW p \in Proc, Restart(p) PROVE LocalInv'
  BY <1>19 DEF Restart
<1>20. CASE Tick
  BY <1>20 DEF Tick, caches, locals
<1> QED
  BY <1>0, <1>1, <1>2, <1>3, <1>4, <1>5, <1>6, <1>7, <1>8, <1>9, <1>10, <1>11, <1>12,
     <1>13, <1>14, <1>15, <1>16, <1>17, <1>18, <1>19, <1>20 DEF Next, Getter, Write,
     Failure

LEMMA StepSeenInv ==
  ASSUME TypeOK, FillInv, FileInv, SeenInv, [Next]_vars
  PROVE  SeenInv'
<1> USE CacheAssumption DEF P, TypeOK, FillInv, SeenInv, Filling, Empty, Kind, Snapshot
<1>0. CASE UNCHANGED vars
  BY <1>0 DEF vars
<1>1. ASSUME NEW t \in Thread, StartQuery(t) PROVE SeenInv'
  <2> HIDE DEF TypeOK, P, Empty, Kind, Snapshot, Filling, FillInv
  <2> USE Numbers, ThreadFacts
  <2>1. since' = [since EXCEPT ![t] = returned[P(t)]]
    BY <1>1 DEF StartQuery
  <2>2. since'[t] = returned[P(t)] /\ \A u \in Thread : u # t => since'[u] = since[u]
    BY <2>1 DEF TypeOK
  <2>3. /\ pc[t] = "idle" /\ pc'[t] = "check" /\ \A u \in Thread : u # t => pc'[u] = pc[u]
    BY <1>1, GotoFacts DEF StartQuery
  <2>4. /\ revision' = revision /\ returned' = returned /\ cache' = cache
        /\ wrote' = wrote /\ fetched' = fetched
    BY <1>1 DEF StartQuery, shared, caches
  <2>5. ASSUME NEW u \in Thread
        PROVE  wrote'[u] <= revision' /\ since'[u] <= returned'[P(u)]
    <3>1. P(u) \in Proc /\ returned[P(u)] \in Nat
      BY ThreadFacts, Numbers
    <3> QED
      BY <2>2, <2>4, <3>1
  <2> QED
    BY <2>3, <2>4, <2>5 DEF P
<1>2. ASSUME NEW t \in Thread, Check(t) PROVE SeenInv'
  BY <1>2, QuietSteps, SeenFrame
<1>3. ASSUME NEW t \in Thread, Refresh(t) PROVE SeenInv'
  BY <1>3, QuietSteps, SeenFrame
<1>4. ASSUME NEW t \in Thread, UseCache(t) PROVE SeenInv'
  BY <1>4, QuietSteps, SeenFrame
<1>5. ASSUME NEW t \in Thread, StartFill(t) PROVE SeenInv'
  BY <1>5, QuietSteps, SeenFrame
<1>6. ASSUME NEW t \in Thread, Connect(t) PROVE SeenInv'
  BY <1>6, QuietSteps, SeenFrame
<1>7. ASSUME NEW t \in Thread, Read(t) PROVE SeenInv'
  <2> HIDE DEF TypeOK, P, Empty, Kind, Snapshot, Filling, FillInv
  <2>1. /\ fetched'[t] = revision /\ \A u \in Thread : u # t => fetched'[u] = fetched[u]
    BY <1>7 DEF Read, TypeOK
  <2>2. \A u \in Thread : u # t => pc'[u] = pc[u]
    BY <1>7, GotoFacts DEF Read
  <2>3. /\ revision' = revision /\ returned' = returned /\ cache' = cache
        /\ wrote' = wrote /\ since' = since
    BY <1>7 DEF Read, shared, caches
  <2>4. ASSUME NEW u \in Thread, pc'[u] = "publish"
        PROVE  returned'[P(u)] <= fetched'[u] /\ fetched'[u] <= revision'
    <3>1. P(u) \in Proc /\ revision \in Nat
      BY ThreadFacts, Numbers
    <3> QED
      BY <2>1, <2>2, <2>3, <2>4, <3>1
  <2> QED
    BY <2>3, <2>4 DEF P
<1>8. ASSUME NEW t \in Thread, Publish(t) PROVE SeenInv'
  <2> HIDE DEF TypeOK, P, Empty, Kind, Snapshot, Filling, FillInv
  <2>1. /\ pc[t] = "publish" /\ pc'[t] # "publish"
        /\ \A u \in Thread : u # t => pc'[u] = pc[u]
    BY <1>8, GotoFacts DEF Publish, AfterGetter
  <2>2. /\ revision' = revision /\ returned' = returned /\ wrote' = wrote
        /\ since' = since /\ fetched' = fetched
    BY <1>8 DEF Publish, shared
  <2>3. /\ cache'[P(t)][kind[t]] = [rev |-> fetched[t], epoch |-> epoch[P(t)]]
        /\ \A k \in Kind : k # kind[t] => cache'[P(t)][k] = cache[P(t)][k]
        /\ \A p \in Proc : p # P(t) => cache'[p] = cache[p]
    BY <1>8, PublishFacts
  <2>4. ASSUME NEW p \in Proc, NEW k \in Kind, cache'[p][k] # None
        PROVE  returned'[p] <= cache'[p][k].rev /\ cache'[p][k].rev <= revision'
    <3>1. CASE p = P(t) /\ k = kind[t]
      <4>1. cache'[p][k].rev = fetched[t]
        BY <2>3, <3>1
      <4> QED
        BY <2>1, <2>2, <3>1, <4>1
    <3>2. CASE ~(p = P(t) /\ k = kind[t])
      <4>1. cache'[p][k] = cache[p][k]
        BY <2>3, <3>2
      <4> QED
        BY <2>2, <2>4, <4>1
    <3> QED
      BY <3>1, <3>2
  <2> QED
    BY <2>1, <2>2, <2>4 DEF P
<1>9. ASSUME NEW t \in Thread, Fuzzy(t) PROVE SeenInv'
  BY <1>9, QuietSteps, SeenFrame
<1>10. ASSUME NEW t \in Thread, Return(t) PROVE SeenInv'
  BY <1>10, QuietSteps, SeenFrame
<1>11. ASSUME NEW t \in Thread, StartWrite(t) PROVE SeenInv'
  BY <1>11, QuietSteps, SeenFrame
<1>12. ASSUME NEW t \in Thread, Begin(t) PROVE SeenInv'
  BY <1>12, QuietSteps, SeenFrame
<1>13. ASSUME NEW t \in Thread, Commit(t) PROVE SeenInv'
  <2> HIDE DEF TypeOK, P, Empty, Kind, Snapshot, Filling, FillInv
  <2>1. /\ Bystanders(t) /\ pc'[t] # "publish"
        /\ wrote'[t] = revision + 1 /\ since'[t] = since[t]
    BY <1>13, CommitBystanders
  <2>2. /\ revision' = revision + 1 /\ revision \in Nat
        /\ returned' = returned /\ cache' = cache
    BY <1>13, Numbers DEF Commit, caches
  <2>3. \A p \in Proc : returned'[p] <= revision'
    BY <2>2, Numbers
  <2>4. \A p \in Proc, k \in Kind : cache'[p][k] # None =>
          returned'[p] <= cache'[p][k].rev /\ cache'[p][k].rev <= revision'
    BY <2>2, Numbers
  <2>5. \A u \in Thread : wrote'[u] <= revision' /\ since'[u] <= returned'[P(u)]
    BY <2>1, <2>2, Numbers DEF Bystanders
  <2>6. \A u \in Thread : pc'[u] = "publish" =>
          returned'[P(u)] <= fetched'[u] /\ fetched'[u] <= revision'
    BY <2>1, <2>2, Numbers DEF Bystanders
  <2> QED
    BY <2>3, <2>4, <2>5, <2>6 DEF P
<1>14. ASSUME NEW t \in Thread, Invalidate(t) PROVE SeenInv'
  <2> HIDE DEF TypeOK, P, Empty, Kind, Snapshot, Filling, FillInv
  <2> USE Numbers, ThreadFacts
  <2>1. /\ pc'[t] = "idle" /\ wrote'[t] = 0 /\ since'[t] = 0
        /\ \A u \in Thread : u # t =>
             pc'[u] = pc[u] /\ wrote'[u] = wrote[u] /\ since'[u] = since[u] /\ fetched'[u] = fetched[u]
    BY <1>14, LeaveFacts DEF Invalidate
  <2>2. revision' = revision /\ cacheLock[P(t)] = None
    BY <1>14 DEF Invalidate, shared
  <2>3. /\ returned'[P(t)] = Later(returned[P(t)], wrote[t])
        /\ \A p \in Proc : p # P(t) => returned'[p] = returned[p]
    BY <1>14 DEF Invalidate, TypeOK
  <2>4. /\ \A k \in Kind : cache'[P(t)][k] = None
        /\ \A p \in Proc : p # P(t) => cache'[p] = cache[p]
    BY <1>14, ClearFacts DEF Invalidate
  <2>5. \A p \in Proc : returned[p] <= returned'[p] /\ returned'[p] <= revision'
    BY <2>2, <2>3 DEF Later
  <2>6. \A p \in Proc, k \in Kind : cache'[p][k] # None =>
          returned'[p] <= cache'[p][k].rev /\ cache'[p][k].rev <= revision'
    BY <2>2, <2>3, <2>4
  <2>7. \A u \in Thread : wrote'[u] <= revision' /\ since'[u] <= returned'[P(u)]
    <3> TAKE u \in Thread
    <3>1. /\ P(u) \in Proc /\ P(t) \in Proc /\ wrote[t] \in Nat /\ revision \in Nat
          /\ \A p \in Proc : returned[p] \in Nat
      BY ThreadFacts, Numbers
    <3>2. returned'[P(u)] \in Nat
      BY <2>3, <3>1 DEF Later
    <3>3. wrote'[u] <= revision'
      BY <2>1, <2>2, <3>1
    <3>4. CASE u = t
      BY <2>1, <3>2, <3>3, <3>4
    <3>5. CASE u # t
      <4>1. since'[u] <= returned[P(u)] /\ since[u] \in Nat /\ since'[u] = since[u]
        BY <2>1, <3>5, Numbers
      <4> QED
        BY <2>5, <3>1, <3>2, <3>3, <4>1
    <3> QED
      BY <3>4, <3>5
  <2>8. ASSUME NEW u \in Thread, pc'[u] = "publish"
        PROVE  returned'[P(u)] <= fetched'[u] /\ fetched'[u] <= revision'
    <3>1. u # t /\ pc[u] = "publish" /\ fetched'[u] = fetched[u]
      BY <2>1, <2>8
    <3>2. cacheLock[P(u)] = u
      BY <3>1, FillFacts DEF Filling
    <3>3. P(u) # P(t)
      BY <2>2, <3>2
    <3> QED
      BY <2>2, <2>3, <3>1, <3>3
  <2> QED
    BY <2>5, <2>6, <2>7, <2>8 DEF P
<1>15. ASSUME NEW t \in Thread, ReadError(t) PROVE SeenInv'
  BY <1>15, QuietSteps, SeenFrame
<1>16. ASSUME NEW t \in Thread, Rollback(t) PROVE SeenInv'
  BY <1>16, QuietSteps, SeenFrame
<1>17. ASSUME NEW t \in Thread, OpenError(t) PROVE SeenInv'
  BY <1>17, QuietSteps, SeenFrame
<1>18. ASSUME NEW p \in Proc, Close(p) PROVE SeenInv'
  BY <1>18 DEF Close, shared, caches, locals
<1>19. ASSUME NEW p \in Proc, Restart(p) PROVE SeenInv'
  <2> HIDE DEF TypeOK, P, Empty, Kind, Snapshot, Filling, FillInv
  <2>1. Kept
    BY <1>19, RestartFacts DEF Dropped
  <2>2. revision' = revision /\ returned' = returned
    BY <1>19 DEF Restart
  <2>3. /\ \A u \in Thread : pc'[u] = "publish" => pc[u] = "publish" /\ fetched'[u] = fetched[u]
        /\ \A u \in Thread : wrote'[u] \in {0, wrote[u]} /\ since'[u] \in {0, since[u]}
    BY <1>19 DEF Restart
  <2>4. \A q \in Proc, k \in Kind : cache'[q][k] # None =>
          returned'[q] <= cache'[q][k].rev /\ cache'[q][k].rev <= revision'
    BY <2>1, <2>2 DEF Kept
  <2>5. ASSUME NEW u \in Thread
        PROVE  wrote'[u] <= revision' /\ since'[u] <= returned'[P(u)]
    <3>1. P(u) \in Proc /\ returned[P(u)] \in Nat /\ revision \in Nat
      BY ThreadFacts, Numbers
    <3> QED
      BY <2>2, <2>3, <3>1
  <2> QED
    BY <2>2, <2>3, <2>4, <2>5 DEF P
<1>20. CASE Tick
  <2> HIDE DEF TypeOK, P, Empty, Kind, Snapshot, Filling, FillInv
  <2>1. UNCHANGED <<revision, returned, cache, wrote, since, pc, fetched>>
    BY <1>20 DEF Tick, caches, locals
  <2> QED
    BY <2>1 DEF P
<1> QED
  BY <1>0, <1>1, <1>2, <1>3, <1>4, <1>5, <1>6, <1>7, <1>8, <1>9, <1>10, <1>11, <1>12,
     <1>13, <1>14, <1>15, <1>16, <1>17, <1>18, <1>19, <1>20 DEF Next, Getter, Write,
     Failure

LEMMA Split == \A m, n \in Nat : m <= n => m = n \/ m < n
  OBVIOUS

LEMMA StepAgeInv ==
  ASSUME TypeOK, FillInv, FileInv, SeenInv, AgeInv, [Next]_vars
  PROVE  AgeInv'
<1> USE CacheAssumption DEF P, TypeOK, FillInv, FileInv, SeenInv, AgeInv, Filling,
   Empty, Kind, Snapshot
<1>0. CASE UNCHANGED vars
  BY <1>0 DEF vars
<1>1. ASSUME NEW t \in Thread, StartQuery(t) PROVE AgeInv'
  <2> HIDE DEF TypeOK, P, Empty, Kind, Snapshot, Filling, FillInv
  <2>1. /\ pc'[t] = "check" /\ \A u \in Thread : u # t => pc'[u] = pc[u]
    BY <1>1, GotoFacts DEF StartQuery
  <2>2. UNCHANGED <<revision, now, committedAt, cache, stamp, fetched>>
    BY <1>1 DEF StartQuery, shared, caches
  <2> QED
    BY <2>1, <2>2
<1>2. ASSUME NEW t \in Thread, Check(t) PROVE AgeInv'
  BY <1>2, QuietSteps, AgeFrame
<1>3. ASSUME NEW t \in Thread, Refresh(t) PROVE AgeInv'
  BY <1>3, QuietSteps, AgeFrame
<1>4. ASSUME NEW t \in Thread, UseCache(t) PROVE AgeInv'
  BY <1>4, QuietSteps, AgeFrame
<1>5. ASSUME NEW t \in Thread, StartFill(t) PROVE AgeInv'
  BY <1>5, QuietSteps, AgeFrame
<1>6. ASSUME NEW t \in Thread, Connect(t) PROVE AgeInv'
  BY <1>6, QuietSteps, AgeFrame
<1>7. ASSUME NEW t \in Thread, Read(t) PROVE AgeInv'
  <2> HIDE DEF TypeOK, P, Empty, Kind, Snapshot, Filling, FillInv
  <2> USE Numbers, ThreadFacts
  <2>1. /\ fetched'[t] = revision /\ \A u \in Thread : u # t => fetched'[u] = fetched[u]
    BY <1>7 DEF Read, TypeOK
  <2>2. \A u \in Thread : u # t => pc'[u] = pc[u]
    BY <1>7, GotoFacts DEF Read
  <2>3. /\ revision' = revision /\ now' = now /\ committedAt' = committedAt
        /\ cache' = cache /\ stamp' = stamp
    BY <1>7 DEF Read, shared, caches
  <2>4. \A u \in Thread : pc'[u] = "publish" /\ fetched'[u] < revision' =>
          committedAt'[fetched'[u] + 1] = now'
    BY <2>1, <2>2, <2>3
  <2> QED
    BY <2>3, <2>4
<1>8. ASSUME NEW t \in Thread, Publish(t) PROVE AgeInv'
  <2> HIDE DEF TypeOK, P, Empty, Kind, Snapshot, Filling, FillInv
  <2> USE Numbers, ThreadFacts
  <2>1. /\ pc'[t] # "publish" /\ \A u \in Thread : u # t => pc'[u] = pc[u]
    BY <1>8, GotoFacts DEF Publish, AfterGetter
  <2>2. /\ revision' = revision /\ now' = now /\ committedAt' = committedAt /\ fetched' = fetched
        /\ pc[t] = "publish"
    BY <1>8 DEF Publish, shared
  <2>3. /\ cache'[P(t)][kind[t]] = [rev |-> fetched[t], epoch |-> epoch[P(t)]]
        /\ \A k \in Kind : k # kind[t] => cache'[P(t)][k] = cache[P(t)][k]
        /\ \A p \in Proc : p # P(t) => cache'[p] = cache[p] /\ stamp'[p] = stamp[p]
        /\ stamp'[P(t)] = IF stamp[P(t)] = 0 THEN now ELSE stamp[P(t)]
    BY <1>8, PublishFacts
  <2>4. \A p \in Proc : stamp'[p] <= now'
    BY <2>2, <2>3
  <2>5. ASSUME NEW p \in Proc, NEW k \in Kind, cache'[p][k] # None, cache'[p][k].rev < revision'
        PROVE  stamp'[p] <= committedAt'[cache'[p][k].rev + 1]
    <3>1. CASE p # P(t)
      BY <2>2, <2>3, <2>5, <3>1
    <3>2. CASE p = P(t) /\ k # kind[t]
      <4>1. stamp[p] # 0
        BY <2>3, <2>5, <3>2, FillFacts
      <4> QED
        BY <2>2, <2>3, <2>5, <3>2, <4>1
    <3>3. CASE p = P(t) /\ k = kind[t]
      <4>1. cache'[p][k].rev = fetched[t]
        BY <2>3, <3>3
      <4>2. committedAt[fetched[t] + 1] = now
        BY <2>2, <2>5, <4>1
      <4>3. stamp'[p] <= now
        BY <2>2, <2>4
      <4> QED
        BY <2>2, <4>1, <4>2, <4>3
    <3> QED
      BY <3>1, <3>2, <3>3
  <2>6. \A u \in Thread : pc'[u] = "publish" /\ fetched'[u] < revision' =>
          committedAt'[fetched'[u] + 1] = now'
    BY <2>1, <2>2
  <2> QED
    BY <2>4, <2>5, <2>6
<1>9. ASSUME NEW t \in Thread, Fuzzy(t) PROVE AgeInv'
  BY <1>9, QuietSteps, AgeFrame
<1>10. ASSUME NEW t \in Thread, Return(t) PROVE AgeInv'
  BY <1>10, QuietSteps, AgeFrame
<1>11. ASSUME NEW t \in Thread, StartWrite(t) PROVE AgeInv'
  BY <1>11, QuietSteps, AgeFrame
<1>12. ASSUME NEW t \in Thread, Begin(t) PROVE AgeInv'
  BY <1>12, QuietSteps, AgeFrame
<1>13. ASSUME NEW t \in Thread, Commit(t) PROVE AgeInv'
  <2> HIDE DEF TypeOK, P, Empty, Kind, Snapshot, Filling, FillInv
  <2> USE Numbers, ThreadFacts
  <2>1. revision' = revision + 1 /\ revision + 1 \in 1 .. MaxRevision
    <3>1. revision \in Nat /\ revision < MaxRevision /\ revision' = revision + 1
      BY <1>13 DEF Commit
    <3> QED
      BY <3>1, CacheAssumption
  <2>2. /\ committedAt'[revision + 1] = now
        /\ \A r \in 1 .. MaxRevision : r # revision + 1 => committedAt'[r] = committedAt[r]
    BY <1>13, <2>1 DEF Commit, TypeOK
  <2>3. now' = now /\ cache' = cache /\ stamp' = stamp /\ fetched' = fetched
    BY <1>13 DEF Commit, caches
  <2>4. /\ pc'[t] # "publish" /\ \A u \in Thread : u # t => pc'[u] = pc[u]
    BY <1>13, GotoFacts DEF Commit
  <2>5. ASSUME NEW p \in Proc, NEW k \in Kind, cache'[p][k] # None, cache'[p][k].rev < revision'
        PROVE  stamp'[p] <= committedAt'[cache'[p][k].rev + 1]
    <3>1. cache[p][k].rev \in Nat /\ cache[p][k].rev <= revision
      BY <2>3, <2>5 DEF SeenInv
    <3>2. CASE cache[p][k].rev = revision
      BY <2>1, <2>2, <2>3, <3>2
    <3>3. CASE cache[p][k].rev < revision
      <4>1. stamp[p] <= committedAt[cache[p][k].rev + 1]
        BY <2>3, <2>5, <3>3
      <4>2. cache[p][k].rev + 1 \in 1 .. MaxRevision /\ cache[p][k].rev + 1 # revision + 1
        BY <2>1, <3>1, <3>3
      <4> QED
        BY <2>2, <2>3, <4>1, <4>2
    <3>4. cache[p][k].rev = revision \/ cache[p][k].rev < revision
      BY <3>1, Split, Numbers
    <3> QED
      BY <3>2, <3>3, <3>4
  <2>6. ASSUME NEW u \in Thread, pc'[u] = "publish", fetched'[u] < revision'
        PROVE  committedAt'[fetched'[u] + 1] = now'
    <3>1. pc[u] = "publish" /\ fetched[u] <= revision
      BY <2>4, <2>6 DEF SeenInv
    <3>2. CASE fetched[u] = revision
      BY <2>2, <2>3, <3>2
    <3>3. CASE fetched[u] < revision
      <4>1. committedAt[fetched[u] + 1] = now
        BY <3>1, <3>3
      <4>2. fetched[u] + 1 \in 1 .. MaxRevision /\ fetched[u] + 1 # revision + 1
        BY <2>1, <3>3
      <4> QED
        BY <2>2, <2>3, <4>1, <4>2
    <3>4. fetched[u] = revision \/ fetched[u] < revision
      BY <3>1, Split, Numbers
    <3> QED
      BY <3>2, <3>3, <3>4
  <2> QED
    BY <2>3, <2>5, <2>6
<1>14. ASSUME NEW t \in Thread, Invalidate(t) PROVE AgeInv'
  <2> HIDE DEF TypeOK, P, Empty, Kind, Snapshot, Filling, FillInv
  <2> USE Numbers, ThreadFacts
  <2>1. Dropped
    BY <1>14, ClearDrops DEF Invalidate
  <2>2. /\ pc'[t] = "idle"
        /\ \A u \in Thread : u # t => pc'[u] = pc[u] /\ fetched'[u] = fetched[u]
    BY <1>14, LeaveFacts DEF Invalidate
  <2>3. revision' = revision /\ now' = now /\ committedAt' = committedAt
    BY <1>14 DEF Invalidate, shared
  <2>4. \A p \in Proc : stamp'[p] <= now'
    BY <2>1, <2>3 DEF Dropped, Kept
  <2>5. \A p \in Proc, k \in Kind : cache'[p][k] # None /\ cache'[p][k].rev < revision' =>
          stamp'[p] <= committedAt'[cache'[p][k].rev + 1]
    BY <2>1, <2>3 DEF Dropped, Kept
  <2>6. \A u \in Thread : pc'[u] = "publish" /\ fetched'[u] < revision' =>
          committedAt'[fetched'[u] + 1] = now'
    BY <2>2, <2>3
  <2> QED
    BY <2>4, <2>5, <2>6
<1>15. ASSUME NEW t \in Thread, ReadError(t) PROVE AgeInv'
  BY <1>15, QuietSteps, AgeFrame
<1>16. ASSUME NEW t \in Thread, Rollback(t) PROVE AgeInv'
  BY <1>16, QuietSteps, AgeFrame
<1>17. ASSUME NEW t \in Thread, OpenError(t) PROVE AgeInv'
  BY <1>17, QuietSteps, AgeFrame
<1>18. ASSUME NEW p \in Proc, Close(p) PROVE AgeInv'
  <2> HIDE DEF TypeOK, P, Empty, Kind, Snapshot, Filling, FillInv
  <2> QED
    BY <1>18 DEF Close, shared, caches, locals
<1>19. ASSUME NEW p \in Proc, Restart(p) PROVE AgeInv'
  <2> HIDE DEF TypeOK, P, Empty, Kind, Snapshot, Filling, FillInv
  <2> USE Numbers, ThreadFacts
  <2>1. Dropped
    BY <1>19, RestartFacts
  <2>2. revision' = revision /\ now' = now /\ committedAt' = committedAt
    BY <1>19 DEF Restart
  <2>3. \A u \in Thread : pc'[u] = "publish" => pc[u] = "publish" /\ fetched'[u] = fetched[u]
    BY <1>19 DEF Restart
  <2>4. \A q \in Proc : stamp'[q] <= now'
    BY <2>1, <2>2 DEF Dropped, Kept
  <2>5. \A q \in Proc, k \in Kind : cache'[q][k] # None /\ cache'[q][k].rev < revision' =>
          stamp'[q] <= committedAt'[cache'[q][k].rev + 1]
    BY <2>1, <2>2 DEF Dropped, Kept
  <2>6. \A u \in Thread : pc'[u] = "publish" /\ fetched'[u] < revision' =>
          committedAt'[fetched'[u] + 1] = now'
    BY <2>2, <2>3
  <2> QED
    BY <2>4, <2>5, <2>6
<1>20. CASE Tick
  BY <1>20 DEF Tick, caches, locals
<1> QED
  BY <1>0, <1>1, <1>2, <1>3, <1>4, <1>5, <1>6, <1>7, <1>8, <1>9, <1>10, <1>11, <1>12,
     <1>13, <1>14, <1>15, <1>16, <1>17, <1>18, <1>19, <1>20 DEF Next, Getter, Write,
     Failure

LEMMA GetterSeen ==
  ASSUME TypeOK, WritesAreSeen, NEW t \in Thread, AfterGetter(t), NEW s \in Snapshot,
         snap' = [snap EXCEPT ![t][kind[t]] = s], UNCHANGED <<fetched, wrote, since>>,
         s.rev >= since[t]
  PROVE  WritesAreSeen'
<1>1. /\ snap'[t][kind[t]] = s
      /\ \A k \in Kind : k # kind[t] => snap'[t][k] = snap[t][k]
      /\ \A u \in Thread : u # t => snap'[u] = snap[u]
  BY GetterFacts
<1>2. ASSUME NEW k \in Kind, snap'[t][k] # None PROVE snap'[t][k].rev >= since'[t]
  <2>1. CASE k = kind[t]
    BY <1>1, <2>1
  <2>2. CASE k # kind[t]
    BY <1>1, <1>2, <2>2 DEF WritesAreSeen
  <2> QED
    BY <2>1, <2>2
<1> QED
  BY <1>1, <1>2 DEF WritesAreSeen

LEMMA LeaveSeen ==
  ASSUME TypeOK, WritesAreSeen, NEW t \in Thread, Leave(t)
  PROVE  WritesAreSeen'
  BY LeaveFacts DEF WritesAreSeen

LEMMA StepWritesAreSeen ==
  ASSUME TypeOK, LocalInv, SeenInv, WritesAreSeen, [Next]_vars
  PROVE  WritesAreSeen'
<1> USE CacheAssumption DEF P, TypeOK, SeenInv, WritesAreSeen, Empty, Kind, Snapshot
<1>0. CASE UNCHANGED vars
  BY <1>0 DEF vars
<1>1. ASSUME NEW t \in Thread, StartQuery(t) PROVE WritesAreSeen'
  <2>1. \A k \in Kind : snap[t][k] = None
    BY <1>1 DEF StartQuery, LocalInv
  <2>2. \A k \in Kind : snap'[t][k] = None
    BY <1>1, <2>1 DEF StartQuery
  <2>3. snap' = snap /\ \A u \in Thread : u # t => since'[u] = since[u]
    BY <1>1 DEF StartQuery
  <2> QED
    BY <2>2, <2>3
<1>2. ASSUME NEW t \in Thread, Check(t) PROVE WritesAreSeen'
  <2> HIDE DEF TypeOK, P, Empty, Kind, Snapshot
  <2>1. UNCHANGED <<snap, since>>
    BY <1>2 DEF Check, locals
  <2> HIDE DEF SeenInv
  <2> QED
    BY <2>1
<1>3. ASSUME NEW t \in Thread, Refresh(t) PROVE WritesAreSeen'
  <2> HIDE DEF TypeOK, P, Empty, Kind, Snapshot
  <2>1. UNCHANGED <<snap, since>>
    BY <1>3 DEF Refresh, locals
  <2> HIDE DEF SeenInv
  <2> QED
    BY <2>1
<1>4. ASSUME NEW t \in Thread, UseCache(t) PROVE WritesAreSeen'
  <2> HIDE DEF TypeOK, P, Empty, Kind, Snapshot, WritesAreSeen
  <2> DEFINE new == cache[P(t)][kind[t]]
  <2>1. new \in Snapshot /\ new.rev >= since[t]
    <3>1. P(t) \in Proc /\ kind[t] \in Kind
      BY ThreadFacts
    <3>2. new # None
      BY <1>4 DEF UseCache
    <3>3. new \in Snapshot
      BY <3>1, <3>2 DEF TypeOK
    <3>4. returned[P(t)] <= new.rev /\ since[t] <= returned[P(t)]
      BY <3>1, <3>2
    <3> QED
      BY <3>1, <3>3, <3>4, Numbers, SnapshotFacts
  <2>2. /\ AfterGetter(t) /\ snap' = [snap EXCEPT ![t][kind[t]] = new]
        /\ UNCHANGED <<fetched, wrote, since>>
    BY <1>4 DEF UseCache
  <2> HIDE DEF new, SeenInv
  <2> QED
    BY <2>1, <2>2, GetterSeen
<1>5. ASSUME NEW t \in Thread, StartFill(t) PROVE WritesAreSeen'
  <2> HIDE DEF TypeOK, P, Empty, Kind, Snapshot
  <2>1. UNCHANGED <<snap, since>>
    BY <1>5 DEF StartFill, locals
  <2> HIDE DEF SeenInv
  <2> QED
    BY <2>1
<1>6. ASSUME NEW t \in Thread, Connect(t) PROVE WritesAreSeen'
  <2> HIDE DEF TypeOK, P, Empty, Kind, Snapshot
  <2>1. UNCHANGED <<snap, since>>
    BY <1>6 DEF Connect, locals
  <2> HIDE DEF SeenInv
  <2> QED
    BY <2>1
<1>7. ASSUME NEW t \in Thread, Read(t) PROVE WritesAreSeen'
  <2> HIDE DEF TypeOK, P, Empty, Kind, Snapshot
  <2>1. UNCHANGED <<snap, since>>
    BY <1>7 DEF Read
  <2> HIDE DEF SeenInv
  <2> QED
    BY <2>1
<1>8. ASSUME NEW t \in Thread, Publish(t) PROVE WritesAreSeen'
  <2> HIDE DEF TypeOK, P, Empty, Kind, Snapshot, WritesAreSeen
  <2> DEFINE new == [rev |-> fetched[t], epoch |-> epoch[P(t)]]
  <2>1. new \in Snapshot /\ new.rev >= since[t]
    <3>1. P(t) \in Proc /\ new \in Snapshot /\ new.rev = fetched[t]
      BY ThreadFacts
    <3>2. returned[P(t)] <= fetched[t] /\ since[t] <= returned[P(t)]
      BY <1>8 DEF Publish
    <3> QED
      BY <3>1, <3>2, Numbers
  <2>2. /\ AfterGetter(t) /\ snap' = [snap EXCEPT ![t][kind[t]] = new]
        /\ UNCHANGED <<fetched, wrote, since>>
    BY <1>8 DEF Publish
  <2> HIDE DEF new, SeenInv
  <2> QED
    BY <2>1, <2>2, GetterSeen
<1>9. ASSUME NEW t \in Thread, Fuzzy(t) PROVE WritesAreSeen'
  <2> HIDE DEF TypeOK, P, Empty, Kind, Snapshot, WritesAreSeen
  <2>1. Leave(t)
    BY <1>9 DEF Fuzzy
  <2> QED
    BY <2>1, LeaveSeen
<1>10. ASSUME NEW t \in Thread, Return(t) PROVE WritesAreSeen'
  <2> HIDE DEF TypeOK, P, Empty, Kind, Snapshot, WritesAreSeen
  <2>1. Leave(t)
    BY <1>10 DEF Return
  <2> QED
    BY <2>1, LeaveSeen
<1>11. ASSUME NEW t \in Thread, StartWrite(t) PROVE WritesAreSeen'
  <2> HIDE DEF TypeOK, P, Empty, Kind, Snapshot
  <2>1. UNCHANGED <<snap, since>>
    BY <1>11 DEF StartWrite, locals
  <2> HIDE DEF SeenInv
  <2> QED
    BY <2>1
<1>12. ASSUME NEW t \in Thread, Begin(t) PROVE WritesAreSeen'
  <2> HIDE DEF TypeOK, P, Empty, Kind, Snapshot
  <2>1. UNCHANGED <<snap, since>>
    BY <1>12 DEF Begin, locals
  <2> HIDE DEF SeenInv
  <2> QED
    BY <2>1
<1>13. ASSUME NEW t \in Thread, Commit(t) PROVE WritesAreSeen'
  <2> HIDE DEF TypeOK, P, Empty, Kind, Snapshot
  <2>1. UNCHANGED <<snap, since>>
    BY <1>13 DEF Commit
  <2> HIDE DEF SeenInv
  <2> QED
    BY <2>1
<1>14. ASSUME NEW t \in Thread, Invalidate(t) PROVE WritesAreSeen'
  <2> HIDE DEF TypeOK, P, Empty, Kind, Snapshot, WritesAreSeen
  <2>1. Leave(t)
    BY <1>14 DEF Invalidate
  <2> QED
    BY <2>1, LeaveSeen
<1>15. ASSUME NEW t \in Thread, ReadError(t) PROVE WritesAreSeen'
  <2> HIDE DEF TypeOK, P, Empty, Kind, Snapshot, WritesAreSeen
  <2>1. Leave(t)
    BY <1>15 DEF ReadError
  <2> QED
    BY <2>1, LeaveSeen
<1>16. ASSUME NEW t \in Thread, Rollback(t) PROVE WritesAreSeen'
  <2> HIDE DEF TypeOK, P, Empty, Kind, Snapshot, WritesAreSeen
  <2>1. Leave(t)
    BY <1>16 DEF Rollback
  <2> QED
    BY <2>1, LeaveSeen
<1>17. ASSUME NEW t \in Thread, OpenError(t) PROVE WritesAreSeen'
  <2> HIDE DEF TypeOK, P, Empty, Kind, Snapshot, WritesAreSeen
  <2>1. Leave(t)
    BY <1>17 DEF OpenError
  <2> QED
    BY <2>1, LeaveSeen
<1>18. ASSUME NEW p \in Proc, Close(p) PROVE WritesAreSeen'
  BY <1>18 DEF Close, shared, caches, locals
<1>19. ASSUME NEW p \in Proc, Restart(p) PROVE WritesAreSeen'
  BY <1>19 DEF Restart
<1>20. CASE Tick
  BY <1>20 DEF Tick, caches, locals
<1> QED
  BY <1>0, <1>1, <1>2, <1>3, <1>4, <1>5, <1>6, <1>7, <1>8, <1>9, <1>10, <1>11, <1>12,
     <1>13, <1>14, <1>15, <1>16, <1>17, <1>18, <1>19, <1>20 DEF Next, Getter, Write,
     Failure

LEMMA StepFuzzyIsCurrent ==
  ASSUME TypeOK, FillInv, FuzzyIsCurrent, [Next]_vars
  PROVE  FuzzyIsCurrent'
<1> USE CacheAssumption DEF P, TypeOK, FillInv, FuzzyIsCurrent, Filling, Empty, Kind,
   Snapshot
<1>0. CASE UNCHANGED vars
  BY <1>0 DEF vars
<1>1. ASSUME NEW t \in Thread, StartQuery(t) PROVE FuzzyIsCurrent'
  <2> HIDE DEF TypeOK, P, Empty, Kind, Snapshot, Filling, FillInv
  <2>1. UNCHANGED <<fuzzy, cache>>
    BY <1>1 DEF StartQuery, caches
  <2> QED
    BY <2>1
<1>2. ASSUME NEW t \in Thread, Check(t) PROVE FuzzyIsCurrent'
  <2> HIDE DEF TypeOK, P, Empty, Kind, Snapshot, Filling, FillInv
  <2>1. UNCHANGED <<fuzzy, cache>>
    BY <1>2 DEF Check, caches
  <2> QED
    BY <2>1
<1>3. ASSUME NEW t \in Thread, Refresh(t) PROVE FuzzyIsCurrent'
  <2> HIDE DEF TypeOK, P, Empty, Kind, Snapshot, Filling, FillInv
  <2>1. Dropped
    BY <1>3, RefreshDrops
  <2> QED
    BY <2>1 DEF Dropped, Kept
<1>4. ASSUME NEW t \in Thread, UseCache(t) PROVE FuzzyIsCurrent'
  <2> HIDE DEF TypeOK, P, Empty, Kind, Snapshot, Filling, FillInv
  <2>1. UNCHANGED <<fuzzy, cache>>
    BY <1>4 DEF UseCache, caches
  <2> QED
    BY <2>1
<1>5. ASSUME NEW t \in Thread, StartFill(t) PROVE FuzzyIsCurrent'
  <2> HIDE DEF TypeOK, P, Empty, Kind, Snapshot, Filling, FillInv
  <2>1. UNCHANGED <<fuzzy, cache>>
    BY <1>5 DEF StartFill, caches
  <2> QED
    BY <2>1
<1>6. ASSUME NEW t \in Thread, Connect(t) PROVE FuzzyIsCurrent'
  <2> HIDE DEF TypeOK, P, Empty, Kind, Snapshot, Filling, FillInv
  <2>1. UNCHANGED <<fuzzy, cache>>
    BY <1>6 DEF Connect, caches
  <2> QED
    BY <2>1
<1>7. ASSUME NEW t \in Thread, Read(t) PROVE FuzzyIsCurrent'
  <2> HIDE DEF TypeOK, P, Empty, Kind, Snapshot, Filling, FillInv
  <2>1. UNCHANGED <<fuzzy, cache>>
    BY <1>7 DEF Read, caches
  <2> QED
    BY <2>1
<1>8. ASSUME NEW t \in Thread, Publish(t) PROVE FuzzyIsCurrent'
  <2> HIDE DEF TypeOK, P, Empty, Kind, Snapshot, Filling, FillInv
  <2>1. fuzzy' = fuzzy /\ pc[t] = "publish"
    BY <1>8 DEF Publish
  <2>2. /\ \A k \in Kind : k # kind[t] => cache'[P(t)][k] = cache[P(t)][k]
        /\ \A p \in Proc : p # P(t) => cache'[p] = cache[p]
    BY <1>8, PublishFacts
  <2>3. cache[P(t)][kind[t]] = None
    BY <2>1, FillFacts DEF Filling
  <2>4. ASSUME fuzzy[P(t)] # None PROVE kind[t] \notin {"vocab", "freq"}
    <3>1. P(t) \in Proc
      BY ThreadFacts
    <3>2. fuzzy[P(t)] \in [{"vocab", "freq"} -> Snapshot]
      BY <2>4, <3>1 DEF TypeOK
    <3>3. \A k \in {"vocab", "freq"} : cache[P(t)][k] \in Snapshot
      BY <2>4, <3>1, <3>2
    <3> QED
      BY <2>3, <3>3, SnapshotFacts
  <2>5. ASSUME NEW p \in Proc, fuzzy'[p] # None, NEW k \in {"vocab", "freq"}
        PROVE  fuzzy'[p][k] = cache'[p][k]
    <3>1. k \in Kind /\ fuzzy[p][k] = cache[p][k]
      BY <2>1, <2>5, KindFacts
    <3>2. CASE p = P(t)
      <4>1. k # kind[t]
        BY <2>1, <2>4, <2>5, <3>2
      <4> QED
        BY <2>1, <2>2, <3>1, <3>2, <4>1
    <3>3. CASE p # P(t)
      BY <2>1, <2>2, <3>1, <3>3
    <3> QED
      BY <3>2, <3>3
  <2> QED
    BY <2>5
<1>9. ASSUME NEW t \in Thread, Fuzzy(t) PROVE FuzzyIsCurrent'
  BY <1>9 DEF Fuzzy, Leave, Goto, shared
<1>10. ASSUME NEW t \in Thread, Return(t) PROVE FuzzyIsCurrent'
  <2> HIDE DEF TypeOK, P, Empty, Kind, Snapshot, Filling, FillInv
  <2>1. UNCHANGED <<fuzzy, cache>>
    BY <1>10 DEF Return, caches
  <2> QED
    BY <2>1
<1>11. ASSUME NEW t \in Thread, StartWrite(t) PROVE FuzzyIsCurrent'
  <2> HIDE DEF TypeOK, P, Empty, Kind, Snapshot, Filling, FillInv
  <2>1. UNCHANGED <<fuzzy, cache>>
    BY <1>11 DEF StartWrite, caches
  <2> QED
    BY <2>1
<1>12. ASSUME NEW t \in Thread, Begin(t) PROVE FuzzyIsCurrent'
  <2> HIDE DEF TypeOK, P, Empty, Kind, Snapshot, Filling, FillInv
  <2>1. UNCHANGED <<fuzzy, cache>>
    BY <1>12 DEF Begin, caches
  <2> QED
    BY <2>1
<1>13. ASSUME NEW t \in Thread, Commit(t) PROVE FuzzyIsCurrent'
  <2> HIDE DEF TypeOK, P, Empty, Kind, Snapshot, Filling, FillInv
  <2>1. UNCHANGED <<fuzzy, cache>>
    BY <1>13 DEF Commit, caches
  <2> QED
    BY <2>1
<1>14. ASSUME NEW t \in Thread, Invalidate(t) PROVE FuzzyIsCurrent'
  BY <1>14 DEF Invalidate, Leave, ClearCaches, Later, Goto, shared
<1>15. ASSUME NEW t \in Thread, ReadError(t) PROVE FuzzyIsCurrent'
  <2> HIDE DEF TypeOK, P, Empty, Kind, Snapshot, Filling, FillInv
  <2>1. UNCHANGED <<fuzzy, cache>>
    BY <1>15 DEF ReadError, caches
  <2> QED
    BY <2>1
<1>16. ASSUME NEW t \in Thread, Rollback(t) PROVE FuzzyIsCurrent'
  <2> HIDE DEF TypeOK, P, Empty, Kind, Snapshot, Filling, FillInv
  <2>1. UNCHANGED <<fuzzy, cache>>
    BY <1>16 DEF Rollback, caches
  <2> QED
    BY <2>1
<1>17. ASSUME NEW t \in Thread, OpenError(t) PROVE FuzzyIsCurrent'
  <2> HIDE DEF TypeOK, P, Empty, Kind, Snapshot, Filling, FillInv
  <2>1. UNCHANGED <<fuzzy, cache>>
    BY <1>17 DEF OpenError, caches
  <2> QED
    BY <2>1
<1>18. ASSUME NEW p \in Proc, Close(p) PROVE FuzzyIsCurrent'
  <2> HIDE DEF TypeOK, P, Empty, Kind, Snapshot, Filling, FillInv
  <2>1. UNCHANGED <<fuzzy, cache>>
    BY <1>18 DEF Close, caches
  <2> QED
    BY <2>1
<1>19. ASSUME NEW p \in Proc, Restart(p) PROVE FuzzyIsCurrent'
  BY <1>19 DEF Restart
<1>20. CASE Tick
  <2> HIDE DEF TypeOK, P, Empty, Kind, Snapshot, Filling, FillInv
  <2>1. UNCHANGED <<fuzzy, cache>>
    BY <1>20 DEF Tick, caches
  <2> QED
    BY <2>1
<1> QED
  BY <1>0, <1>1, <1>2, <1>3, <1>4, <1>5, <1>6, <1>7, <1>8, <1>9, <1>10, <1>11, <1>12,
     <1>13, <1>14, <1>15, <1>16, <1>17, <1>18, <1>19, <1>20 DEF Next, Getter, Write,
     Failure

LEMMA Invariant == Spec => []IInv
<1>1. IInv /\ [Next]_vars => IInv'
  BY StepTypeOK, StepFillInv, StepFileInv, StepLocalInv, StepSeenInv, StepAgeInv,
     StepWritesAreSeen, StepFuzzyIsCurrent DEF IInv
<1>2. QED
  BY <1>1, InitIInv, PTL DEF Spec

-----------------------------------------------------------------------------
(* The caches, the stamps and every thread's locals keep their types.      *)
THEOREM TypeCorrect == Spec => []TypeOK
<1>1. IInv => TypeOK
  BY DEF IInv
<1>2. QED
  BY <1>1, Invariant, PTL

(* A query sees every registration that had returned in its process.       *)
THEOREM ReadYourWrites == Spec => []WritesAreSeen
<1>1. IInv => WritesAreSeen
  BY DEF IInv
<1>2. QED
  BY <1>1, Invariant, PTL

(* Caches that count as fresh hold nothing that was superseded longer than *)
(* the TTL ago.                                                            *)
THEOREM BoundedStaleness == Spec => []SeenWithinTtl
<1>1. IInv => SeenWithinTtl
  <2> SUFFICES ASSUME IInv, NEW p \in Proc, NEW k \in Kind,
                      cache[p][k] # None, ~Expired(p), cache[p][k].rev # revision
               PROVE  /\ cache[p][k].rev < revision
                      /\ now <= committedAt[cache[p][k].rev + 1] + Ttl
    BY DEF SeenWithinTtl
  <2>1. cache[p][k].rev \in Nat /\ revision \in 0 .. MaxRevision
    BY DEF IInv, TypeOK, Snapshot
  <2>2. cache[p][k].rev < revision
    BY <2>1, CacheAssumption DEF IInv, SeenInv
  <2>3. stamp[p] <= committedAt[cache[p][k].rev + 1]
    BY <2>2 DEF IInv, AgeInv
  <2>4. now <= stamp[p] + Ttl
    BY CacheAssumption DEF Expired, IInv, TypeOK
  <2>5. cache[p][k].rev + 1 \in 1 .. MaxRevision
    BY <2>1, <2>2, CacheAssumption
  <2>6. stamp[p] \in Nat /\ now \in Nat /\ committedAt[cache[p][k].rev + 1] \in Nat
    BY <2>5 DEF IInv, TypeOK
  <2>7. QED
    BY <2>2, <2>3, <2>4, <2>6, CacheAssumption
<1>2. QED
  BY <1>1, Invariant, PTL

(* The published fuzzy index belongs to the snapshots in the caches.       *)
THEOREM FuzzySafety == Spec => []FuzzyIsCurrent
<1>1. IInv => FuzzyIsCurrent
  BY DEF IInv
<1>2. QED
  BY <1>1, Invariant, PTL

(* The caches have snapshots of the database and no others, and the fuzzy  *)
(* index is that of the snapshots beside it.                               *)
THEOREM CacheSafety == Spec => []CachesAreSound
  BY TypeCorrect, FuzzySafety, PTL DEF CachesAreSound

-----------------------------------------------------------------------------
(* The cache in memory. Its entries are a sequence, from which some are    *)
(* kept in their order.                                                    *)

\* r has entries of d, at positions of Ps and in their order.
Among(r, d, Ps) ==
  \E g \in [1 .. Len(r) -> Ps] :
    /\ \A i \in 1 .. Len(r) : r[i] = d[g[i]]
    /\ \A i, j \in 1 .. Len(r) : i < j => g[i] < g[j]

LEMMA KeptFacts ==
  ASSUME NEW S, data \in Seq(S), NEW Ps \in SUBSET DOMAIN data
  PROVE  /\ Memory!Kept(Ps) \in Seq(S) /\ Len(Memory!Kept(Ps)) <= Len(data)
         /\ Ps # DOMAIN data => Len(Memory!Kept(Ps)) + 1 <= Len(data)
         /\ Among(Memory!Kept(Ps), data, Ps)
<1> DEFINE N == Len(data)
           Step(F, n) == IF n = 0 THEN <<>>
                         ELSE IF n \in Ps THEN Append(F[n - 1], data[n]) ELSE F[n - 1]
           Solves(F, m) == F = [n \in 0 .. m |-> Step(F, n)]
           f == CHOOSE F : Solves(F, N)
<1>1. N \in Nat /\ DOMAIN data = 1 .. N /\ \A n \in 1 .. N : data[n] \in S
  OBVIOUS
<1>2. Memory!Kept(Ps) = f[N]
  BY DEF Memory!Kept
<1>3. \E F : Solves(F, N)
  <2> DEFINE T == {m \in Nat : \E F : Solves(F, m)}
  <2>1. 0 \in T
    <3>1. Solves([n \in 0 .. 0 |-> <<>>], 0)
      OBVIOUS
    <3>2. QED
      BY <3>1
  <2>2. ASSUME NEW m \in Nat, m \in T PROVE m + 1 \in T
    <3>1. PICK F : Solves(F, m)
      BY <2>2
    <3> DEFINE G == [n \in 0 .. m + 1 |-> IF n = m + 1 THEN Step(F, m + 1) ELSE F[n]]
    <3>2. \A n \in 0 .. m + 1 : Step(G, n) = IF n = m + 1 THEN Step(F, m + 1) ELSE F[n]
      <4>1. \A n \in 0 .. m : G[n] = F[n]
        OBVIOUS
      <4>2. \A n \in 0 .. m : F[n] = Step(F, n)
        BY <3>1
      <4> HIDE DEF G
      <4>3. QED
        BY <4>1, <4>2
    <3>3. Solves(G, m + 1)
      <4> HIDE DEF Step
      <4>1. QED
        BY <3>2
    <3> HIDE DEF G, Solves
    <3>4. QED
      BY <3>3
  <2>3. Nat \subseteq T
    <3> HIDE DEF T
    <3>1. QED
      BY <2>1, <2>2, AllNaturals
  <2>4. QED
    BY <2>3, <1>1
<1>4. Solves(f, N)
  <2> HIDE DEF Solves
  <2>1. QED
    BY <1>3
<1> HIDE DEF f
<1>5. f[0] = <<>> /\ \A n \in 1 .. N : f[n] = IF n \in Ps THEN Append(f[n - 1], data[n]) ELSE f[n - 1]
  <2>1. \A n \in 0 .. N : f[n] = Step(f, n)
    <3> HIDE DEF Step
    <3>1. QED
      BY <1>4
  <2>2. QED
    BY <1>1, <2>1
<1> DEFINE T == {n \in Nat : n <= N => /\ f[n] \in Seq(S) /\ Len(f[n]) <= n
                                       /\ 1 .. n \subseteq Ps \/ Len(f[n]) + 1 <= n
                                       /\ Among(f[n], data, Ps \cap 1 .. n)}
<1>6. 0 \in T
  <2>1. Among(<<>>, data, Ps \cap 1 .. 0)
    <3> DEFINE g == [i \in 1 .. Len(<<>>) |-> i]
    <3>1. 1 .. Len(<<>>) = {}
      OBVIOUS
    <3>2. g \in [1 .. Len(<<>>) -> Ps \cap 1 .. 0]
      BY <3>1
    <3> HIDE DEF g
    <3>3. QED
      BY <3>1, <3>2 DEF Among
  <2>2. <<>> \in Seq(S) /\ Len(<<>>) = 0
    OBVIOUS
  <2>3. f[0] \in Seq(S) /\ Len(f[0]) <= 0 /\ Among(f[0], data, Ps \cap 1 .. 0)
    <3>1. f[0] = <<>>
      BY <1>5
    <3>2. QED
      BY <3>1, <2>1, <2>2
  <2>4. QED
    BY <2>3
<1>7. ASSUME NEW m \in Nat, m \in T PROVE m + 1 \in T
  <2> SUFFICES ASSUME m + 1 <= N
               PROVE  /\ f[m + 1] \in Seq(S) /\ Len(f[m + 1]) <= m + 1
                      /\ 1 .. m + 1 \subseteq Ps \/ Len(f[m + 1]) + 1 <= m + 1
                      /\ Among(f[m + 1], data, Ps \cap 1 .. m + 1)
    OBVIOUS
  <2> DEFINE r == f[m]
  <2>1. /\ r \in Seq(S) /\ Len(r) \in Nat /\ Len(r) <= m /\ Among(r, data, Ps \cap 1 .. m)
        /\ 1 .. m \subseteq Ps \/ Len(r) + 1 <= m
    BY <1>1, <1>7
  <2>2. f[m + 1] = IF m + 1 \in Ps THEN Append(r, data[m + 1]) ELSE r
    BY <1>1, <1>5
  <2> HIDE DEF r
  <2>3. PICK g \in [1 .. Len(r) -> Ps \cap 1 .. m] :
          /\ \A i \in 1 .. Len(r) : r[i] = data[g[i]]
          /\ \A i, j \in 1 .. Len(r) : i < j => g[i] < g[j]
    BY <2>1 DEF Among
  <2>4. CASE m + 1 \notin Ps
    <3>1. g \in [1 .. Len(r) -> Ps \cap 1 .. m + 1]
      BY <2>1
    <3>2. Among(r, data, Ps \cap 1 .. m + 1)
      BY <2>3, <3>1 DEF Among
    <3>3. QED
      BY <2>1, <2>2, <2>4, <3>2
  <2>5. CASE m + 1 \in Ps
    <3> DEFINE q == Append(r, data[m + 1])
               h == [i \in 1 .. Len(r) + 1 |-> IF i = Len(r) + 1 THEN m + 1 ELSE g[i]]
    <3>1. /\ q \in Seq(S) /\ Len(q) = Len(r) + 1 /\ q[Len(r) + 1] = data[m + 1]
          /\ \A i \in 1 .. Len(r) : q[i] = r[i]
      BY <1>1, <2>1, AppendProperties
    <3>2. h \in [1 .. Len(r) + 1 -> Ps \cap 1 .. m + 1]
      BY <2>1, <2>5
    <3> HIDE DEF q
    <3>3. \A i \in 1 .. Len(r) + 1 : q[i] = data[h[i]]
      BY <2>1, <2>3, <3>1
    <3>4. \A i, j \in 1 .. Len(r) + 1 : i < j => h[i] < h[j]
      <4>1. \A i \in 1 .. Len(r) : g[i] \in Nat /\ g[i] <= m
        BY <2>3
      <4>2. ASSUME NEW i \in 1 .. Len(r) + 1, NEW j \in 1 .. Len(r) + 1, i < j
            PROVE  h[i] < h[j]
        <5>1. i \in 1 .. Len(r) /\ h[i] = g[i]
          BY <2>1, <4>2
        <5>2. CASE j = Len(r) + 1
          BY <5>1, <5>2, <4>1, <2>1
        <5>3. CASE j # Len(r) + 1
          <6>1. j \in 1 .. Len(r) /\ h[j] = g[j]
            BY <2>1, <5>3
          <6>2. QED
            BY <5>1, <6>1, <4>2, <2>3
        <5>4. QED
          BY <5>2, <5>3
      <4>3. QED
        BY <4>2
    <3> HIDE DEF h
    <3>5. Among(q, data, Ps \cap 1 .. m + 1)
      BY <3>1, <3>2, <3>3, <3>4 DEF Among
    <3>6. QED
      BY <2>1, <2>2, <2>5, <3>1, <3>5 DEF q
  <2>6. QED
    BY <2>4, <2>5
<1>8. Nat \subseteq T
  <2> HIDE DEF T
  <2>1. QED
    BY <1>6, <1>7, AllNaturals
<1>9. f[N] \in Seq(S) /\ Len(f[N]) <= N /\ (1 .. N \subseteq Ps \/ Len(f[N]) + 1 <= N) /\ Among(f[N], data, Ps \cap 1 .. N)
  <2>1. N \in T
    BY <1>1, <1>8
  <2>2. QED
    BY <2>1, <1>1
<1>10. Ps \cap 1 .. N = Ps /\ (1 .. N \subseteq Ps => Ps = DOMAIN data)
  BY <1>1
<1>11. QED
  BY <1>2, <1>9, <1>10

\* One entry for a key, at the time of its last use, and those first that were
\* inserted or read earlier.
Sound(d, u, l) ==
  /\ d \in Seq([key : Key, at : 0 .. clock])
  /\ \A m, n \in DOMAIN d : d[m].key = d[n].key => m = n
  /\ \A n \in DOMAIN d : d[n].at = u[d[n].key]
  /\ \A m, n \in DOMAIN d : m < n => d[n].key \in l[d[m].key]

State ==
  /\ clock \in 0 .. LastTime /\ used \in [Key -> 0 .. clock] /\ served \subseteq Key
  /\ later \in [Key -> SUBSET Key] /\ Len(data) <= MaxSize /\ Sound(data, used, later)

LEMMA SoundInIInv == (Memory!IInv <=> State) /\ (Memory!IInv' <=> State')
BY DEF Memory!IInv, Memory!TypeOK, Memory!WithinSize, Memory!UnreadAtFront, Sound, State

LEMMA AmongIsSound ==
  ASSUME Sound(data, used, later), NEW Ps \in SUBSET DOMAIN data, NEW r,
         r \in Seq([key : Key, at : 0 .. clock]), Among(r, data, Ps)
  PROVE  Sound(r, used, later)
<1>1. PICK g \in [1 .. Len(r) -> Ps] :
        /\ \A i \in 1 .. Len(r) : r[i] = data[g[i]]
        /\ \A i, j \in 1 .. Len(r) : i < j => g[i] < g[j]
  BY DEF Among
<1>2. DOMAIN r = 1 .. Len(r) /\ Len(r) \in Nat /\ DOMAIN data = 1 .. Len(data) /\ Len(data) \in Nat
  BY DEF Sound
<1>3. \A i \in DOMAIN r : g[i] \in DOMAIN data /\ g[i] \in Nat /\ r[i] = data[g[i]]
  BY <1>1, <1>2
<1>4. \A i, j \in DOMAIN r : g[i] = g[j] => i = j
  BY <1>1, <1>2, <1>3
<1>5. \A i, j \in DOMAIN r : r[i].key = r[j].key => i = j
  <2>1. \A m, n \in DOMAIN data : data[m].key = data[n].key => m = n
    BY DEF Sound
  <2>2. QED
    BY <1>3, <1>4, <2>1
<1>6. \A i \in DOMAIN r : r[i].at = used[r[i].key]
  <2>1. \A n \in DOMAIN data : data[n].at = used[data[n].key]
    BY DEF Sound
  <2>2. QED
    BY <1>3, <2>1
<1>7. \A i, j \in DOMAIN r : i < j => r[j].key \in later[r[i].key]
  BY <1>1, <1>2, <1>3 DEF Sound
<1>8. QED
  BY <1>5, <1>6, <1>7 DEF Sound

\* The entries that are kept: those at other positions are gone.
LEMMA KeptIsSound ==
  ASSUME Memory!IInv, NEW Ps \in SUBSET DOMAIN data
  PROVE  /\ Sound(Memory!Kept(Ps), used, later) /\ Len(Memory!Kept(Ps)) \in Nat /\ Len(Memory!Kept(Ps)) <= Len(data)
         /\ Ps # DOMAIN data => Len(Memory!Kept(Ps)) + 1 <= Len(data)
         /\ \A i \in DOMAIN Memory!Kept(Ps) : \E n \in Ps : Memory!Kept(Ps)[i] = data[n]
<1>1. data \in Seq([key : Key, at : 0 .. clock]) /\ Sound(data, used, later)
  BY SoundInIInv DEF State, Sound
<1>2. /\ Memory!Kept(Ps) \in Seq([key : Key, at : 0 .. clock]) /\ Len(Memory!Kept(Ps)) <= Len(data)
      /\ Ps # DOMAIN data => Len(Memory!Kept(Ps)) + 1 <= Len(data)
      /\ Among(Memory!Kept(Ps), data, Ps)
  BY <1>1, KeptFacts
<1>3. \A i \in DOMAIN Memory!Kept(Ps) : \E n \in Ps : Memory!Kept(Ps)[i] = data[n]
  <2>1. DOMAIN Memory!Kept(Ps) = 1 .. Len(Memory!Kept(Ps))
    BY <1>2
  <2>2. QED
    BY <1>2, <2>1 DEF Among
<1>4. Len(Memory!Kept(Ps)) \in Nat
  BY <1>2
<1>5. QED
  BY <1>1, <1>2, <1>3, <1>4, AmongIsSound

\* What a set, or a hit, leaves of the history.
LaterIn(d, k) == IF \E n \in DOMAIN d : d[n].key = k THEN later ELSE Memory!Later(k)

LEMMA PutIsSound ==
  ASSUME clock \in Nat, used \in [Key -> 0 .. clock], later \in [Key -> SUBSET Key], NEW k \in Key,
         NEW d, Sound(d, used, later)
  PROVE  /\ Sound(Memory!Put(d, k), [used EXCEPT ![k] = clock], LaterIn(d, k))
         /\ Len(Memory!Put(d, k)) <= Len(d) + 1
         /\ (\A n \in DOMAIN d : d[n].key # k) => Memory!Put(d, k) = Append(d, Memory!Entry(k))
         /\ (\E n \in DOMAIN d : d[n].key = k) => Len(Memory!Put(d, k)) = Len(d)
<1> DEFINE Row == [key : Key, at : 0 .. clock]
           u == [used EXCEPT ![k] = clock]
           r == Memory!Put(d, k)
<1>1. /\ d \in Seq(Row) /\ Len(d) \in Nat /\ DOMAIN d = 1 .. Len(d)
      /\ \A n \in DOMAIN d : d[n] \in Row /\ d[n].key \in Key
  <2>1. d \in Seq(Row)
    BY DEF Sound
  <2> HIDE DEF Row
  <2>2. \A n \in DOMAIN d : d[n] \in Row
    BY <2>1
  <2> USE DEF Row
  <2>3. QED
    BY <2>1, <2>2
<1>2. Memory!Entry(k) \in Row /\ Memory!Entry(k).key = k /\ Memory!Entry(k).at = clock
  BY DEF Memory!Entry
<1>3. u[k] = clock /\ \A j \in Key : u[j] \in 0 .. clock /\ (j # k => u[j] = used[j])
  OBVIOUS
<1> HIDE DEF u, Row
<1>4. CASE \E n \in DOMAIN d : d[n].key = k
  <2>1. r = [n \in DOMAIN d |-> IF d[n].key = k THEN Memory!Entry(k) ELSE d[n]] /\ LaterIn(d, k) = later
    BY <1>4 DEF Memory!Put, LaterIn
  <2>2. r \in [1 .. Len(d) -> Row]
    BY <1>1, <1>2, <2>1
  <2>3. r \in Seq(Row) /\ Len(r) = Len(d) /\ DOMAIN r = DOMAIN d
    <3>1. \A N \in Nat : \A q \in [1 .. N -> Row] : q \in Seq(Row) /\ Len(q) = N /\ DOMAIN q = 1 .. N
      OBVIOUS
    <3> HIDE DEF r
    <3>2. Len(d) \in Nat /\ DOMAIN d = 1 .. Len(d)
      BY <1>1
    <3>3. QED
      BY <2>2, <3>1, <3>2
  <2>4. \A n \in DOMAIN d : r[n].key = d[n].key /\ r[n].at = u[r[n].key]
    BY <1>1, <1>2, <1>3, <2>1 DEF Sound
  <2>5. Sound(r, u, LaterIn(d, k))
    <3>1. /\ \A m, n \in DOMAIN r : r[m].key = r[n].key => m = n
          /\ \A m, n \in DOMAIN r : m < n => r[n].key \in later[r[m].key]
      BY <2>3, <2>4 DEF Sound
    <3> HIDE DEF r
    <3>2. QED
      BY <2>1, <2>3, <2>4, <3>1 DEF Sound, Row
  <2>6. QED
    <3>1. Len(d) <= Len(d) + 1
      BY <1>1
    <3>2. ~(\A n \in DOMAIN d : d[n].key # k)
      BY <1>4
    <3> HIDE DEF r
    <3>3. QED
      BY <1>4, <2>3, <2>5, <3>1, <3>2 DEF u, r
<1>5. CASE \A n \in DOMAIN d : d[n].key # k
  <2>1. r = Append(d, Memory!Entry(k)) /\ LaterIn(d, k) = Memory!Later(k)
    BY <1>5 DEF Memory!Put, LaterIn
  <2>2. /\ r \in Seq(Row) /\ Len(r) = Len(d) + 1 /\ r[Len(d) + 1] = Memory!Entry(k)
        /\ \A n \in 1 .. Len(d) : r[n] = d[n]
    BY <1>1, <1>2, <2>1, AppendProperties
  <2>3. DOMAIN r = 1 .. Len(d) + 1
    BY <2>2
  <2>4. \A n \in DOMAIN r : n = Len(d) + 1 \/ (n \in DOMAIN d /\ n < Len(d) + 1)
    BY <1>1, <2>3
  <2> HIDE DEF r
  <2>5. \A n \in DOMAIN r : r[n].at = u[r[n].key]
    <3> TAKE n \in DOMAIN r
    <3>1. CASE n = Len(d) + 1
      BY <1>2, <1>3, <2>2, <3>1
    <3>2. CASE n \in DOMAIN d
      BY <1>1, <1>3, <1>5, <2>2, <3>2 DEF Sound
    <3>3. QED
      BY <2>4, <3>1, <3>2
  <2>6. \A m, n \in DOMAIN r : r[m].key = r[n].key => m = n
    BY <1>1, <1>2, <1>5, <2>2, <2>4 DEF Sound
  <2>7. \A m, n \in DOMAIN r : m < n => r[n].key \in Memory!Later(k)[r[m].key]
    <3> SUFFICES ASSUME NEW m \in DOMAIN r, NEW n \in DOMAIN r, m < n
                 PROVE  r[n].key \in Memory!Later(k)[r[m].key]
      OBVIOUS
    <3>1. m \in DOMAIN d /\ r[m] = d[m] /\ d[m].key \in Key /\ d[m].key # k
      BY <1>1, <1>5, <2>2, <2>3, <2>4
    <3>2. Memory!Later(k)[d[m].key] = later[d[m].key] \cup {k}
      BY <3>1 DEF Memory!Later
    <3>3. CASE n = Len(d) + 1
      BY <1>2, <2>2, <3>1, <3>2, <3>3
    <3>4. CASE n \in DOMAIN d
      BY <1>1, <2>2, <3>1, <3>2, <3>4 DEF Sound
    <3>5. QED
      BY <2>4, <3>3, <3>4
  <2>8. Sound(r, u, LaterIn(d, k))
    BY <2>1, <2>2, <2>5, <2>6, <2>7 DEF Sound, Row
  <2>9. QED
    BY <1>5, <2>1, <2>2, <2>8 DEF r, u
<1>6. QED
  BY <1>4, <1>5

LEMMA EvictedIsSound ==
  ASSUME Memory!TTLAssumption, Memory!IInv
  PROVE  /\ Sound(Memory!Evicted, used, later) /\ Len(Memory!Evicted) + 1 <= MaxSize
         /\ \A i \in DOMAIN Memory!Evicted : \E n \in DOMAIN data : Memory!Evicted[i] = data[n]
<1> DEFINE Row == [key : Key, at : 0 .. clock]
           r == SubSeq(data, Batch + 1, Len(data))
<1>1. /\ data \in Seq(Row) /\ Len(data) \in Nat /\ DOMAIN data = 1 .. Len(data)
      /\ Sound(data, used, later) /\ Len(data) <= MaxSize
  BY SoundInIInv DEF State, Sound
<1>2. MaxSize \in Nat \ {0} /\ Batch \in Nat /\ 1 <= Batch /\ Batch <= MaxSize
  BY DEF Memory!TTLAssumption
<1>3. CASE Len(data) >= MaxSize
  <2>1. /\ r \in Seq(Row) /\ Len(r) = Len(data) - Batch
        /\ \A i \in 1 .. Len(data) - Batch : r[i] = data[i + Batch]
    <3>1. /\ Batch + 1 \in Int /\ Len(data) \in Int
          /\ \A i \in Batch + 1 .. Len(data) : data[i] \in Row
      <4> HIDE DEF Row
      <4>1. QED
        BY <1>1, <1>2, <1>3
    <3>2. /\ r \in Seq(Row)
          /\ Len(r) = IF Batch + 1 <= Len(data) THEN Len(data) - (Batch + 1) + 1 ELSE 0
          /\ \A i \in 1 .. Len(data) - (Batch + 1) + 1 : r[i] = data[Batch + 1 + i - 1]
      BY <3>1, SubSeqProperties
    <3> HIDE DEF r, Row
    <3>3. Len(r) = Len(data) - Batch
      <4>1. Len(r) = IF Batch + 1 <= Len(data) THEN Len(data) - (Batch + 1) + 1 ELSE 0
        BY <3>2
      <4>2. Batch \in Int /\ Len(data) \in Int /\ Batch <= Len(data)
        BY <1>1, <1>2, <1>3
      <4> HIDE DEF r
      <4>3. QED
        BY <4>1, <4>2
    <3>4. ASSUME NEW i \in 1 .. Len(data) - Batch PROVE r[i] = data[i + Batch]
      <4>1. i \in 1 .. Len(data) - (Batch + 1) + 1 /\ Batch + 1 + i - 1 = i + Batch
        BY <1>1, <1>2, <1>3
      <4>2. QED
        BY <4>1, <3>2
    <3>5. QED
      BY <3>2, <3>3, <3>4
  <2>2. DOMAIN r = 1 .. Len(data) - Batch
    BY <2>1
  <2> HIDE DEF r, Row
  <2>3. Among(r, data, DOMAIN data)
    <3> DEFINE g == [i \in 1 .. Len(r) |-> i + Batch]
    <3>1. g \in [1 .. Len(r) -> DOMAIN data] /\ \A i \in 1 .. Len(r) : r[i] = data[g[i]]
      BY <1>1, <1>2, <1>3, <2>1
    <3>2. \A i, j \in 1 .. Len(r) : i < j => g[i] < g[j]
      BY <1>1, <1>2, <2>1
    <3>3. QED
      BY <3>1, <3>2 DEF Among
  <2>4. Sound(r, used, later)
    BY <1>1, <2>1, <2>3, AmongIsSound DEF Row
  <2>5. Memory!Evicted = r /\ Len(r) + 1 <= MaxSize
    <3>1. Memory!Evicted = r
      BY <1>3 DEF Memory!Evicted, r
    <3>2. QED
      BY <1>1, <1>2, <1>3, <2>1, <3>1
  <2>6. ASSUME NEW i \in DOMAIN r PROVE \E n \in DOMAIN data : r[i] = data[n]
    <3>1. i + Batch \in DOMAIN data
      BY <1>1, <1>2, <1>3, <2>2
    <3>2. QED
      BY <2>1, <2>2, <3>1
  <2>7. QED
    BY <2>4, <2>5, <2>6
<1>4. CASE ~(Len(data) >= MaxSize)
  BY <1>1, <1>2, <1>4 DEF Memory!Evicted
<1>5. QED
  BY <1>3, <1>4

LEMMA MemoryInit == ASSUME Memory!TTLAssumption, Memory!Init PROVE Memory!IInv
BY DEF Memory!TTLAssumption, Memory!Init, Memory!IInv, Memory!TypeOK, Memory!WithinSize,
       Memory!UnreadAtFront

\* Wherever the entries come from: what a step leaves is sound.
LEMMA WhatIsLeft ==
  ASSUME Memory!TTLAssumption, Memory!IInv, Sound(data', used', later'), Len(data') <= MaxSize, UNCHANGED clock,
         used' \in [Key -> 0 .. clock], later' \in [Key -> SUBSET Key], served' \subseteq Key
  PROVE  Memory!IInv'
<1>1. Sound(data, used, later)'
  BY DEF Sound
<1>2. clock' \in 0 .. LastTime
  BY SoundInIInv DEF State
<1>3. QED
  BY <1>1, <1>2, SoundInIInv DEF State

LEMMA MemoryRemoves ==
  ASSUME Memory!TTLAssumption, Memory!IInv, NEW Ps \in SUBSET DOMAIN data,
         data' = Memory!Kept(Ps), served' = {}, UNCHANGED <<clock, used, later>>
  PROVE  Memory!IInv'
<1>1. Sound(data', used', later') /\ Len(data') <= MaxSize /\ used' \in [Key -> 0 .. clock]
      /\ later' \in [Key -> SUBSET Key]
  <2>1. Sound(Memory!Kept(Ps), used, later) /\ Len(Memory!Kept(Ps)) <= Len(data) /\ Len(Memory!Kept(Ps)) \in Nat
    BY KeptIsSound
  <2>2. Len(data) <= MaxSize /\ Len(data) \in Nat /\ MaxSize \in Nat /\ used \in [Key -> 0 .. clock]
         /\ later \in [Key -> SUBSET Key]
    BY SoundInIInv DEF State, Memory!TTLAssumption, Sound
  <2>3. QED
    BY <2>1, <2>2
<1>2. QED
  BY <1>1, WhatIsLeft

LEMMA MemorySets ==
  ASSUME Memory!TTLAssumption, Memory!IInv, NEW k \in Key, NEW d, Sound(d, used, later), Len(d) \in Nat,
         Len(d) + 1 <= MaxSize, data' = Memory!Put(d, k), served' \subseteq Key,
         used' = [used EXCEPT ![k] = clock], later' = LaterIn(d, k), UNCHANGED clock
  PROVE  Memory!IInv'
<1>1. /\ clock \in Nat /\ used \in [Key -> 0 .. clock] /\ MaxSize \in Nat
      /\ later \in [Key -> SUBSET Key] /\ later' \in [Key -> SUBSET Key]
  BY SoundInIInv DEF State, Memory!TTLAssumption, LaterIn, Memory!Later
<1>2. Sound(data', used', later') /\ Len(data') <= Len(d) + 1
  BY <1>1, PutIsSound
<1>3. Len(data') \in Nat
  BY <1>2 DEF Sound
<1>4. QED
  BY <1>1, <1>2, <1>3, WhatIsLeft

\* A hit takes its entry out of its place, and none of that key is left.
LEMMA MemoryHits ==
  ASSUME Memory!TTLAssumption, Memory!IInv, NEW k \in Key, Memory!Hit(k) PROVE Memory!IInv'
<1> DEFINE p == Memory!Position(k)
           d == Memory!Kept(DOMAIN data \ {p})
<1>1. p \in DOMAIN data /\ data[p].key = k
  BY DEF Memory!Hit, Memory!Keys, Memory!Position
<1> HIDE DEF p
<1>2. /\ Sound(d, used, later) /\ Len(d) \in Nat /\ Len(d) + 1 <= Len(data)
      /\ \A i \in DOMAIN d : \E n \in DOMAIN data \ {p} : d[i] = data[n]
  BY <1>1, KeptIsSound
<1>3. Sound(data, used, later) /\ Len(data) <= MaxSize /\ Len(data) \in Nat /\ MaxSize \in Nat
      /\ clock \in Nat /\ used \in [Key -> 0 .. clock] /\ later \in [Key -> SUBSET Key]
  BY SoundInIInv DEF State, Memory!TTLAssumption, Sound
<1>4. data' = Append(d, Memory!Entry(k)) /\ served' = {k} /\ used' = [used EXCEPT ![k] = clock] /\ UNCHANGED clock
      /\ later' = Memory!Later(k)
  BY DEF Memory!Hit, p
<1> HIDE DEF d
<1>5. \A i \in DOMAIN d : d[i].key # k
  BY <1>1, <1>2, <1>3 DEF Sound
<1>6. data' = Memory!Put(d, k) /\ later' = LaterIn(d, k)
  <2>1. data' = Memory!Put(d, k)
    BY <1>2, <1>3, <1>4, <1>5, PutIsSound
  <2>2. QED
    BY <1>4, <1>5, <2>1 DEF LaterIn
<1>7. Len(d) + 1 <= MaxSize /\ served' \subseteq Key
  BY <1>2, <1>3, <1>4
<1>8. QED
  BY <1>2, <1>4, <1>5, <1>6, <1>7, MemorySets

LEMMA MemoryStep == ASSUME Memory!TTLAssumption, Memory!IInv, [Memory!Next]_Memory!vars PROVE Memory!IInv'
<1>1. ASSUME NEW k \in Key, Memory!Miss(k) \/ Memory!Peek(k) PROVE Memory!IInv'
  <2>1. UNCHANGED <<data, clock, used, later>> /\ served' \subseteq Key
    BY <1>1 DEF Memory!Miss, Memory!Peek
  <2>2. QED
    BY <2>1, WhatIsLeft, SoundInIInv DEF State
<1>2. ASSUME NEW k \in Key, Memory!Expire(k) PROVE Memory!IInv'
  BY <1>2, MemoryRemoves DEF Memory!Expire
<1>3. ASSUME NEW k \in Key, Memory!Set(k) PROVE Memory!IInv'
  <2>1. Sound(Memory!Evicted, used, later) /\ Len(Memory!Evicted) \in Nat /\ Len(Memory!Evicted) + 1 <= MaxSize
    BY EvictedIsSound DEF Sound
  <2>2. QED
    BY <1>3, <2>1, MemorySets DEF Memory!Set, LaterIn
<1>4. ASSUME NEW K, Memory!Invalidate(K) PROVE Memory!IInv'
  BY <1>4, MemoryRemoves DEF Memory!Invalidate
<1>5. ASSUME Memory!CleanupExpired PROVE Memory!IInv'
  BY <1>5, MemoryRemoves DEF Memory!CleanupExpired
<1>6. ASSUME Memory!Tick PROVE Memory!IInv'
  <2>1. clock' \in 0 .. LastTime /\ clock' = clock + 1 /\ UNCHANGED <<data, used, later>> /\ served' = {}
        /\ clock \in Nat
    BY <1>6, SoundInIInv DEF Memory!Tick, State, Memory!TTLAssumption
  <2>2. 0 .. clock \subseteq 0 .. clock'
    BY <2>1
  <2>3. used' \in [Key -> 0 .. clock']
    BY <2>1, <2>2, SoundInIInv DEF State
  <2>4. data' \in Seq([key : Key, at : 0 .. clock'])
    <3>1. [key : Key, at : 0 .. clock] \subseteq [key : Key, at : 0 .. clock']
      BY <2>2
    <3>2. data \in Seq([key : Key, at : 0 .. clock])
      BY SoundInIInv DEF State, Sound
    <3>3. Seq([key : Key, at : 0 .. clock]) \subseteq Seq([key : Key, at : 0 .. clock'])
      BY <3>1, SeqMonotonic
    <3>4. QED
      BY <2>1, <3>2, <3>3
  <2>5. Sound(data, used, later)'
    BY <2>1, <2>4, SoundInIInv DEF State, Sound
  <2>6. QED
    BY <2>1, <2>3, <2>5, SoundInIInv DEF State
<1>7. ASSUME UNCHANGED Memory!vars PROVE Memory!IInv'
  BY <1>7, WhatIsLeft, SoundInIInv DEF Memory!vars, State
<1>8. QED
  BY <1>1, <1>2, <1>3, <1>4, <1>5, <1>6, <1>7, MemoryHits DEF Memory!Next

(* No order of sets, reads, expirations and evictions makes the cache      *)
(* larger than it may be, and what is served was used within the time to   *)
(* live; the entries are in the order in which they were inserted or last  *)
(* read, whatever is set again meanwhile. For any keys, sizes and times.   *)
THEOREM MemorySafety ==
  ASSUME Memory!TTLAssumption
  PROVE  Memory!Spec => MemoryIsInOrder
<1>1. Memory!Init => Memory!IInv
  BY MemoryInit
<1>2. Memory!IInv /\ [Memory!Next]_Memory!vars => Memory!IInv'
  BY MemoryStep
<1>3. Memory!IInv => Memory!TypeOK /\ Memory!WithinSize /\ Memory!UnreadAtFront
  BY DEF Memory!IInv
<1> DEFINE InTime == \A k \in served' : clock - used[k] <= Lifetime
<1>4. Memory!IInv /\ [Memory!Next]_Memory!vars => [InTime]_Memory!vars
  <2> SUFFICES ASSUME Memory!TTLAssumption, Memory!IInv, Memory!Next, NEW k \in served' PROVE clock - used[k] <= Lifetime
    OBVIOUS
  <2>1. k \in Memory!Keys /\ ~Memory!Expired(data[Memory!Position(k)])
    BY DEF Memory!Next, Memory!Miss, Memory!Expire, Memory!Hit, Memory!Set, Memory!Invalidate,
           Memory!CleanupExpired, Memory!Peek, Memory!Tick
  <2>2. Memory!Position(k) \in DOMAIN data /\ data[Memory!Position(k)].key = k
    BY <2>1 DEF Memory!Keys, Memory!Position
  <2>3. data[Memory!Position(k)].at = used[k] /\ k \in Key
    <3> DEFINE Row == [key : Key, at : 0 .. clock]
    <3>1. data \in Seq(Row)
      BY DEF Memory!IInv, Memory!TypeOK
    <3> HIDE DEF Row
    <3>2. data[Memory!Position(k)] \in Row
      BY <2>2, <3>1
    <3>3. QED
      BY <2>2, <3>2 DEF Memory!IInv, Row
  <2>4. clock \in Nat /\ used[k] \in Nat /\ Lifetime \in Nat
    BY <2>3 DEF Memory!IInv, Memory!TypeOK, Memory!TTLAssumption
  <2>5. QED
    BY <2>1, <2>3, <2>4 DEF Memory!Expired
<1>5. QED
  BY <1>1, <1>2, <1>3, <1>4, PTL
     DEF Memory!Spec, MemoryIsInOrder, Memory!ServedInTime, InTime

-----------------------------------------------------------------------------
(* The singleton of threads: SyncSingleton, where `lock` is called `mutex` *)
(* and `pc` and `got` are called `phase` and `given`.                      *)

\* A thread goes on, and what the others have read stays what it was.
LEMMA SyncStep ==
  ASSUME Threads!SyncAssumption, Threads!IInv, [Threads!Next]_Threads!vars
  PROVE  Threads!IInv'
<1> USE DEF Threads!SyncAssumption, Threads!IInv, Threads!TypeOK, Threads!Goto
<1>1. ASSUME NEW t \in Caller, Threads!Get(t) PROVE Threads!IInv'
  BY <1>1 DEF Threads!Get
<1>2. ASSUME NEW t \in Caller, Threads!Found(t) PROVE Threads!IInv'
  BY <1>2 DEF Threads!Found
<1>3. ASSUME NEW t \in Caller, Threads!Enter(t) PROVE Threads!IInv'
  BY <1>3 DEF Threads!Enter
<1>4. ASSUME NEW t \in Caller, Threads!Make(t) PROVE Threads!IInv'
  BY <1>4 DEF Threads!Make
<1>5. ASSUME NEW t \in Caller, Threads!Done(t) PROVE Threads!IInv'
  BY <1>5 DEF Threads!Done
<1>6. ASSUME Threads!Reset PROVE Threads!IInv'
  BY <1>6 DEF Threads!Reset
<1>7. ASSUME UNCHANGED Threads!vars PROVE Threads!IInv'
  BY <1>7 DEF Threads!vars
<1>8. QED
  BY <1>1, <1>2, <1>3, <1>4, <1>5, <1>6, <1>7 DEF Threads!Next

(* For any number of threads and resets: a get returns an instance, the    *)
(* one of all others until it is reset, however the unlocked look and the  *)
(* reset interleave.                                                       *)
THEOREM SyncSafety ==
  ASSUME Threads!SyncAssumption
  PROVE  Threads!Spec => []ThreadsShareOne
<1>1. Threads!Init => Threads!IInv
  BY DEF Threads!Init, Threads!IInv, Threads!TypeOK, Threads!SyncAssumption
<1>2. Threads!IInv /\ [Threads!Next]_Threads!vars => Threads!IInv'
  BY SyncStep
<1>3. Threads!IInv => ThreadsShareOne
  BY DEF ThreadsShareOne, Threads!IInv, Threads!ThreadsShareOne, Threads!NeverNone,
         Threads!SameUntilReset
<1>4. QED
  BY <1>1, <1>2, <1>3, PTL DEF Threads!Spec

-----------------------------------------------------------------------------
(* The singleton of tasks: AsyncSingleton, where `instance` is called      *)
(* `single`, `pc` `stage`, and `open` `unclosed`.                          *)

\* A task leaves the critical section, or was not in it.
LEMMA ReturnFacts ==
  ASSUME Tasks!SingletonAssumption, Tasks!OneLoop, Tasks!IInv, NEW t \in Task,
         NEW i \in Product \cup {None}, Tasks!Return(t, i)
  PROVE  /\ holder' \in [Tasks!Loop -> Task \cup {None}]
         /\ stage' \in [Task -> {"idle", "wait", "make"}] /\ attempt' \in [Task -> 0 .. MaxRetries]
         /\ got' \in [Task -> Product \cup {None}]
         /\ \A u \in Task : holder'[LoopOf[u]] = u <=> stage'[u] = "make"
         /\ \A u \in Task : stage'[u] = "make" => stage[u] = "make" /\ u # t
<1>1. \A u \in Task : LoopOf[u] \in Tasks!Loop
  BY DEF Tasks!Loop
<1>2. QED
  BY <1>1 DEF Tasks!SingletonAssumption, Tasks!OneLoop, Tasks!IInv, Tasks!TypeOK, Tasks!Return

LEMMA AsyncStep ==
  ASSUME Tasks!SingletonAssumption, Tasks!OneLoop, Tasks!IInv, [Tasks!Next]_Tasks!vars
  PROVE  Tasks!IInv'
<1>0. \A u \in Task : LoopOf[u] \in Tasks!Loop
  BY DEF Tasks!Loop
<1>14. Tasks!Forget => error' = FALSE /\ age' \in 0 .. Delay
  BY DEF Tasks!Forget, Tasks!SingletonAssumption
<1>1. ASSUME NEW t \in Task, Tasks!Found(t) PROVE Tasks!IInv'
  <2>1. single \in Product
    BY <1>1 DEF Tasks!Found, Tasks!IInv, Tasks!TypeOK
  <2>2. QED
    BY <1>1, <2>1, ReturnFacts DEF Tasks!Found, Tasks!IInv, Tasks!TypeOK
<1>2. ASSUME NEW t \in Task, Tasks!FailFast(t) PROVE Tasks!IInv'
  BY <1>2, ReturnFacts DEF Tasks!FailFast, Tasks!IInv, Tasks!TypeOK
<1>3. ASSUME NEW t \in Task, Tasks!Get(t) PROVE Tasks!IInv'
  <2>1. CASE stage' = [stage EXCEPT ![t] = "wait"] /\ stage[t] = "idle" /\ Tasks!Forget
             /\ got' = [got EXCEPT ![t] = None]
             /\ UNCHANGED <<single, holder, attempt, healthy, unclosed>>
    BY <2>1, <1>0, <1>14 DEF Tasks!IInv, Tasks!TypeOK
  <2>2. QED
    BY <1>1, <1>2, <1>3, <2>1 DEF Tasks!Get
<1>4. ASSUME NEW t \in Task, Tasks!Enter(t) PROVE Tasks!IInv'
  <2>1. CASE single = None /\ stage' = [stage EXCEPT ![t] = "make"] /\ stage[t] = "wait"
             /\ Tasks!Forget /\ holder[LoopOf[t]] = None /\ holder' = [holder EXCEPT ![LoopOf[t]] = t]
             /\ UNCHANGED <<single, attempt, got, healthy, unclosed>>
    <3>1. \A u \in Task : stage[u] # "make" /\ LoopOf[u] = LoopOf[t]
      BY <2>1 DEF Tasks!OneLoop, Tasks!SingletonAssumption, Tasks!IInv, Tasks!TypeOK
    <3>2. stage' \in [Task -> {"idle", "wait", "make"}] /\ holder' \in [Tasks!Loop -> Task \cup {None}]
      BY <2>1, <1>0 DEF Tasks!IInv, Tasks!TypeOK
    <3>3. \A u \in Task : (holder'[LoopOf[u]] = u <=> u = t) /\ (stage'[u] = "make" <=> u = t)
      BY <2>1, <1>0, <3>1 DEF Tasks!IInv, Tasks!TypeOK
    <3>4. QED
      BY <2>1, <1>14, <3>2, <3>3 DEF Tasks!IInv, Tasks!TypeOK
  <2>2. QED
    BY <1>1, <1>2, <1>4, <2>1 DEF Tasks!Enter
<1>5. ASSUME NEW t \in Task, Tasks!Made(t) PROVE Tasks!IInv'
  <2>1. PICK i \in Product : /\ stage[t] = "make" /\ single' = i /\ unclosed' = unclosed \cup {i}
                              /\ Tasks!Return(t, i) /\ UNCHANGED <<error, age, healthy>>
    BY <1>5 DEF Tasks!Made
  <2>2. \A u \in Task : stage'[u] # "make"
    BY <2>1, ReturnFacts DEF Tasks!OneLoop, Tasks!IInv, Tasks!TypeOK
  <2>3. ~error
    BY <2>1 DEF Tasks!IInv
  <2>4. QED
    BY <2>1, <2>2, <2>3, ReturnFacts DEF Tasks!SingletonAssumption, Tasks!IInv, Tasks!TypeOK
<1>6. ASSUME NEW t \in Task, Tasks!Retry(t) PROVE Tasks!IInv'
  BY <1>6 DEF Tasks!Retry, Tasks!SingletonAssumption, Tasks!IInv, Tasks!TypeOK
<1>7. ASSUME NEW t \in Task, Tasks!Fail(t) PROVE Tasks!IInv'
  <2>1. /\ stage[t] = "make" /\ error' = TRUE /\ age' \in 0 .. Delay
        /\ Tasks!Return(t, None) /\ UNCHANGED <<single, healthy, unclosed>>
    BY <1>7 DEF Tasks!Fail, Tasks!SingletonAssumption
  <2>2. single = None /\ \A u \in Task : stage'[u] # "make"
    BY <2>1, ReturnFacts DEF Tasks!OneLoop, Tasks!IInv, Tasks!TypeOK
  <2>3. QED
    BY <2>1, <2>2, ReturnFacts DEF Tasks!IInv, Tasks!TypeOK
<1>8. ASSUME NEW t \in Task, Tasks!Cancel(t) PROVE Tasks!IInv'
  BY <1>8, ReturnFacts DEF Tasks!Cancel, Tasks!IInv, Tasks!TypeOK
<1>9. ASSUME Tasks!Close PROVE Tasks!IInv'
  <2>1. error' = FALSE /\ age' \in 0 .. Delay
    BY <1>9 DEF Tasks!Close, Tasks!Forget, Tasks!SingletonAssumption
  <2>2. QED
    BY <1>9, <2>1 DEF Tasks!Close, Tasks!IInv, Tasks!TypeOK
<1>10. ASSUME Tasks!Tick PROVE Tasks!IInv'
  <2>1. age' \in 0 .. Delay
    BY <1>10 DEF Tasks!Tick, Tasks!SingletonAssumption, Tasks!IInv, Tasks!TypeOK
  <2>2. QED
    BY <1>10, <2>1 DEF Tasks!Tick, Tasks!IInv, Tasks!TypeOK
<1>11. ASSUME Tasks!Switch PROVE Tasks!IInv'
  BY <1>11 DEF Tasks!Switch, Tasks!IInv, Tasks!TypeOK
<1>12. ASSUME UNCHANGED Tasks!vars PROVE Tasks!IInv'
  BY <1>12 DEF Tasks!vars, Tasks!IInv, Tasks!TypeOK
<1>13. QED
  BY <1>3, <1>4, <1>5, <1>6, <1>7, <1>8, <1>9, <1>10, <1>11, <1>12 DEF Tasks!Next, Tasks!Step

(* For any number of tasks of one event loop, through failures, retries,   *)
(* cancellations and closes: there is one instance at most that was not    *)
(* cleaned up, all tasks have that one, and no factory is started while an *)
(* error is recent.                                                        *)
THEOREM AsyncSafety ==
  ASSUME Tasks!SingletonAssumption, Tasks!OneLoop
  PROVE  Tasks!Spec => TasksShareOne
<1>1. Tasks!Init => Tasks!IInv
  <2> SUFFICES ASSUME Tasks!Init PROVE Tasks!IInv
    OBVIOUS
  <2>1. error = FALSE /\ healthy = TRUE /\ age \in 0 .. Delay /\ attempt \in [Task -> 0 .. MaxRetries]
    BY DEF Tasks!Init, Tasks!SingletonAssumption
  <2>2. holder \in [Tasks!Loop -> Task \cup {None}] /\ \A t \in Task : holder[LoopOf[t]] # t
    BY DEF Tasks!Init, Tasks!Loop, Tasks!SingletonAssumption
  <2>3. /\ single = None /\ unclosed = {} /\ stage = [t \in Task |-> "idle"] /\ got = [t \in Task |-> None]
    BY DEF Tasks!Init
  <2>4. QED
    BY <2>1, <2>2, <2>3 DEF Tasks!IInv, Tasks!TypeOK
<1>2. Tasks!IInv /\ [Tasks!Next]_Tasks!vars => Tasks!IInv'
  BY AsyncStep
<1>3. Tasks!IInv => Tasks!TypeOK /\ Tasks!OneInstance /\ Tasks!SameInstance
  <2> SUFFICES ASSUME Tasks!IInv PROVE Tasks!OneInstance /\ Tasks!SameInstance
    BY DEF Tasks!IInv
  <2>1. Tasks!OneInstance
    <3>1. Cardinality({}) = 0 /\ Cardinality({single}) = 1
      BY FS_EmptySet, FS_Singleton
    <3>2. \A S : Tasks!Cardinality(S) = Cardinality(S)
      BY DEF Tasks!Cardinality, Cardinality
    <3>3. unclosed = {} \/ unclosed = {single}
      BY DEF Tasks!IInv
    <3>4. QED
      BY <3>1, <3>2, <3>3 DEF Tasks!OneInstance
  <2>2. QED
    BY <2>1 DEF Tasks!IInv, Tasks!SameInstance
<1> DEFINE Fast == \A t \in Task : stage[t] # "make" /\ stage'[t] = "make" => (error => age = Delay)
<1>4. Tasks!IInv /\ [Tasks!Next]_Tasks!vars => [Fast]_Tasks!vars
  <2> SUFFICES ASSUME Tasks!IInv, Tasks!Next, NEW t \in Task, stage[t] # "make", stage'[t] = "make", error
               PROVE  age = Delay
    OBVIOUS
  <2>1. ASSUME NEW u \in Task, NEW i, Tasks!Return(u, i) PROVE FALSE
    BY <2>1 DEF Tasks!Return, Tasks!IInv, Tasks!TypeOK
  <2>2. ASSUME NEW u \in Task, Tasks!Get(u) PROVE FALSE
    BY <2>1, <2>2 DEF Tasks!Get, Tasks!Found, Tasks!FailFast, Tasks!IInv, Tasks!TypeOK
  <2>3. ASSUME NEW u \in Task, Tasks!Enter(u) PROVE age = Delay
    BY <2>1, <2>3 DEF Tasks!Enter, Tasks!Found, Tasks!FailFast, Tasks!Cooled
  <2>4. QED
    BY <2>1, <2>2, <2>3
       DEF Tasks!Next, Tasks!Step, Tasks!Made, Tasks!Retry, Tasks!Fail, Tasks!Cancel, Tasks!Close,
           Tasks!Tick, Tasks!Switch
<1>5. QED
  BY <1>1, <1>2, <1>3, <1>4, PTL DEF Tasks!Spec, TasksShareOne, Tasks!TasksShareOne, Tasks!FailsFast,
                                     Fast
=============================================================================
