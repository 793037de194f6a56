----------------------------- MODULE VocabCache -----------------------------
(***************************************************************************)
(* The snapshots that GlobalVocabulary (embeddings/global_vocab.py) keeps  *)
(* of its tables: one instance in each process, shared by its threads,     *)
(* over one SQLite database.  Writers serialise on file_lock and on the    *)
(* instance's _conn_lock and drop the snapshots after their commit.        *)
(* Queries take the three snapshots one after another under _cache_lock,   *)
(* and build the fuzzy index from two of them.                             *)
(*                                                                         *)
(* VocabTables has the tables; here their contents are the revision, the   *)
(* number of commits.  A snapshot names the revision it was read from and, *)
(* since `is` compares objects, the number of times the caches had been    *)
(* dropped: between two drops each cache is filled at most once.           *)
(***************************************************************************)
EXTENDS Naturals

CONSTANTS Proc, Thread,
          ProcOf,        \* the process of a thread
          Reader,        \* the threads that vectorize
          Writer,        \* the threads that register, unregister, update, rebuild
          Ttl,           \* _cache_ttl
          MaxRevision,   \* bound: commits
          MaxTime,       \* bound: clock
          None

ASSUME CacheAssumption ==
  /\ ProcOf \in [Thread -> Proc]
  /\ Reader \subseteq Thread /\ Writer \subseteq Thread
  /\ Ttl \in Nat /\ MaxRevision \in Nat /\ MaxTime \in Nat
  /\ None \notin Thread /\ None \notin [rev : Nat, epoch : Nat]
  /\ None \notin [{"vocab", "freq"} -> [rev : Nat, epoch : Nat]]

Kind == {"vocab", "freq", "total"}
Snapshot == [rev : Nat, epoch : Nat]

VARIABLES
  revision,      \* commits to the database
  now,           \* time.time()
  committedAt,   \* history: the time of each commit
  fileLock,      \* the thread that has the lock file
  connLock,      \* the thread that has _conn_lock of each process
  cacheLock,     \* the thread that has _cache_lock of each process
  conn,          \* threads with a healthy SQLite connection
  cache,         \* _vocab_cache, _doc_freq_cache, _total_docs_cache
  fuzzy,         \* the snapshots under _fuzzy_index_cache
  stamp,         \* _cache_timestamp
  epoch,         \* times that caches were dropped
  pc, kind,      \* where each thread stands; the snapshot it is after
  fetched,       \* the revision that a fill has read
  snap,          \* a query's locals vocab, doc_freq, total
  wrote,         \* the revision a call has committed
  returned,      \* history: the last commit of a call that returned, by process
  since          \* history: `returned` at the start of a query

shared == <<revision, now, committedAt, fileLock>>
caches == <<cache, fuzzy, stamp, epoch>>
locals == <<kind, fetched, snap, wrote, since>>
vars == <<revision, now, committedAt, fileLock, connLock, cacheLock, conn, cache, fuzzy,
          stamp, epoch, pc, kind, fetched, snap, wrote, returned, since>>

Reading == {"check", "clear", "get", "connect", "read", "publish", "fuzzy"}
Writing == {"open", "begin", "commit", "invalidate"}

Empty == [k \in Kind |-> None]
P(t) == ProcOf[t]
Later(m, n) == IF m > n THEN m ELSE n

Init ==
  /\ revision = 0 /\ now = 1 /\ committedAt = [r \in 1 .. MaxRevision |-> 0]
  /\ fileLock = None
  /\ connLock = [p \in Proc |-> None]
  /\ cacheLock = [p \in Proc |-> None]
  /\ conn = {}
  /\ cache = [p \in Proc |-> Empty]
  /\ fuzzy = [p \in Proc |-> None]
  /\ stamp = [p \in Proc |-> 0]
  /\ epoch = [p \in Proc |-> 0]
  /\ pc = [t \in Thread |-> "idle"]
  /\ kind = [t \in Thread |-> "vocab"]
  /\ fetched = [t \in Thread |-> 0]
  /\ snap = [t \in Thread |-> Empty]
  /\ wrote = [t \in Thread |-> 0]
  /\ returned = [p \in Proc |-> 0]
  /\ since = [t \in Thread |-> 0]

Goto(t, place) == pc' = [pc EXCEPT ![t] = place]

\* The call returns or raises.
Leave(t) ==
  /\ Goto(t, "idle")
  /\ kind' = [kind EXCEPT ![t] = "vocab"]
  /\ fetched' = [fetched EXCEPT ![t] = 0]
  /\ snap' = [snap EXCEPT ![t] = Empty]
  /\ wrote' = [wrote EXCEPT ![t] = 0]
  /\ since' = [since EXCEPT ![t] = 0]

-----------------------------------------------------------------------------
(* _is_cache_expired; a stamp of 0 has always expired.                     *)
Expired(p) == now > stamp[p] + Ttl \/ stamp[p] = 0

(* _clear_caches_locked.                                                   *)
ClearCaches(p) ==
  /\ cache' = [cache EXCEPT ![p] = Empty]
  /\ fuzzy' = [fuzzy EXCEPT ![p] = None]
  /\ stamp' = [stamp EXCEPT ![p] = 0]
  /\ epoch' = [epoch EXCEPT ![p] = IF cache[p] = Empty THEN @ ELSE @ + 1]

(* vectorize_query begins; vectorize_document takes the first snapshot.    *)
StartQuery(t) ==
  /\ t \in Reader /\ pc[t] = "idle"
  /\ Goto(t, "check")
  /\ since' = [since EXCEPT ![t] = returned[P(t)]]
  /\ UNCHANGED <<shared, connLock, cacheLock, conn, caches, kind, fetched, snap, wrote,
                 returned>>

(* _refresh_cache_if_expired: the look without the lock, and the second    *)
(* one with it.                                                            *)
Check(t) ==
  /\ pc[t] = "check"
  /\ Goto(t, IF Expired(P(t)) THEN "clear" ELSE "get")
  /\ UNCHANGED <<shared, connLock, cacheLock, conn, caches, returned, locals>>

Refresh(t) ==
  /\ pc[t] = "clear"
  /\ cacheLock[P(t)] = None
  /\ IF Expired(P(t)) THEN ClearCaches(P(t)) ELSE UNCHANGED caches
  /\ Goto(t, "get")
  /\ UNCHANGED <<shared, connLock, cacheLock, conn, returned, locals>>

\* The next getter of vectorize_query, or what follows the three.
AfterGetter(t) ==
  /\ Goto(t, IF kind[t] = "total" THEN "fuzzy" ELSE "check")
  /\ kind' = [kind EXCEPT ![t] = IF @ = "vocab" THEN "freq" ELSE "total"]

\* Mutant of UseCache: the cache is not looked at again under the lock.
UseCacheUnseen(t) ==
  /\ pc[t] = "get"
  /\ cacheLock[P(t)] = None
  /\ snap' = [snap EXCEPT ![t][kind[t]] = cache[P(t)][kind[t]]]
  /\ AfterGetter(t)
  /\ UNCHANGED <<shared, connLock, cacheLock, conn, caches, fetched, wrote, returned, since>>

(* _get_vocab, _get_doc_freq and total_docs under _cache_lock.             *)
UseCache(t) ==
  /\ pc[t] = "get"
  /\ cacheLock[P(t)] = None
  /\ cache[P(t)][kind[t]] # None
  /\ snap' = [snap EXCEPT ![t][kind[t]] = cache[P(t)][kind[t]]]
  /\ AfterGetter(t)
  /\ UNCHANGED <<shared, connLock, cacheLock, conn, caches, fetched, wrote, returned, since>>

StartFill(t) ==
  /\ pc[t] = "get"
  /\ cacheLock[P(t)] = None
  /\ cache[P(t)][kind[t]] = None
  /\ cacheLock' = [cacheLock EXCEPT ![P(t)] = t]
  /\ Goto(t, "connect")
  /\ UNCHANGED <<shared, connLock, conn, caches, returned, locals>>

(* _get_conn: a thread without a healthy connection opens one under        *)
(* _conn_lock.                                                             *)
Connect(t) ==
  /\ pc[t] \in {"connect", "open"}
  /\ t \in conn \/ connLock[P(t)] = None
  /\ conn' = conn \cup {t}
  /\ Goto(t, IF pc[t] = "connect" THEN "read" ELSE "begin")
  /\ UNCHANGED <<shared, connLock, cacheLock, caches, returned, locals>>

(* The SELECT; a commit that follows is not in its result.                 *)
Read(t) ==
  /\ pc[t] = "read"
  /\ t \in conn
  /\ fetched' = [fetched EXCEPT ![t] = revision]
  /\ Goto(t, "publish")
  /\ UNCHANGED <<shared, connLock, cacheLock, conn, caches, kind, snap, wrote, returned,
                 since>>

\* Mutant of Publish: every fill renews the stamp.
PublishStamping(t) ==
  /\ pc[t] = "publish"
  /\ LET new == [rev |-> fetched[t], epoch |-> epoch[P(t)]]
     IN /\ cache' = [cache EXCEPT ![P(t)][kind[t]] = new]
        /\ snap' = [snap EXCEPT ![t][kind[t]] = new]
  /\ stamp' = [stamp EXCEPT ![P(t)] = now]
  /\ cacheLock' = [cacheLock EXCEPT ![P(t)] = None]
  /\ AfterGetter(t)
  /\ UNCHANGED <<shared, connLock, conn, fuzzy, epoch, fetched, wrote, returned, since>>

Publish(t) ==
  /\ pc[t] = "publish"
  /\ LET new == [rev |-> fetched[t], epoch |-> epoch[P(t)]]
     IN /\ cache' = [cache EXCEPT ![P(t)][kind[t]] = new]
        /\ snap' = [snap EXCEPT ![t][kind[t]] = new]
  /\ stamp' = [stamp EXCEPT ![P(t)] = IF @ = 0 THEN now ELSE @]
  /\ cacheLock' = [cacheLock EXCEPT ![P(t)] = None]
  /\ AfterGetter(t)
  /\ UNCHANGED <<shared, connLock, conn, fuzzy, epoch, fetched, wrote, returned, since>>

\* Opening the database or reading it fails.
ReadError(t) ==
  /\ pc[t] \in {"connect", "read"}
  /\ cacheLock' = [cacheLock EXCEPT ![P(t)] = None]
  /\ Leave(t)
  /\ UNCHANGED <<shared, connLock, conn, caches, returned>>

\* Mutant of Fuzzy: the index is published whatever the caches hold by now.
FuzzyAnyway(t) ==
  /\ pc[t] = "fuzzy"
  /\ cacheLock[P(t)] = None
  /\ fuzzy' = [fuzzy EXCEPT ![P(t)] = [k \in {"vocab", "freq"} |-> snap[t][k]]]
  /\ Leave(t)
  /\ UNCHANGED <<shared, connLock, cacheLock, conn, cache, stamp, epoch, returned>>

(* _fuzzy_candidates: the cached index of these two snapshots, or a new    *)
(* one that is published while they are the current ones.                  *)
Fuzzy(t) ==
  /\ pc[t] = "fuzzy"
  /\ cacheLock[P(t)] = None
  /\ fuzzy' = IF /\ cache[P(t)]["vocab"] = snap[t]["vocab"]
                 /\ cache[P(t)]["freq"] = snap[t]["freq"]
                THEN [fuzzy EXCEPT ![P(t)] = [k \in {"vocab", "freq"} |-> snap[t][k]]]
                ELSE fuzzy
  /\ Leave(t)
  /\ UNCHANGED <<shared, connLock, cacheLock, conn, cache, stamp, epoch, returned>>

\* vectorize_query knows every token, and vectorize_document needs no more.
Return(t) ==
  /\ pc[t] = "fuzzy" \/ (pc[t] = "check" /\ kind[t] = "freq")
  /\ Leave(t)
  /\ UNCHANGED <<shared, connLock, cacheLock, conn, caches, returned>>

-----------------------------------------------------------------------------
(* file_lock; a call that gets its TimeoutError instead has done nothing.  *)
StartWrite(t) ==
  /\ t \in Writer /\ pc[t] = "idle" /\ revision < MaxRevision
  /\ fileLock = None
  /\ fileLock' = t
  /\ Goto(t, "open")
  /\ UNCHANGED <<revision, now, committedAt, connLock, cacheLock, conn, caches, returned,
                 locals>>

(* `with self._conn_lock`, BEGIN IMMEDIATE.                                *)
Begin(t) ==
  /\ pc[t] = "begin"
  /\ connLock[P(t)] = None
  /\ connLock' = [connLock EXCEPT ![P(t)] = t]
  /\ Goto(t, "commit")
  /\ UNCHANGED <<shared, cacheLock, conn, caches, returned, locals>>

\* Mutant of Commit: the caches are dropped inside `with self._conn_lock`.
CommitDropping(t) ==
  /\ pc[t] = "commit"
  /\ t \in conn
  /\ cacheLock[P(t)] = None
  /\ revision' = revision + 1
  /\ committedAt' = [committedAt EXCEPT ![revision + 1] = now]
  /\ ClearCaches(P(t))
  /\ returned' = [returned EXCEPT ![P(t)] = Later(@, revision + 1)]
  /\ connLock' = [connLock EXCEPT ![P(t)] = None]
  /\ fileLock' = None
  /\ Leave(t)
  /\ UNCHANGED <<now, cacheLock, conn>>

(* The transaction is committed; _conn_lock and then file_lock are         *)
(* released.                                                               *)
Commit(t) ==
  /\ pc[t] = "commit"
  /\ t \in conn
  /\ revision' = revision + 1
  /\ committedAt' = [committedAt EXCEPT ![revision + 1] = now]
  /\ wrote' = [wrote EXCEPT ![t] = revision + 1]
  /\ connLock' = [connLock EXCEPT ![P(t)] = None]
  /\ fileLock' = None
  /\ Goto(t, "invalidate")
  /\ UNCHANGED <<now, cacheLock, conn, caches, kind, fetched, snap, returned, since>>

(* A statement fails and is rolled back, or the connection was closed.     *)
Rollback(t) ==
  /\ pc[t] = "commit"
  /\ connLock' = [connLock EXCEPT ![P(t)] = None]
  /\ fileLock' = None
  /\ Leave(t)
  /\ UNCHANGED <<revision, now, committedAt, cacheLock, conn, caches, returned>>

\* The database cannot be opened.
OpenError(t) ==
  /\ pc[t] = "open"
  /\ fileLock' = None
  /\ Leave(t)
  /\ UNCHANGED <<revision, now, committedAt, connLock, cacheLock, conn, caches, returned>>

\* Mutant of Invalidate: without _cache_lock.
InvalidateAtOnce(t) ==
  /\ pc[t] = "invalidate"
  /\ ClearCaches(P(t))
  /\ returned' = [returned EXCEPT ![P(t)] = Later(@, wrote[t])]
  /\ Leave(t)
  /\ UNCHANGED <<shared, connLock, cacheLock, conn>>

(* _invalidate_cache, and the call returns.                                *)
Invalidate(t) ==
  /\ pc[t] = "invalidate"
  /\ cacheLock[P(t)] = None
  /\ ClearCaches(P(t))
  /\ returned' = [returned EXCEPT ![P(t)] = Later(@, wrote[t])]
  /\ Leave(t)
  /\ UNCHANGED <<shared, connLock, cacheLock, conn>>

-----------------------------------------------------------------------------
(* close() in another thread.                                              *)
Close(p) ==
  /\ connLock[p] = None
  /\ conn' = {t \in conn : P(t) # p}
  /\ UNCHANGED <<shared, connLock, cacheLock, caches, pc, returned, locals>>

(* A process is killed, and started again with empty caches.               *)
Restart(p) ==
  LET Dies(t) == P(t) = p
  IN /\ fileLock' = IF fileLock \in Thread /\ Dies(fileLock) THEN None ELSE fileLock
     /\ connLock' = [connLock EXCEPT ![p] = None]
     /\ cacheLock' = [cacheLock EXCEPT ![p] = None]
     /\ conn' = {t \in conn : ~Dies(t)}
     /\ cache' = [cache EXCEPT ![p] = Empty]
     /\ fuzzy' = [fuzzy EXCEPT ![p] = None]
     /\ stamp' = [stamp EXCEPT ![p] = 0]
     /\ epoch' = [epoch EXCEPT ![p] = 0]
     /\ pc' = [t \in Thread |-> IF Dies(t) THEN "idle" ELSE pc[t]]
     /\ kind' = [t \in Thread |-> IF Dies(t) THEN "vocab" ELSE kind[t]]
     /\ fetched' = [t \in Thread |-> IF Dies(t) THEN 0 ELSE fetched[t]]
     /\ snap' = [t \in Thread |-> IF Dies(t) THEN Empty ELSE snap[t]]
     /\ wrote' = [t \in Thread |-> IF Dies(t) THEN 0 ELSE wrote[t]]
     /\ since' = [t \in Thread |-> IF Dies(t) THEN 0 ELSE since[t]]
     /\ UNCHANGED <<revision, now, committedAt, returned>>

(* A unit of the clock is longer than a read of the tables.                *)
Tick ==
  /\ now < MaxTime
  /\ \A t \in Thread : pc[t] # "publish"
  /\ now' = now + 1
  /\ UNCHANGED <<revision, committedAt, fileLock, connLock, cacheLock, conn, caches, pc,
                 returned, locals>>

-----------------------------------------------------------------------------
Getter(t) ==
  \/ Check(t) \/ Refresh(t) \/ UseCache(t) \/ StartFill(t) \/ Connect(t) \/ Read(t)
  \/ Publish(t) \/ Fuzzy(t) \/ Return(t)

Write(t) == Begin(t) \/ Commit(t) \/ Invalidate(t)

Failure(t) == ReadError(t) \/ Rollback(t) \/ OpenError(t)

Next ==
  \/ \E t \in Thread : StartQuery(t) \/ StartWrite(t) \/ Getter(t) \/ Write(t) \/ Failure(t)
  \/ \E p \in Proc : Close(p) \/ Restart(p)
  \/ Tick

Spec == Init /\ [][Next]_vars

(* Threads run, and a statement on a connection that was closed fails.  A  *)
(* thread that waits for a lock gets it in the end although others take it *)
(* again and again.  Nobody has to call, fail, close or die.               *)
ClosedUnder(t) == t \notin conn /\ pc[t] \in {"read", "commit"} /\ Failure(t)

LockStep(t) ==
  \/ Refresh(t) \/ UseCache(t) \/ StartFill(t) \/ Connect(t) \/ Fuzzy(t)
  \/ Begin(t) \/ Invalidate(t)

FairSpec == Spec /\ \A t \in Thread : /\ WF_vars(Getter(t) \/ Write(t) \/ ClosedUnder(t))
                                      /\ SF_vars(LockStep(t))

-----------------------------------------------------------------------------
TypeOK ==
  /\ revision \in 0 .. MaxRevision /\ now \in Nat \ {0}
  /\ committedAt \in [1 .. MaxRevision -> Nat]
  /\ fileLock \in Thread \cup {None}
  /\ connLock \in [Proc -> Thread \cup {None}]
  /\ cacheLock \in [Proc -> Thread \cup {None}]
  /\ conn \subseteq Thread
  /\ cache \in [Proc -> [Kind -> Snapshot \cup {None}]]
  /\ fuzzy \in [Proc -> [{"vocab", "freq"} -> Snapshot] \cup {None}]
  /\ stamp \in [Proc -> Nat]
  /\ epoch \in [Proc -> Nat]
  /\ pc \in [Thread -> {"idle"} \cup Reading \cup Writing]
  /\ kind \in [Thread -> Kind]
  /\ fetched \in [Thread -> 0 .. MaxRevision]
  /\ snap \in [Thread -> [Kind -> Snapshot \cup {None}]]
  /\ wrote \in [Thread -> 0 .. MaxRevision]
  /\ returned \in [Proc -> 0 .. MaxRevision]
  /\ since \in [Thread -> 0 .. MaxRevision]

(* A query sees every registration that had returned in its process before *)
(* it began: no read from before the commit is published after the writer  *)
(* has dropped the caches.                                                 *)
WritesAreSeen ==
  \A t \in Thread, k \in Kind : snap[t][k] # None => snap[t][k].rev >= since[t]

(* What another process has committed is seen within the TTL: caches that  *)
(* count as fresh hold nothing that was superseded longer ago.             *)
SeenWithinTtl ==
  \A p \in Proc, k \in Kind :
    LET c == cache[p][k]
    IN c # None /\ ~Expired(p) =>
         c.rev = revision \/ (c.rev < revision /\ now <= committedAt[c.rev + 1] + Ttl)

(* "It is cleared with them and never outlives or mixes snapshots": the    *)
(* published fuzzy index belongs to the two snapshots in the caches.       *)
FuzzyIsCurrent ==
  \A p \in Proc : fuzzy[p] # None =>
    \A k \in {"vocab", "freq"} : fuzzy[p][k] = cache[p][k]

(* Every query and every registration ends: the three locks are taken in   *)
(* an order in which nobody waits for himself.                             *)
EveryCallEnds == \A t \in Thread : pc[t] # "idle" ~> pc[t] = "idle"

(* Caches hold snapshots, and the fuzzy index is made of those beside it.  *)
CachesAreSound == TypeOK /\ FuzzyIsCurrent

-----------------------------------------------------------------------------
(* The strengthening that makes the safety properties inductive.           *)
Filling == {"connect", "read", "publish"}

\* A fill has _cache_lock and an empty cache to publish in.
FillInv ==
  /\ \A t \in Thread : pc[t] \in Filling <=> cacheLock[P(t)] = t
  /\ \A t \in Thread : pc[t] \in Filling => cache[P(t)][kind[t]] = None
  /\ \A p \in Proc : cacheLock[p] # None => P(cacheLock[p]) = p
  /\ \A p \in Proc, k \in Kind : cache[p][k] # None => stamp[p] # 0

\* A writer has the lock file until it commits, and a revision left to make.
FileInv ==
  \A t \in Thread : pc[t] \in {"open", "begin", "commit"} =>
    fileLock = t /\ revision < MaxRevision

\* A query has the snapshots of the getters that it has passed; none is left
\* from an earlier one.
LocalInv ==
  \A t \in Thread :
    /\ pc[t] = "idle" => \A k \in Kind : snap[t][k] = None
    /\ kind[t] # "vocab" => snap[t]["vocab"] # None
    /\ kind[t] = "total" => snap[t]["freq"] # None
    /\ pc[t] = "fuzzy" => kind[t] = "total"

\* Nothing that a process keeps or is about to keep is from before a call
\* that returned.
SeenInv ==
  /\ \A p \in Proc : returned[p] <= revision
  /\ \A p \in Proc, k \in Kind : cache[p][k] # None =>
       returned[p] <= cache[p][k].rev /\ cache[p][k].rev <= revision
  /\ \A t \in Thread : wrote[t] <= revision /\ since[t] <= returned[P(t)]
  /\ \A t \in Thread : pc[t] = "publish" =>
       returned[P(t)] <= fetched[t] /\ fetched[t] <= revision

\* What a cache holds was current when the stamp was set, or later.
AgeInv ==
  /\ \A p \in Proc : stamp[p] <= now
  /\ \A p \in Proc, k \in Kind : cache[p][k] # None /\ cache[p][k].rev < revision =>
       stamp[p] <= committedAt[cache[p][k].rev + 1]
  /\ \A t \in Thread : pc[t] = "publish" /\ fetched[t] < revision =>
       committedAt[fetched[t] + 1] = now

IInv == /\ TypeOK /\ FillInv /\ FileInv /\ LocalInv /\ SeenInv /\ AgeInv
        /\ WritesAreSeen /\ FuzzyIsCurrent
=============================================================================
