------------------------------- MODULE MCCaches -------------------------------
(***************************************************************************)
(* The caches of a process and its singletons, for TLC: the vocabulary     *)
(* caches, the in-memory cache, and the two kinds of singletons. TLC looks *)
(* at one of them at a time: `part` says which one takes steps, and the    *)
(* others stay as they began.                                              *)
(***************************************************************************)
EXTENDS Caches, TLC

CONSTANTS p, q, r1, r2, w, x

VARIABLE part

vocabVars ==
  <<revision, now, committedAt, fileLock, connLock, cacheLock, conn, cache, fuzzy,
    stamp, epoch, pc, kind, fetched, snap, wrote, returned, since>>
cacheVars == <<data, clock, served, used, later>>
syncVars == <<instance, mutex, phase, seen, given, dropped>>
asyncVars == <<single, error, age, holder, stage, attempt, got, healthy, unclosed>>

\* Two queries and a writer in one process, a writer in another one.
Homes == [t \in Thread |-> IF t = x THEN q ELSE p]

\* Three tasks of one event loop. (The cache has three entries, and is full before an
\* old one expires; the threads are three, too.)
OneLoop == [t \in Task |-> 1]

ASSUME
  /\ Memory!TTLAssumption /\ Threads!SyncAssumption
  /\ Tasks!SingletonAssumption /\ Tasks!OneLoop

-----------------------------------------------------------------------------
PartInit ==
  /\ part \in {"writers", "late", "queries", "memory", "sync", "async"}
  /\ Init /\ Memory!Init /\ Threads!Init /\ Tasks!Init

\* Of the vocabulary caches there are three views: one query with the two writers,
\* for longer with the writer of the other process alone, and both queries, at a
\* standing clock and with one commit.
PartSpec ==
  /\ PartInit
  /\ [][ /\ UNCHANGED part
         /\ \/ /\ part \in {"writers", "late", "queries"}
               /\ Next
               /\ part = "writers" => pc'[r2] = "idle" /\ now' <= 2
               /\ part = "late" => pc'[r2] = "idle" /\ pc'[w] = "idle"
               /\ part = "queries" => pc'[x] = "idle" /\ revision' <= 1 /\ now' = now
               /\ UNCHANGED <<cacheVars, syncVars, asyncVars>>
            \/ part = "memory" /\ Memory!Next /\ UNCHANGED <<vocabVars, syncVars, asyncVars>>
            \/ part = "sync" /\ Threads!Next /\ UNCHANGED <<vocabVars, cacheVars, asyncVars>>
            \/ part = "async" /\ Tasks!Next /\ UNCHANGED <<vocabVars, cacheVars, syncVars>>
       ]_<<part, vocabVars, cacheVars, syncVars, asyncVars>>
=============================================================================
