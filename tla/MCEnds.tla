------------------------------- MODULE MCEnds --------------------------------
(***************************************************************************)
(* What must end, or come back, although others go on, for TLC: requests   *)
(* at a limiter, calls of a lock file, calls on the vocabulary caches, and *)
(* a singleton after its factory failed. TLC looks at one of them at a     *)
(* time: `part` says which one takes steps, and the others stay as they    *)
(* began.                                                                  *)
(***************************************************************************)
EXTENDS Naturals, TLC

CONSTANTS p1, p2, t1, t2, t3, i, j, k, None

VARIABLES
  part,
  alive, booting, unborn, pc, cursor, slotFd, claimFd, owner, memLock,
  slotLock, gateEx, gateSh, slotRefs, claimRefs, gateRefs, strayClose,
  life, fork, opens, registered, name, inode, refs, locked, call, acquired, cancelled,
  revision, now, committedAt, fileLock, connLock, cacheLock, conn, cache, fuzzy, stamp,
  epoch, thread, kind, fetched, snap, wrote, returned, since,
  instance, error, age, holder, step, attempt, got, healthy, open

limiterVars ==
  <<alive, booting, unborn, pc, cursor, slotFd, claimFd, owner, memLock,
    slotLock, gateEx, gateSh, slotRefs, claimRefs, gateRefs, strayClose>>
fileVars ==
  <<life, fork, opens, registered, name, inode, refs, locked, call, acquired, cancelled>>
cacheVars ==
  <<revision, now, committedAt, fileLock, connLock, cacheLock, conn, cache, fuzzy, stamp,
    epoch, thread, kind, fetched, snap, wrote, returned, since>>
singletonVars == <<instance, error, age, holder, step, attempt, got, healthy, open>>

Two == {p1, p2}
Pair == {t1, t2}

\* A query against two documents, one of them in the same process. In a stream
\* the documents are sent again and again.
Trio == {t1, t2, t3}
Home == t1 :> p1 @@ t2 :> p1 @@ t3 :> p2
Stream == INSTANCE Limiter
  WITH Proc <- Two, Started <- Two, Query <- {t1}, Document <- {t2, t3}, Repeating <- {t2, t3},
       HomeOf <- Home, Capacity <- 1, NoTask <- None
Once == INSTANCE Limiter
  WITH Proc <- Two, Started <- Two, Query <- {t1}, Document <- {t2, t3}, Repeating <- {},
       HomeOf <- Home, Capacity <- 1, NoTask <- None

\* Two calls of one process that forks, and may die; one can be cancelled.
Parent == [x \in Pair |-> p1]
File == INSTANCE FileLock
  WITH Proc <- Two, Task <- Pair, HomeOf <- Parent, Shared <- {}, Async <- {t1},
       First <- {p1}, MaxInode <- 1, pc <- call

\* A query and a writer in one process.
Cache == INSTANCE VocabCache
  WITH Proc <- {p1}, Thread <- Pair, ProcOf <- Parent, Reader <- {t1}, Writer <- {t2},
       Ttl <- 1, MaxRevision <- 1, MaxTime <- 2, pc <- thread

\* Two tasks of one event loop that come again.
Instances == {i, j, k}
OneLoop == [x \in Pair |-> 1]
Single == INSTANCE AsyncSingleton
  WITH Task <- Pair, LoopOf <- OneLoop, Instance <- Instances, MaxRetries <- 1, Delay <- 2,
       pc <- step

ASSUME File!FileLockAssumption /\ Single!SingletonAssumption

-----------------------------------------------------------------------------
PartInit ==
  /\ part \in {"stream", "once", "file", "cache", "singleton"}
  /\ Once!Init /\ File!Init /\ Cache!Init /\ Single!Init

allVars == <<part, limiterVars, fileVars, cacheVars, singletonVars>>
ByLimiter == UNCHANGED <<part, fileVars, cacheVars, singletonVars>>
ByFile == UNCHANGED <<part, limiterVars, cacheVars, singletonVars>>
ByCache == UNCHANGED <<part, limiterVars, fileVars, singletonVars>>
BySingleton == UNCHANGED <<part, limiterVars, fileVars, cacheVars>>

PartNext ==
  \/ part = "stream" /\ Stream!Next /\ ByLimiter
  \/ part = "once" /\ Once!Next /\ ByLimiter
  \/ part = "file" /\ File!Next /\ ByFile
  \/ part = "cache" /\ Cache!Next /\ ByCache
  \/ part = "singleton" /\ Single!Next /\ BySingleton

\* The fairness of each part. As `part` stays, fairness of a disjunction is that of
\* the disjunct that is enabled; TLC wants few of them.
Limited == [x \in Trio |-> <<Home[x], x>>]

Goes(x) ==
  \/ part = "stream" /\ Stream!TaskStep(Limited[x]) /\ ByLimiter
  \/ part = "once" /\ Once!TaskStep(Limited[x]) /\ ByLimiter
  \/ part = "file" /\ x \in Pair /\ File!Step(x) /\ ByFile
  \/ /\ part = "cache" /\ x \in Pair
     /\ (Cache!Getter(x) \/ Cache!Write(x) \/ Cache!ClosedUnder(x)) /\ ByCache
  \/ part = "singleton" /\ x \in Pair /\ Single!Step(x) /\ BySingleton

HasTurn(x) ==
  \/ part = "stream" /\ Stream!LockedStep(Limited[x]) /\ ByLimiter
  \/ part = "once" /\ Once!LockedStep(Limited[x]) /\ ByLimiter
  \/ part = "file" /\ x \in Pair /\ File!Timeout(x) /\ ByFile
  \/ part = "cache" /\ x \in Pair /\ Cache!LockStep(x) /\ ByCache
  \/ part = "singleton" /\ x \in Pair /\ Single!Enter(x) /\ BySingleton

EndsOrBegins(x) ==
  \/ part = "stream" /\ Stream!EndAttempt(Limited[x]) /\ ByLimiter
  \/ part = "once" /\ Once!EndAttempt(Limited[x]) /\ ByLimiter
  \/ part = "singleton" /\ x \in Pair /\ Single!Get(x) /\ BySingleton

InFile(A) == part = "file" /\ A /\ ByFile

PartFairness ==
  /\ \A x \in Trio :
       WF_allVars(Goes(x)) /\ SF_allVars(HasTurn(x)) /\ WF_allVars(EndsOrBegins(x))
  /\ \A x \in Two :
       /\ WF_allVars(InFile(File!OpensDone(x))) /\ WF_allVars(InFile(File!ForkFails(x)))
       /\ WF_allVars(InFile(\E y \in Two : File!Fork(x, y)))
       /\ WF_allVars(InFile(File!AfterForkChild(x)))
  /\ WF_allVars(part = "singleton" /\ Single!Tick /\ BySingleton)
  /\ \A x \in Pair : SF_allVars(part = "singleton" /\ Single!Made(x) /\ BySingleton)

PartSpec == PartInit /\ [][PartNext]_allVars /\ PartFairness

-----------------------------------------------------------------------------
(* A call on the vocabulary caches ends, whatever fails.                   *)
VocabCallsEnd == Cache!EveryCallEnds

(* A singleton comes back when its factory works again.                    *)
Recovers == part = "singleton" => Single!Recovers

(* The claim of a query at a limiter is answered however many documents    *)
(* keep polling, and every request that is made once is served or given up.*)
RequestsAreServed ==
  /\ part = "stream" => Stream!ClaimIsAnswered
  /\ part = "once" => Once!RequestsFinish

(* A call for a file lock ends, whoever forks or is cancelled, and a fork  *)
(* that waits for opens of lock files gets its turn.                       *)
LockCallsEnd == File!CallsEnd /\ File!ForksGoOn
=============================================================================
