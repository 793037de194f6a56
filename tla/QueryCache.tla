----------------------------- MODULE QueryCache ------------------------------
(***************************************************************************)
(* embed_single_cached and resolve_identity of EmbeddingClient             *)
(* (embeddings/client.py): queries are answered from a cache in memory,    *)
(* whose keys name the dimension that the first response of the service    *)
(* tells; one asyncio.Lock keeps them from asking twice. Another one       *)
(* guards the probe that fixes the identity of the client.                 *)
(***************************************************************************)
EXTENDS Naturals, Sequences, FiniteSets, SequencesExt

CONSTANTS Task, Text,
          LoopOf,     \* the event loop of each task: a function
          MaxSize,    \* _cache_max_size
          MaxFaults,  \* bound: requests that fail, and waits that are cancelled
          Dim,        \* the dimension of the service; the client starts with 0
          None

QueryAssumption == MaxSize \in Nat \ {0} /\ None \notin Task /\ None \notin Text

VARIABLES
  dim,
  cache,     \* _query_cache: [text, dim], the oldest first
  lock, waiters,
  bound,     \* the loop that _cache_lock is bound to since a task had to wait
  task,
  identity, probing,  \* the dimension of the identity; the holder of _identity_lock
  faults,
  raised     \* history: tasks to which the lock raised RuntimeError

vars == <<dim, cache, lock, waiters, bound, task, identity, probing, faults, raised>>

Idle == [at |-> "idle", text |-> None, key |-> None]
Key(x) == [text |-> x, dim |-> dim]
Cached(x) == Key(x) \in Range(cache)

Init ==
  /\ dim = 0 /\ cache = <<>> /\ lock = None /\ waiters = <<>> /\ bound = None
  /\ task = [t \in Task |-> Idle] /\ identity = None /\ probing = None
  /\ faults = 0 /\ raised = {}

-----------------------------------------------------------------------------
Identity == <<identity, probing>>

\* The lock goes to the task that has waited longest.
Release(t) ==
  /\ lock' = IF waiters = <<>> THEN None ELSE Head(waiters)
  /\ waiters' = IF waiters = <<>> THEN <<>> ELSE Tail(waiters)
  /\ task' = [u \in Task |-> IF u = t THEN Idle
                             ELSE IF u = lock' THEN [task[u] EXCEPT !.at = "locked"]
                             ELSE task[u]]

\* A text that is not cached takes the lock. A task that has to wait binds the lock
\* to its loop, and is refused by a lock of another loop.
Query(t, x) ==
  /\ task[t] = Idle /\ ~Cached(x)
  /\ UNCHANGED <<dim, cache, faults, Identity>>
  /\ IF lock = None
     THEN /\ lock' = t /\ task' = [task EXCEPT ![t] = [at |-> "locked", text |-> x, key |-> None]]
          /\ UNCHANGED <<waiters, bound, raised>>
     ELSE IF bound \in {None, LoopOf[t]}
     THEN /\ bound' = LoopOf[t] /\ waiters' = Append(waiters, t)
          /\ task' = [task EXCEPT ![t] = [at |-> "waiting", text |-> x, key |-> None]]
          /\ UNCHANGED <<lock, raised>>
     ELSE raised' = raised \cup {t} /\ UNCHANGED <<lock, waiters, bound, task>>

\* Mutant of Recheck: the cache is not looked at again.
RecheckNothing(t) ==
  /\ task[t].at = "locked"
  /\ task' = [task EXCEPT ![t].at = "fetching", ![t].key = Key(task[t].text)]
  /\ UNCHANGED <<dim, cache, lock, waiters, bound, Identity, faults, raised>>

\* The cache is looked at again under the lock, with the dimension of now.
Recheck(t) ==
  /\ task[t].at = "locked"
  /\ IF Cached(task[t].text) THEN Release(t)
     ELSE /\ task' = [task EXCEPT ![t].at = "fetching", ![t].key = Key(task[t].text)]
          /\ UNCHANGED <<lock, waiters>>
  /\ UNCHANGED <<dim, cache, bound, Identity, faults, raised>>

\* Mutant of Fetched: the key is the one of before the request.
FetchedUnderOldKey(t) ==
  /\ task[t].at = "fetching" /\ dim' = Dim
  /\ cache' = Append(IF Len(cache) >= MaxSize THEN Tail(cache) ELSE cache, task[t].key)
  /\ Release(t) /\ UNCHANGED <<bound, Identity, faults, raised>>

\* Mutant of Fetched: the cache is full one entry later.
FetchedIntoFull(t) ==
  /\ task[t].at = "fetching" /\ dim' = Dim
  /\ cache' = Append(IF Len(cache) > MaxSize THEN Tail(cache) ELSE cache,
                     [text |-> task[t].text, dim |-> dim'])
  /\ Release(t) /\ UNCHANGED <<bound, Identity, faults, raised>>

\* The vector is stored, by the dimension of now; the oldest one makes room.
Fetched(t) ==
  /\ task[t].at = "fetching" /\ dim' = Dim
  /\ cache' = Append(IF Len(cache) >= MaxSize THEN Tail(cache) ELSE cache,
                     [text |-> task[t].text, dim |-> dim'])
  /\ Release(t) /\ UNCHANGED <<bound, Identity, faults, raised>>

\* Mutant of Fails: the lock is kept.
FailsWithTheLock(t) ==
  /\ task[t].at \in {"fetching", "waiting"} /\ faults < MaxFaults /\ faults' = faults + 1
  /\ task' = [task EXCEPT ![t] = Idle] /\ waiters' = Remove(waiters, t)
  /\ UNCHANGED <<lock, dim, cache, bound, Identity, raised>>

\* The request fails, or the task is cancelled at it or in the queue.
Fails(t) ==
  /\ task[t].at \in {"fetching", "waiting"} /\ faults < MaxFaults /\ faults' = faults + 1
  /\ IF task[t].at = "fetching" THEN Release(t)
     ELSE /\ task' = [task EXCEPT ![t] = Idle] /\ UNCHANGED lock
          /\ \E i \in DOMAIN waiters : waiters[i] = t /\ waiters' = RemoveAt(waiters, i)
  /\ UNCHANGED <<dim, cache, bound, Identity, raised>>

-----------------------------------------------------------------------------
\* resolve_identity waits for the lock if there is no identity when it is had.
Probe(t) ==
  /\ task[t] = Idle /\ probing = None /\ identity = None
  /\ probing' = t /\ task' = [task EXCEPT ![t] = [Idle EXCEPT !.at = "probing"]]
  /\ UNCHANGED <<dim, cache, lock, waiters, bound, identity, faults, raised>>

Probed(t) ==
  /\ task[t].at = "probing" /\ dim' = Dim
  /\ identity' = dim' /\ probing' = None /\ task' = [task EXCEPT ![t] = Idle]
  /\ UNCHANGED <<cache, lock, waiters, bound, faults, raised>>

ProbeFails(t) ==
  /\ task[t].at = "probing" /\ faults < MaxFaults /\ faults' = faults + 1
  /\ probing' = None /\ task' = [task EXCEPT ![t] = Idle]
  /\ UNCHANGED <<dim, cache, lock, waiters, bound, identity, raised>>

GoOn(t) == Recheck(t) \/ Fetched(t) \/ Probed(t)

Next == \E t \in Task :
  GoOn(t) \/ Fails(t) \/ Probe(t) \/ ProbeFails(t) \/ \E x \in Text : Query(t, x)

\* Requests end: the client has a timeout.
Spec == Init /\ [][Next]_vars /\ \A t \in Task : WF_vars(GoOn(t))

-----------------------------------------------------------------------------
TypeOK ==
  /\ dim \in {0, Dim} /\ Len(cache) <= MaxSize
  /\ cache \in Seq([text : Text, dim : {0, Dim}])
  /\ lock \in Task \cup {None} /\ waiters \in Seq(Task)
  /\ task \in [Task -> [at : {"idle", "locked", "waiting", "fetching", "probing"},
                       text : Text \cup {None},
                       key : [text : Text, dim : {0, Dim}] \cup {None}]]
  /\ \A t \in Task : task[t].at \in {"locked", "fetching"} <=> lock = t
  /\ Range(waiters) = {t \in Task : task[t].at = "waiting"}
  /\ identity \in {None, 0, Dim}

(* "to prevent duplicate API calls": a text is not asked for while its     *)
(* vector is in the cache, under whichever key, and the cache has one      *)
(* vector of a text.                                                       *)
NoDuplicateCalls ==
  /\ \A t \in Task : task[t].at = "fetching" =>
       \A i \in DOMAIN cache : cache[i].text # task[t].text
  /\ \A i, j \in DOMAIN cache : cache[i].text = cache[j].text => i = j

(* What can never be found again is not kept, and an identity has the      *)
(* dimension that the service told: an index is never bound to dimension 0.*)
ResolvedDimension ==
  /\ \A i \in DOMAIN cache : cache[i].dim = dim
  /\ identity # None => identity = dim /\ dim = Dim

(* A text is not asked for while its vector is in the cache, and keys and  *)
(* identities have the dimension that the service told.                    *)
QueriesShareCalls == TypeOK /\ NoDuplicateCalls /\ ResolvedDimension

(* A query that waits is answered, or told of a failure, also if the one   *)
(* that it waits for fails or is cancelled.                                *)
QueriesEnd == \A t \in Task : lock # None /\ task[t].at # "idle" ~> task[t].at = "idle"

(* "Get or create cache lock for the current event loop": tasks of every   *)
(* loop can wait for the lock.                                             *)
LockServesEveryLoop == raised = {}

-----------------------------------------------------------------------------
(* The inductive invariant.                                                *)

\* Every task waits once, and whoever is at a text has one; what is stored was stored
\* when the dimension was known.
IInv ==
  /\ TypeOK /\ NoDuplicateCalls /\ ResolvedDimension
  /\ \A i, j \in DOMAIN waiters : waiters[i] = waiters[j] => i = j
  /\ \A t \in Task : task[t].at \in {"locked", "waiting", "fetching"} => task[t].text \in Text
  /\ cache # <<>> => dim = Dim
=============================================================================
