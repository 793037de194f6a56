----------------------------- MODULE UpsertBatch -----------------------------
(***************************************************************************)
(* QdrantStorage.upsert_batch (storage/qdrant.py): the batches of a call   *)
(* are sent by tasks of their own that a semaphore limits, each with its   *)
(* retries, and under one timeout. Calls are made as the documentation of  *)
(* the migration has it: under the lock of the collection.                 *)
(***************************************************************************)
EXTENDS Naturals, FiniteSets

CONSTANTS Call, Batches, Concurrency, MaxRetries, None

UpsertAssumption ==
  /\ Batches \in Nat \ {0} /\ Concurrency \in Nat \ {0} /\ MaxRetries \in Nat \ {0}
  /\ None \notin Call

VARIABLES
  lock,    \* the call that is made under the lock
  call,    \* how each call stands
  task,    \* how the task of each batch stands; an orphan is a request without a task
  tries,   \* the attempts of each task that failed
  stored,  \* the call whose points are stored, for each batch: calls write the same points
  last     \* history: the call that began last

vars == <<lock, call, task, tries, stored, last>>

Batch == 1 .. Batches
InSemaphore == {"sending", "sleeping"}

Init ==
  /\ lock = None /\ last = None
  /\ call = [c \in Call |-> "idle"]
  /\ task = [c \in Call |-> [b \in Batch |-> "none"]]
  /\ tries = [c \in Call |-> [b \in Batch |-> 0]]
  /\ stored = [b \in Batch |-> None]

-----------------------------------------------------------------------------
Goto(c, b, s) == task' = [task EXCEPT ![c][b] = s]

\* The call returns or raises, and its caller gives the lock up.
End(c, how) == call' = [call EXCEPT ![c] = how] /\ lock' = None

Begin(c) ==
  /\ call[c] = "idle" /\ lock = None
  /\ lock' = c /\ last' = c
  /\ call' = [call EXCEPT ![c] = "running"]
  /\ task' = [task EXCEPT ![c] = [b \in Batch |-> "queued"]]
  /\ UNCHANGED <<tries, stored>>

\* Mutant of Start: the semaphore lets one more in.
StartOneMore(c, b) ==
  /\ task[c][b] = "queued" /\ \A d \in 1 .. b - 1 : task[c][d] # "queued"
  /\ Cardinality({d \in Batch : task[c][d] \in InSemaphore}) <= Concurrency
  /\ Goto(c, b, "sending") /\ UNCHANGED <<lock, call, tries, stored, last>>

\* The semaphore is had in the order of the batches, and kept while the task sleeps.
Start(c, b) ==
  /\ task[c][b] = "queued" /\ \A d \in 1 .. b - 1 : task[c][d] # "queued"
  /\ Cardinality({d \in Batch : task[c][d] \in InSemaphore}) < Concurrency
  /\ Goto(c, b, "sending") /\ UNCHANGED <<lock, call, tries, stored, last>>

Succeed(c, b) ==
  /\ task[c][b] = "sending" /\ Goto(c, b, "done")
  /\ stored' = [stored EXCEPT ![b] = c]
  /\ UNCHANGED <<lock, call, tries, last>>

\* Mutant of Lose: the last error is not raised.
LoseSilently(c, b) ==
  /\ task[c][b] = "sending"
  /\ stored' \in {stored, [stored EXCEPT ![b] = c]}
  /\ tries' = [tries EXCEPT ![c][b] = @ + 1]
  /\ Goto(c, b, IF tries'[c][b] < MaxRetries THEN "sleeping" ELSE "done")
  /\ UNCHANGED <<lock, call, last>>

\* Mutant of Lose: the attempts are not counted.
LoseForever(c, b) ==
  /\ task[c][b] = "sending"
  /\ stored' \in {stored, [stored EXCEPT ![b] = c]}
  /\ Goto(c, b, "sleeping") /\ UNCHANGED <<lock, call, tries, last>>

\* The request fails, or its answer is lost. After the last attempt gather raises the
\* error, and the tasks of the other batches go on.
Lose(c, b) ==
  /\ task[c][b] = "sending"
  /\ stored' \in {stored, [stored EXCEPT ![b] = c]}
  /\ tries' = [tries EXCEPT ![c][b] = @ + 1]
  /\ IF tries'[c][b] < MaxRetries
     THEN Goto(c, b, "sleeping") /\ UNCHANGED <<lock, call>>
     ELSE /\ Goto(c, b, "dead")
          /\ IF call[c] = "running" THEN End(c, "failed") ELSE UNCHANGED <<lock, call>>
  /\ UNCHANGED last

Wake(c, b) ==
  /\ task[c][b] = "sleeping" /\ Goto(c, b, "sending")
  /\ UNCHANGED <<lock, call, tries, stored, last>>

\* Mutant of Finish: the first batch that is done ends the call.
FinishFirst(c) ==
  /\ call[c] = "running" /\ \E b \in Batch : task[c][b] = "done"
  /\ End(c, "ok") /\ UNCHANGED <<task, tries, stored, last>>

Finish(c) ==
  /\ call[c] = "running" /\ \A b \in Batch : task[c][b] = "done"
  /\ End(c, "ok") /\ UNCHANGED <<task, tries, stored, last>>

\* Mutant of TimeOut: the tasks are not cancelled.
TimeOutAlone(c) ==
  /\ call[c] = "running" /\ End(c, "timeout")
  /\ UNCHANGED <<task, tries, stored, last>>

\* The timeout cancels gather and the tasks with it. A request that was sent may
\* yet be carried out.
TimeOut(c) ==
  /\ call[c] = "running" /\ End(c, "timeout")
  /\ task' = [task EXCEPT ![c] = [b \in Batch |->
       CASE @[b] = "done" -> "done" [] @[b] = "sending" -> "orphan" [] OTHER -> "dead"]]
  /\ UNCHANGED <<tries, stored, last>>

Land(c, b) ==
  /\ task[c][b] = "orphan" /\ Goto(c, b, "dead")
  /\ stored' = [stored EXCEPT ![b] = c]
  /\ UNCHANGED <<lock, call, tries, last>>

Step(c) ==
  \/ Finish(c)
  \/ \E b \in Batch : Start(c, b) \/ Succeed(c, b) \/ Lose(c, b) \/ Wake(c, b)

Next == \E c \in Call :
  Begin(c) \/ Step(c) \/ TimeOut(c) \/ \E b \in Batch : Land(c, b)

\* A task that can go on goes on: requests end, and sleeps do.
Spec == Init /\ [][Next]_vars /\ \A c \in Call : WF_vars(Step(c))

-----------------------------------------------------------------------------
Inside(c) == {b \in Batch : task[c][b] \in InSemaphore}

TypeOK ==
  /\ lock \in Call \cup {None} /\ last \in Call \cup {None}
  /\ call \in [Call -> {"idle", "running", "ok", "failed", "timeout"}]
  /\ \A c \in Call : call[c] = "running" <=> lock = c
  /\ task \in [Call -> [Batch -> InSemaphore \cup {"none", "queued", "done", "orphan", "dead"}]]
  /\ tries \in [Call -> [Batch -> 0 .. MaxRetries]]
  /\ \A c \in Call : Cardinality(Inside(c)) <= Concurrency
  /\ stored \in [Batch -> Call \cup {None}]

(* A call returns without an error only if each of its batches was stored, *)
(* and unless a call raises, what is stored is what the last call wrote:   *)
(* lost answers and retries do not bring older points back.                *)
LastCallWins ==
  /\ \A c \in Call : call[c] = "ok" => \A b \in Batch : task[c][b] = "done"
  /\ lock = None /\ (\A c \in Call : call[c] \in {"idle", "ok"}) =>
       \A b \in Batch : stored[b] = last

(* When a call has timed out nothing of it is sent any more.               *)
TimeoutStops ==
  \A c \in Call : call[c] = "timeout" =>
    \A b \in Batch : task[c][b] \notin InSemaphore \cup {"queued"}

(* A call ends, even if every request fails and no timeout is reached.     *)
CallsEnd == \A c \in Call : call[c] = "running" ~> call[c] # "running"

(* "Hold the operation lock through all source mutations and vector        *)
(* writes": what is sent is sent by the call that is under the lock.       *)
SentUnderLock == \A c \in Call, b \in Batch : task[c][b] = "sending" => lock = c

-----------------------------------------------------------------------------
(* The inductive invariant.                                                *)

\* As long as no call has raised, only the one under the lock has something to send,
\* and what is stored is of the last call: all of it, or what is done so far.
Undisturbed ==
  /\ lock = None => \A b \in Batch : stored[b] = last
  /\ \A c \in Call :
       /\ lock = c => last = c /\ \A b \in Batch : task[c][b] = "done" => stored[b] = c
       /\ lock # c => \A b \in Batch : task[c][b] \in {"none", "done"}

IInv ==
  /\ TypeOK
  /\ \A c \in Call :
       /\ call[c] = "ok" => \A b \in Batch : task[c][b] = "done"
       /\ call[c] = "idle" => \A b \in Batch : task[c][b] = "none"
       /\ \A b \in Batch : task[c][b] \notin {"done", "orphan", "dead"} => tries[c][b] < MaxRetries
       /\ call[c] = "timeout" =>
            \A b \in Batch : task[c][b] \notin InSemaphore \cup {"queued"}
  /\ (\A c \in Call : call[c] \notin {"failed", "timeout"}) => Undisturbed
=============================================================================
