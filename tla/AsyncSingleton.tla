--------------------------- MODULE AsyncSingleton ---------------------------
(***************************************************************************)
(* AsyncSingleton (utils/async_helpers.py): tasks of one or several event  *)
(* loops get an instance that a factory makes while they await, which may  *)
(* fail for a while; others close it.                                      *)
(*                                                                         *)
(* What is done under _lock is one step. The asyncio lock that surrounds   *)
(* the factory is one for each event loop. Time passes in ticks.           *)
(***************************************************************************)
EXTENDS Naturals, FiniteSets

CONSTANTS Task,
          LoopOf,       \* the event loop of each task
          Instance,     \* what factories make
          MaxRetries,   \* _max_retries
          Delay,        \* _recovery_delay, in ticks
          None

SingletonAssumption ==
  MaxRetries \in Nat /\ Delay \in Nat \ {0} /\ None \notin Task /\ None \notin Instance

VARIABLES
  instance,   \* _instance
  error,      \* _init_error is set
  age,        \* time since _error_timestamp, up to Delay
  holder,     \* the task that holds the asyncio lock of each loop
  pc, attempt,
  got,        \* what the last get of each task returned
  healthy,    \* factories succeed
  open        \* history: instances that were made and not given to a cleanup

vars == <<instance, error, age, holder, pc, attempt, got, healthy, open>>

Loop == {LoopOf[t] : t \in Task}

Init ==
  /\ instance = None /\ error = FALSE /\ age = 0
  /\ holder = [l \in Loop |-> None]
  /\ pc = [t \in Task |-> "idle"] /\ attempt = [t \in Task |-> 0]
  /\ got = [t \in Task |-> None] /\ healthy = TRUE /\ open = {}

-----------------------------------------------------------------------------
\* _should_retry_after_error
Cooled == age = Delay

\* get returns i, or raises if i is None, and gives the asyncio lock up.
Return(t, i) ==
  /\ pc' = [pc EXCEPT ![t] = "idle"] /\ attempt' = [attempt EXCEPT ![t] = 0]
  /\ got' = [got EXCEPT ![t] = i]
  /\ holder' = [l \in Loop |-> IF holder[l] = t THEN None ELSE holder[l]]

\* Mutant of FailFast: a get that fails puts the recovery off.
FailFastAgain(t) ==
  /\ error /\ ~Cooled /\ instance = None
  /\ Return(t, None) /\ age' = 0 /\ UNCHANGED <<instance, error, healthy, open>>

\* SingletonInitError: an earlier get has failed, not long ago.
FailFast(t) ==
  /\ error /\ ~Cooled /\ instance = None
  /\ Return(t, None) /\ UNCHANGED <<instance, error, age, healthy, open>>

\* The instance is there.
Found(t) ==
  /\ instance # None
  /\ Return(t, instance) /\ UNCHANGED <<instance, error, age, healthy, open>>

\* An error that is old enough is forgotten.
Forget == error' = FALSE /\ age' = 0

Get(t) ==
  /\ pc[t] = "idle"
  /\ \/ Found(t) \/ FailFast(t)
     \/ /\ instance = None /\ (error => Cooled)
        /\ Forget /\ pc' = [pc EXCEPT ![t] = "wait"]
        /\ got' = [got EXCEPT ![t] = None]
        /\ UNCHANGED <<instance, holder, attempt, healthy, open>>

\* Mutant of Enter: errors are not looked at again.
EnterRegardless(t) ==
  /\ pc[t] = "wait" /\ holder[LoopOf[t]] = None
  /\ \/ Found(t)
     \/ /\ instance = None
        /\ Forget /\ pc' = [pc EXCEPT ![t] = "make"]
        /\ holder' = [holder EXCEPT ![LoopOf[t]] = t]
        /\ UNCHANGED <<instance, attempt, got, healthy, open>>

\* Mutant of Enter: the instance is not looked at again.
EnterUnchecked(t) ==
  /\ pc[t] = "wait" /\ holder[LoopOf[t]] = None
  /\ Forget /\ pc' = [pc EXCEPT ![t] = "make"]
  /\ holder' = [holder EXCEPT ![LoopOf[t]] = t]
  /\ UNCHANGED <<instance, attempt, got, healthy, open>>

\* The asyncio lock of the loop is taken, and everything is looked at again.
Enter(t) ==
  /\ pc[t] = "wait" /\ holder[LoopOf[t]] = None
  /\ \/ Found(t) \/ FailFast(t)
     \/ /\ instance = None /\ (error => Cooled)
        /\ Forget /\ pc' = [pc EXCEPT ![t] = "make"]
        /\ holder' = [holder EXCEPT ![LoopOf[t]] = t]
        /\ UNCHANGED <<instance, attempt, got, healthy, open>>

\* The factory succeeds.
Made(t) ==
  /\ pc[t] = "make"
  /\ \E i \in Instance :
       /\ i \notin open \cup {got[u] : u \in Task}
       /\ instance' = i /\ open' = open \cup {i} /\ Return(t, i)
  /\ UNCHANGED <<error, age, healthy>>

\* A transient error, and retries are left.
Retry(t) ==
  /\ pc[t] = "make" /\ ~healthy /\ attempt[t] < MaxRetries
  /\ attempt' = [attempt EXCEPT ![t] = @ + 1]
  /\ UNCHANGED <<instance, error, age, holder, pc, got, healthy, open>>

\* Another error, or no retries left: it is recorded and raised.
Fail(t) ==
  /\ pc[t] = "make" /\ ~healthy
  /\ error' = TRUE /\ age' = 0
  /\ Return(t, None) /\ UNCHANGED <<instance, healthy, open>>

\* Mutant of Cancel: the lock is not given up.
CancelKeepsLock(t) ==
  /\ pc[t] \in {"wait", "make"}
  /\ pc' = [pc EXCEPT ![t] = "idle"] /\ attempt' = [attempt EXCEPT ![t] = 0]
  /\ UNCHANGED <<instance, error, age, holder, got, healthy, open>>

\* The task is cancelled while it awaits: nothing is recorded.
Cancel(t) ==
  /\ pc[t] \in {"wait", "make"}
  /\ Return(t, None) /\ UNCHANGED <<instance, error, age, healthy, open>>

\* close: the state is cleared under _lock, and the cleanup runs outside of it.
Close ==
  /\ instance # None
  /\ instance' = None /\ open' = open \ {instance} /\ Forget
  /\ UNCHANGED <<holder, pc, attempt, got, healthy>>

Tick ==
  /\ error /\ age < Delay /\ age' = age + 1
  /\ UNCHANGED <<instance, error, holder, pc, attempt, got, healthy, open>>

Switch ==
  /\ healthy' = ~healthy
  /\ UNCHANGED <<instance, error, age, holder, pc, attempt, got, open>>

Step(t) == Enter(t) \/ Made(t) \/ Retry(t) \/ Fail(t)

Next ==
  \/ \E t \in Task : Get(t) \/ Step(t) \/ Cancel(t)
  \/ Close \/ Tick \/ Switch

(* Time passes, factories end before all calls are cancelled, and asyncio  *)
(* locks are granted in turn; callers come again.                          *)
Fairness ==
  /\ WF_vars(Tick)
  /\ \A t \in Task : /\ WF_vars(Step(t)) /\ SF_vars(Enter(t)) /\ WF_vars(Get(t))
                     /\ SF_vars(Made(t))

Spec == Init /\ [][Next]_vars
FairSpec == Spec /\ Fairness

-----------------------------------------------------------------------------
TypeOK ==
  /\ instance \in Instance \cup {None} /\ error \in BOOLEAN /\ age \in 0 .. Delay
  /\ holder \in [Loop -> Task \cup {None}] /\ healthy \in BOOLEAN /\ open \subseteq Instance
  /\ pc \in [Task -> {"idle", "wait", "make"}] /\ attempt \in [Task -> 0 .. MaxRetries]
  /\ got \in [Task -> Instance \cup {None}]
  /\ \A t \in Task : holder[LoopOf[t]] = t <=> pc[t] = "make"
  /\ instance # None => instance \in open /\ ~error

(* "Thread-safe double-checked locking": there is one instance at most     *)
(* that no cleanup has been given, whoever gets, closes, fails and is      *)
(* cancelled.                                                              *)
OneInstance == Cardinality(open) <= 1

(* What a get returned is the instance, as long as it has not been closed. *)
SameInstance == \A t \in Task : got[t] \in open => got[t] = instance

(* "fails fast after first error": while an error is recent, no factory    *)
(* is started, not even for those who waited when it was made.             *)
FailsFast ==
  [][\A t \in Task : pc[t] # "make" /\ pc'[t] = "make" => (error => age = Delay)]_vars

(* All tasks of one event loop get the same instance until it is closed,   *)
(* at most one was made and not cleaned up, and while an error is recent   *)
(* no factory is started.                                                  *)
TasksShareOne == [](TypeOK /\ OneInstance /\ SameInstance) /\ FailsFast

(* When factories succeed again, an instance is had again and again, and   *)
(* earlier errors do not stand in the way.                                 *)
Recovers == <>[]healthy => []<>(instance # None)

-----------------------------------------------------------------------------
(* The inductive invariant.                                                *)

OneLoop == \A t, u \in Task : LoopOf[t] = LoopOf[u]

\* With one event loop, whoever calls the factory does so because there is no
\* instance and no recent error, and what was made and not cleaned up is the instance.
IInv ==
  /\ TypeOK
  /\ open = IF instance = None THEN {} ELSE {instance}
  /\ \A t \in Task : pc[t] = "make" => instance = None /\ ~error
=============================================================================
