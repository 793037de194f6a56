---------------------------- MODULE SyncSingleton ----------------------------
(***************************************************************************)
(* SyncSingleton (utils/sync_singleton.py): threads get an instance that a *)
(* factory makes under a lock, and find it without the lock afterwards;    *)
(* others reset it.                                                        *)
(***************************************************************************)
EXTENDS FiniteSets

CONSTANTS Thread, Instance, None

SyncAssumption == None \notin Thread /\ None \notin Instance

VARIABLES
  instance,   \* _instance
  lock,       \* the thread that holds _lock
  pc,
  seen,       \* what the fast path has read
  got,        \* what the last get of each thread returned
  dropped     \* history: instances that were reset

vars == <<instance, lock, pc, seen, got, dropped>>

Init ==
  /\ instance = None /\ lock = None
  /\ pc = [t \in Thread |-> "idle"] /\ seen = [t \in Thread |-> None]
  /\ got = [t \in Thread |-> None] /\ dropped = {}

-----------------------------------------------------------------------------
Goto(t, p) == pc' = [pc EXCEPT ![t] = p]

\* The fast path reads the instance once, without the lock.
Get(t) ==
  /\ pc[t] = "idle"
  /\ seen' = [seen EXCEPT ![t] = instance] /\ got' = [got EXCEPT ![t] = None]
  /\ Goto(t, IF instance = None THEN "wait" ELSE "found")
  /\ UNCHANGED <<instance, lock, dropped>>

\* Mutant of Found: the instance is read again to be returned.
FoundAgain(t) ==
  /\ pc[t] = "found" /\ Goto(t, "end")
  /\ got' = [got EXCEPT ![t] = instance] /\ UNCHANGED <<instance, lock, seen, dropped>>

Found(t) ==
  /\ pc[t] = "found" /\ Goto(t, "end")
  /\ got' = [got EXCEPT ![t] = seen[t]] /\ UNCHANGED <<instance, lock, seen, dropped>>

\* Mutant of Enter: the factory is called without a second look.
EnterUnchecked(t) ==
  /\ pc[t] = "wait" /\ lock = None
  /\ Goto(t, "make") /\ lock' = t
  /\ UNCHANGED <<instance, seen, got, dropped>>

\* The lock is taken, and the instance is looked at again.
Enter(t) ==
  /\ pc[t] = "wait" /\ lock = None
  /\ IF instance = None
     THEN Goto(t, "make") /\ lock' = t /\ UNCHANGED got
     ELSE Goto(t, "end") /\ got' = [got EXCEPT ![t] = instance] /\ UNCHANGED lock
  /\ UNCHANGED <<instance, seen, dropped>>

\* Mutant of Make: a factory that raises leaves the lock taken.
MakeKeepsLock(t) ==
  /\ pc[t] = "make"
  /\ \/ \E i \in Instance :
          /\ i \notin dropped \cup {instance} \cup {got[u] : u \in Thread}
          /\ instance' = i /\ got' = [got EXCEPT ![t] = i] /\ Goto(t, "end") /\ lock' = None
     \/ Goto(t, "idle") /\ UNCHANGED <<instance, got, lock>>
  /\ UNCHANGED <<seen, dropped>>

\* The factory makes an instance, which is returned, or raises.
Make(t) ==
  /\ pc[t] = "make" /\ lock' = None
  /\ \/ \E i \in Instance :
          /\ i \notin dropped \cup {instance} \cup {got[u] : u \in Thread}
          /\ instance' = i /\ got' = [got EXCEPT ![t] = i] /\ Goto(t, "end")
     \/ Goto(t, "idle") /\ UNCHANGED <<instance, got>>
  /\ UNCHANGED <<seen, dropped>>

\* The caller is done with what it got.
Done(t) ==
  /\ pc[t] = "end" /\ Goto(t, "idle")
  /\ got' = [got EXCEPT ![t] = None] /\ seen' = [seen EXCEPT ![t] = None]
  /\ dropped' = dropped \cap ({seen[u] : u \in Thread \ {t}} \cup {got[u] : u \in Thread \ {t}})
  /\ UNCHANGED <<instance, lock>>

\* reset, also by a thread that does not use the instance.
Reset ==
  /\ lock = None /\ instance # None
  /\ instance' = None /\ dropped' = dropped \cup {instance}
  /\ UNCHANGED <<lock, pc, seen, got>>

Next == (\E t \in Thread : Get(t) \/ Found(t) \/ Enter(t) \/ Make(t) \/ Done(t)) \/ Reset

Spec == Init /\ [][Next]_vars

-----------------------------------------------------------------------------
TypeOK ==
  /\ instance \in Instance \cup {None} /\ lock \in Thread \cup {None}
  /\ pc \in [Thread -> {"idle", "found", "wait", "make", "end"}]
  /\ seen \in [Thread -> Instance \cup {None}] /\ got \in [Thread -> Instance \cup {None}]
  /\ dropped \subseteq Instance
  /\ \A t \in Thread : lock = t <=> pc[t] = "make"
  /\ \A t \in Thread : got[t] # None => pc[t] = "end"

(* "avoid TOCTOU race with reset()": a get that returns has an instance,   *)
(* whatever is reset between its reads.                                    *)
NeverNone == \A t \in Thread : pc[t] = "end" => got[t] # None

(* All have the same instance, until it is reset: no factory is called     *)
(* twice in between.                                                       *)
SameUntilReset ==
  \A t \in Thread : pc[t] = "end" => got[t] \in {None, instance} \cup dropped

(* All threads get the same instance until it is reset, and never none.    *)
ThreadsShareOne == TypeOK /\ NeverNone /\ SameUntilReset

-----------------------------------------------------------------------------
(* The inductive invariant.                                                *)

\* What a thread has read is the instance or was reset since, and whoever calls
\* the factory does so because there is none.
IInv ==
  /\ TypeOK
  /\ \A t \in Thread :
       /\ pc[t] = "found" => seen[t] # None /\ seen[t] \in {instance} \cup dropped
       /\ pc[t] = "end" => got[t] # None /\ got[t] \in {instance} \cup dropped
       /\ pc[t] = "make" => instance = None
=============================================================================
