--------------------------- MODULE EnsureCollection --------------------------
(***************************************************************************)
(* ensure_collection_with_indexes (storage/qdrant.py), called by several   *)
(* servers at once: each looks whether the collection exists, creates it,  *)
(* and then creates the payload indexes one after the other.               *)
(***************************************************************************)
EXTENDS Naturals, Sequences, FiniteSets

CONSTANTS Server,
          Fields,    \* the fields that each server asks to index: a function to sequences
          MaxFaults  \* bound: requests that fail

Wanted(s) == {Fields[s][i] : i \in DOMAIN Fields[s]}
EnsureAssumption == \A s \in Server : Fields[s] \in Seq(Wanted(s))

VARIABLES
  exists, indexes,  \* the collection and its payload indexes
  step,             \* what each server is at
  next,             \* the index that each server asks for next
  outcome,          \* how the last call of each server ended
  creators,         \* history: the servers that were told that they created it
  faults

vars == <<exists, indexes, step, next, outcome, creators, faults>>

Init ==
  /\ exists = FALSE /\ indexes = {} /\ creators = {} /\ faults = 0
  /\ step = [s \in Server |-> "idle"] /\ next = [s \in Server |-> 1]
  /\ outcome = [s \in Server |-> "none"]

-----------------------------------------------------------------------------
Goto(s, at) == step' = [step EXCEPT ![s] = at]
Ends(s, how) == Goto(s, "idle") /\ outcome' = [outcome EXCEPT ![s] = how]

\* Mutant of Look: after a failure the collection is taken to exist.
LookOnce(s) ==
  /\ step[s] = "idle" /\ outcome[s] # "ok"
  /\ Goto(s, IF exists \/ outcome[s] = "failed" THEN "index" ELSE "create")
  /\ next' = [next EXCEPT ![s] = 1] /\ outcome' = [outcome EXCEPT ![s] = "none"]
  /\ UNCHANGED <<exists, indexes, creators, faults>>

\* The server has been told that the collection exists, or that it does not.
Look(s) ==
  /\ step[s] = "idle" /\ outcome[s] # "ok"
  /\ Goto(s, IF exists THEN "index" ELSE "create")
  /\ next' = [next EXCEPT ![s] = 1] /\ outcome' = [outcome EXCEPT ![s] = "none"]
  /\ UNCHANGED <<exists, indexes, creators, faults>>

\* Mutant of Create: the request is repeated until it succeeds.
CreateAgain(s) ==
  /\ step[s] = "create" /\ UNCHANGED <<indexes, next, faults>>
  /\ IF exists THEN UNCHANGED <<exists, creators, step, outcome>>
     ELSE /\ exists' = TRUE /\ creators' = creators \cup {s}
          /\ Goto(s, "index") /\ UNCHANGED outcome

\* create_collection fails if the collection is there by now.
Create(s) ==
  /\ step[s] = "create" /\ UNCHANGED <<indexes, next, faults>>
  /\ IF exists THEN Ends(s, "exists") /\ UNCHANGED <<exists, creators>>
     ELSE /\ exists' = TRUE /\ creators' = creators \cup {s}
          /\ Goto(s, "index") /\ UNCHANGED outcome

\* Mutant of Index: who did not create the collection leaves its indexes alone.
IndexOwn(s) ==
  /\ step[s] = "index" /\ UNCHANGED <<exists, creators, faults>>
  /\ IF next[s] > Len(Fields[s]) \/ s \notin creators
     THEN Ends(s, "ok") /\ UNCHANGED <<indexes, next>>
     ELSE /\ indexes' = indexes \cup {Fields[s][next[s]]}
          /\ next' = [next EXCEPT ![s] = @ + 1] /\ UNCHANGED <<step, outcome>>

\* ensure_payload_indexes asks for one index, which may be there, or returns.
Index(s) ==
  /\ step[s] = "index" /\ UNCHANGED <<exists, creators, faults>>
  /\ IF next[s] > Len(Fields[s])
     THEN Ends(s, "ok") /\ UNCHANGED <<indexes, next>>
     ELSE /\ indexes' = indexes \cup {Fields[s][next[s]]}
          /\ next' = [next EXCEPT ![s] = @ + 1] /\ UNCHANGED <<step, outcome>>

\* A request fails, or its answer is lost; the call raises.
Fail(s) ==
  /\ step[s] # "idle" /\ faults < MaxFaults /\ faults' = faults + 1
  /\ Ends(s, "failed")
  /\ \/ UNCHANGED <<exists, indexes>>
     \/ step[s] = "create" /\ exists' = TRUE /\ UNCHANGED indexes
     \/ /\ step[s] = "index" /\ next[s] <= Len(Fields[s])
        /\ indexes' = indexes \cup {Fields[s][next[s]]} /\ UNCHANGED exists
  /\ UNCHANGED <<next, creators>>

Next == \E s \in Server : Look(s) \/ Create(s) \/ Index(s) \/ Fail(s)

\* Servers go on, and repeat a call that failed: it is made at every startup.
Spec == Init /\ [][Next]_vars /\ \A s \in Server : WF_vars(Look(s) \/ Create(s) \/ Index(s))

-----------------------------------------------------------------------------
TypeOK ==
  /\ exists \in BOOLEAN /\ creators \subseteq Server
  /\ step \in [Server -> {"idle", "create", "index"}]
  /\ outcome \in [Server -> {"none", "failed", "exists", "ok"}]
  /\ next \in [Server -> Nat] /\ \A s \in Server : next[s] \in 1 .. Len(Fields[s]) + 1
  /\ \A s \in Server : step[s] = "index" => exists

(* A call that returns has left the collection with all of its indexes,    *)
(* also if the server that created it died before it made them, and one    *)
(* server at the most is told that it created the collection.              *)
EnsuredIsIndexed ==
  /\ \A s \in Server : outcome[s] = "ok" => exists /\ Wanted(s) \subseteq indexes
  /\ Cardinality(creators) <= 1

(* Servers that repeat a call that failed come to the end of it, whatever  *)
(* requests were lost and whoever was first.                               *)
AllEnsure == \A s \in Server : <>(outcome[s] = "ok")

(* "Idempotent - safe to call multiple times from multiple servers. First  *)
(* caller creates collection and indexes, subsequent calls skip": no call  *)
(* fails because another one has created the collection.                   *)
SecondCallSkips == \A s \in Server : outcome[s] # "exists"

-----------------------------------------------------------------------------
(* The inductive invariant.                                                *)

\* The indexes before the next one are there, and who created the collection did so
\* when there was none.
IInv ==
  /\ TypeOK
  /\ ~exists => creators = {}
  /\ \A s, t \in creators : s = t
  /\ \A s \in Server :
       /\ step[s] = "create" => next[s] = 1
       /\ step[s] = "index" => \A i \in 1 .. next[s] - 1 : Fields[s][i] \in indexes
       /\ outcome[s] = "ok" => step[s] = "idle" /\ exists /\ Wanted(s) \subseteq indexes
=============================================================================
