---------------------------- MODULE QdrantClient -----------------------------
(***************************************************************************)
(* The connection of QdrantStorage (storage/qdrant.py): tasks of one event *)
(* loop share a client, which is checked when the last check is old, and   *)
(* replaced when the check fails. A step runs from one await to the next,  *)
(* and a task may be cancelled in any await.                               *)
(*                                                                         *)
(* The loop has been up for longer than the interval between checks: a     *)
(* time of 0 is an old one.                                                *)
(***************************************************************************)
EXTENDS Naturals, FiniteSets

CONSTANTS Task,
          Clients,    \* bound: clients that are made
          MaxFaults,  \* bound: checks that fail though the client is open
          None

ClientAssumption == Clients \in Nat /\ MaxFaults \in Nat /\ None \notin Nat

VARIABLES
  client,  \* the client of the storage, or None
  made,    \* clients 1 .. made were made
  open,    \* the clients that are not closed
  botched, \* history: clients whose close() raised or was cancelled, closed by it or not
  healthy, due,
  task,    \* what each task is at, and with which client
  faults,
  broken,  \* history: tasks whose last call had no open client
  overlapped,  \* history: a call began while another one was under way
  shut         \* history: somebody has closed the storage

vars == <<client, made, open, botched, healthy, due, task, faults, broken, overlapped, shut>>

Idle == [at |-> "idle", with |-> None]

Init ==
  /\ client = None /\ made = 0 /\ open = {} /\ botched = {} /\ healthy = FALSE /\ due = TRUE
  /\ task = [t \in Task |-> Idle] /\ faults = 0 /\ broken = {}
  /\ overlapped = FALSE /\ shut = FALSE

-----------------------------------------------------------------------------
Goto(t, at, c) == task' = [task EXCEPT ![t] = [at |-> at, with |-> c]]

\* A call of t begins.
Begins(t) ==
  /\ task[t] = Idle
  /\ overlapped' = (overlapped \/ \E u \in Task \ {t} : task[u] # Idle)

NewClient == made < Clients /\ made' = made + 1 /\ client' = made + 1

\* close() of the client of now, if any, is called: it closes it, or will fail.
CloseClient ==
  \/ open' = open \ {client} /\ UNCHANGED botched
  \/ client # None /\ botched' = botched \cup {client} /\ UNCHANGED open

\* _get_client makes the first client, and checks it if a check is due.
GetClient(t) ==
  /\ Begins(t)
  /\ IF client = None
     THEN /\ NewClient /\ open' = open \cup {made + 1}
          /\ healthy' = FALSE /\ due' = TRUE
     ELSE UNCHANGED <<client, made, open, healthy, due>>
  /\ IF due' THEN Goto(t, "checking", client') ELSE Goto(t, "using", client)
  /\ UNCHANGED <<botched, faults, broken, shut>>

\* check_health succeeds. The client that is returned is the one of now.
CheckPasses(t) ==
  /\ task[t].at = "checking" /\ task[t].with \in open
  /\ healthy' = TRUE /\ due' = FALSE
  /\ Goto(t, "using", client)
  /\ UNCHANGED <<client, made, open, botched, faults, broken, overlapped, shut>>

\* _reconnect once close() of the stale client has returned, or raised an exception,
\* which is logged: both assignments are in one step.
Replace(t) ==
  /\ task[t].at = "closing" /\ NewClient
  /\ open' = open \cup {made + 1} /\ healthy' = FALSE /\ due' = TRUE
  /\ Goto(t, "using", made + 1)
  /\ UNCHANGED <<botched, faults, broken, overlapped, shut>>

\* Mutant of CheckFails: the client is taken away before it is closed.
CheckFailsAndClears(t) ==
  /\ task[t].at = "checking"
  /\ \/ task[t].with \notin open /\ UNCHANGED faults
     \/ task[t].with \in open /\ faults < MaxFaults /\ faults' = faults + 1
  /\ healthy' = FALSE /\ client' = None
  /\ CloseClient /\ Goto(t, "closing", client)
  /\ UNCHANGED <<made, due, broken, overlapped, shut>>

\* Mutant of CheckFails: the stale client is not closed.
CheckFailsUnclosed(t) ==
  /\ task[t].at = "checking"
  /\ \/ task[t].with \notin open /\ UNCHANGED faults
     \/ task[t].with \in open /\ faults < MaxFaults /\ faults' = faults + 1
  /\ healthy' = FALSE
  /\ Goto(t, "closing", client)
  /\ UNCHANGED <<client, made, open, botched, due, broken, overlapped, shut>>

\* check_health fails, or times out, and _reconnect closes the client of now, if any.
CheckFails(t) ==
  /\ task[t].at = "checking"
  /\ \/ task[t].with \notin open /\ UNCHANGED faults
     \/ task[t].with \in open /\ faults < MaxFaults /\ faults' = faults + 1
  /\ healthy' = FALSE
  /\ CloseClient /\ Goto(t, "closing", client)
  /\ UNCHANGED <<client, made, due, broken, overlapped, shut>>

\* The task is cancelled: while the client is checked nothing else happens; while the
\* stale one is closed, nothing replaces it, nor says that it was closed.
Cancel(t) ==
  /\ task[t].at \in {"checking", "closing"} /\ task[t].with # None /\ Goto(t, "idle", None)
  /\ botched' = IF task[t].at = "closing" THEN botched \cup {task[t].with} ELSE botched
  /\ UNCHANGED <<client, made, open, healthy, due, faults, broken, overlapped, shut>>

\* The operation of the caller.
Use(t) ==
  /\ task[t].at = "using" /\ Goto(t, "idle", None)
  /\ broken' = IF task[t].with \in open THEN broken \ {t} ELSE broken \cup {t}
  /\ UNCHANGED <<client, made, open, botched, healthy, due, faults, overlapped, shut>>

\* The interval between checks has gone by.
Expire ==
  /\ ~due /\ due' = TRUE
  /\ UNCHANGED <<client, made, open, botched, healthy, task, faults, broken, overlapped, shut>>

\* Mutant of EndClose: the state of the last check is kept.
EndCloseOnly(t) ==
  /\ task[t].at = "shutting" /\ task[t].with \notin open /\ Goto(t, "idle", None)
  /\ client' = None
  /\ UNCHANGED <<made, open, botched, healthy, due, faults, broken, overlapped, shut>>

\* close: the client is set to None after it is closed, whichever it is by then.
Close(t) ==
  /\ Begins(t) /\ client # None /\ shut' = TRUE
  /\ CloseClient /\ Goto(t, "shutting", client)
  /\ UNCHANGED <<client, made, healthy, due, faults, broken>>

EndClose(t) ==
  /\ task[t].at = "shutting" /\ task[t].with \notin open /\ Goto(t, "idle", None)
  /\ client' = None /\ healthy' = FALSE /\ due' = TRUE
  /\ UNCHANGED <<made, open, botched, faults, broken, overlapped, shut>>

\* close() of the client raises, or the task is cancelled in it: nothing is assigned, and
\* the client, closed or not, stays with what the last check said of it.
CloseFails(t) ==
  /\ task[t].at = "shutting" /\ Goto(t, "idle", None)
  /\ botched' = botched \cup {task[t].with}
  /\ UNCHANGED <<client, made, open, healthy, due, faults, broken, overlapped, shut>>

Next ==
  \/ Expire
  \/ \E t \in Task :
       GetClient(t) \/ CheckPasses(t) \/ CheckFails(t) \/ Replace(t) \/ Cancel(t)
         \/ Use(t) \/ Close(t) \/ EndClose(t) \/ CloseFails(t)

Spec == Init /\ [][Next]_vars

-----------------------------------------------------------------------------
TypeOK ==
  /\ made \in 0 .. Clients /\ client \in 1 .. made \cup {None}
  /\ open \subseteq 1 .. made /\ botched \subseteq 1 .. made /\ due \in BOOLEAN /\ healthy \in BOOLEAN
  /\ overlapped \in BOOLEAN /\ shut \in BOOLEAN
  /\ task \in [Task -> [at : {"idle", "checking", "closing", "using", "shutting"},
                       with : 1 .. made \cup {None}]]

(* As long as no two calls have overlapped, whichever tasks make them, no  *)
(* task is given a client that is closed, and none but the client of the   *)
(* storage is left open, whichever checks fail, whoever is cancelled and   *)
(* whenever the storage is closed and used again; except for the clients   *)
(* whose close() failed or was cancelled. The storage is taken to be       *)
(* healthy only while it has a client.                                     *)
OneOpenClient ==
  ~overlapped =>
    /\ open \subseteq {client} \cup botched /\ (healthy => client # None)
    /\ \A t \in Task : task[t].at = "using" => task[t].with \in open \cup botched

(* As long as nobody has closed the storage, tasks that overlap are never  *)
(* given None for a client, and a reconnection never leaves the storage    *)
(* without one.                                                            *)
AlwaysAClient ==
  ~shut =>
    /\ \A t \in Task : task[t].at \in {"using", "checking", "closing"} => task[t].with # None
    /\ made > 0 => client # None

(* Calls that do not overlap are given the only client that is open, or    *)
(* one whose close failed, and calls that overlap are given one in any     *)
(* case.                                                                   *)
ClientsAreKept == TypeOK /\ AlwaysAClient /\ OneOpenClient

(* "Close and recreate the client connection": once no task is at work,    *)
(* every client but the one of the storage has been closed.                *)
ReplacedIsClosed == (\A t \in Task : task[t] = Idle) => open \subseteq {client}

(* Calls that do not overlap are given a client that is open. (It does not *)
(* hold: the client whose close() failed is given out until a check is     *)
(* due.)                                                                   *)
UsesOpenClient ==
  ~overlapped => \A t \in Task : task[t].at = "using" => task[t].with \in open

-----------------------------------------------------------------------------
(* The inductive invariant.                                                *)

\* One call is under way at most: whatever it is at, it is at the client of the storage,
\* which is open, or was botched, but while it is closed.
AloneInv ==
  /\ open \subseteq {client} \cup botched /\ (healthy => client # None)
  /\ \A t, u \in Task : task[t].at # "idle" /\ task[u].at # "idle" => t = u
  /\ \A t \in Task : task[t].at # "idle" => task[t].with = client /\ client # None
  /\ IF \E t \in Task : task[t].at \in {"closing", "shutting"}
     THEN client \notin open \ botched ELSE client \in open \cup botched \cup {None}

IInv ==
  /\ TypeOK /\ AlwaysAClient /\ (~overlapped => AloneInv)
  /\ \A t \in Task : task[t].at = "idle" => task[t] = Idle
  /\ \A t \in Task : task[t].at = "shutting" => shut /\ task[t].with # None
=============================================================================
