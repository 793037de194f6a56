------------------------------- MODULE MCQdrant -------------------------------
(***************************************************************************)
(* What storage/ does with the server, for TLC: FragmentGroup,             *)
(* QdrantClient, the lock file that writers take, FileLock, and searches,  *)
(* HybridSearch. They have no state in common, so that TLC looks at one of *)
(* them at a time: `part` says which one takes steps, and the others stay  *)
(* as they began.                                                          *)
(***************************************************************************)
EXTENDS FragmentGroup, StorageAccess, Integers, TLC

CONSTANTS w1, w2, old, new, again, blank, c, f, g, t, u, p1, p2, t1, t2, t3

VARIABLE part

clientVars ==
  <<client, made, open, botched, healthy, due, task, failedChecks, broken, overlapped, shut>>
fileVars ==
  <<life, fork, opens, registered, name, inode, refs, locked, locking, acquired, abandoned>>
searchVars == <<sought, found>>

\* The canonical point c and the fragments f and g: `old` and `new` share
\* only c, `again` has the ids of `new` (the same text, embedded anew), and
\* `blank` stands for a source that has no points yet.
Ids == (blank :> {}) @@ (old :> {c, f}) @@ (new :> {c, g}) @@ (again :> {c, g})
TwoWrites == (w1 :> new) @@ (w2 :> again)

\* A process with a cancellable and a blocking call forks, and its child locks too.
HomeForked == t1 :> p1 @@ t2 :> p1 @@ t3 :> p2

\* Every two rankings of up to three points, of which the first two are a group.
Keys == 1 .. 3
Pairs == [k \in Keys |-> IF k = 1 THEN 2 ELSE k]

ASSUME Storage!ClientAssumption /\ File!FileLockAssumption /\ Search!HybridAssumption

-----------------------------------------------------------------------------
In(p, A) == part = p /\ A

PartInit ==
  /\ part \in {"fragments", "alone", "apart", "file", "search"}
  /\ Init /\ Storage!Init /\ File!Init
  /\ part = "search" => committed = blank
  /\ IF part = "search" THEN Search!Init /\ (sought.kind = "fuse" => sought.prefetch = 3)
     ELSE sought = NoResult /\ found = NoResult

\* Of the client of the storage there are two views: one task, which also closes the
\* storage, and two tasks, with fewer clients, that do not.
PartNext ==
  /\ UNCHANGED part
  /\ \/ In("fragments", Next) /\ UNCHANGED <<clientVars, fileVars, searchVars>>
     \/ In("alone", Storage!Next) /\ task'[u] = task[u] /\ UNCHANGED <<vars, fileVars, searchVars>>
     \/ In("apart", Storage!Next) /\ ~shut' /\ made' <= 5 /\ failedChecks' <= 2
          /\ UNCHANGED <<vars, fileVars, searchVars>>
     \/ In("file", File!Next) /\ UNCHANGED <<vars, clientVars, searchVars>>
     \/ In("search", Search!Next) /\ UNCHANGED <<vars, clientVars, fileVars>>

\* The fairness of FragmentGroup.
PartSpec ==
  /\ PartInit /\ [][PartNext]_<<part, vars, clientVars, fileVars, searchVars>>
  /\ WF_vars(In("fragments", ExecuteLate))
  /\ \A w \in Writer : WF_vars(In("fragments", Progress(w)))

-----------------------------------------------------------------------------
(* "Close and recreate the client connection" (it does not hold).          *)
ReplacedIsClosed == part = "apart" => Storage!ReplacedIsClosed
=============================================================================
