--------------------------- MODULE StorageAccess ---------------------------
(***************************************************************************)
(* What the storage is reached through: the client, QdrantClient, the lock *)
(* that orders writers, the lock file of FileLock, and the searches of     *)
(* HybridSearch. They have state of their own, under other names than      *)
(* those of the modules beside them: the runs of storage/, and the proofs. *)
(***************************************************************************)
CONSTANTS Task, Clients, MaxChecks, NoClient
VARIABLES
  client, made, open, botched, healthy, due, task, failedChecks, broken, overlapped, shut

Storage == INSTANCE QdrantClient
  WITH MaxFaults <- MaxChecks, None <- NoClient, faults <- failedChecks

CONSTANTS Process, Locker, OwnerOf, Shared, Async, First, MaxInode
VARIABLES life, fork, opens, registered, name, inode, refs, locked, locking, acquired, abandoned

File == INSTANCE FileLock
  WITH Proc <- Process, Task <- Locker, HomeOf <- OwnerOf, pc <- locking, cancelled <- abandoned

CONSTANTS
  Point, Grouping, MaxRanking, Weights, RrfK, ServerK, ResultLimit, PrefetchLimit, Path, NoResult
VARIABLES sought, found

Search == INSTANCE HybridSearch
  WITH Key <- Point, GroupOf <- Grouping, Length <- MaxRanking, Weight <- Weights, K <- RrfK,
       Limit <- ResultLimit, Prefetch <- PrefetchLimit, Kind <- Path, None <- NoResult,
       in <- sought, out <- found

-----------------------------------------------------------------------------
(* Calls that do not overlap are given the only client that is open, or    *)
(* one whose close failed, and calls that overlap are given one in any     *)
(* case.                                                                   *)
ClientsAreKept == Storage!ClientsAreKept

(* No two tasks, of one process or of several, are in the bodies of        *)
(* conflicting locks of one name, and a call that has ended, however it    *)
(* did, keeps no descriptor and no lock, not even through a child.         *)
FileLocksHold == File!FileLocksHold

(* A point ahead of another in every ranking is returned before it, scores *)
(* are those of the formula whatever way points are fused, and a group is  *)
(* represented by its strongest hit.                                       *)
FusionIsFair ==
  /\ Search!TypeOK /\ Search!AheadComesFirst
  /\ Search!ScoresFollowTheFormula /\ Search!StrongestHit
=============================================================================
