------------------------------ MODULE MCLimiter ------------------------------
(***************************************************************************)
(* Two limiters for TLC: one of a process that forks, and one that two     *)
(* processes share. TLC looks at one of them at a time: `part` says which  *)
(* one takes steps, and the other stays as it began.                       *)
(***************************************************************************)
EXTENDS Limiter, TLC

CONSTANTS p1, p2, q1, q2, d1, d2

VARIABLES
  part,
  alive2, booting2, unborn2, pc2, cursor2, slotFd2, claimFd2, owner2, memLock2,
  slotLock2, gateEx2, gateSh2, slotRefs2, claimRefs2, gateRefs2, strayClose2

sharedVars ==
  <<alive2, booting2, unborn2, pc2, cursor2, slotFd2, claimFd2, owner2, memLock2,
    slotLock2, gateEx2, gateSh2, slotRefs2, claimRefs2, gateRefs2, strayClose2>>

\* One process issues everything, the other is forked from it.
HomeOneProcess == [r \in {q1, d1} |-> p1]

\* Two processes, a query and a document in each, two slots.
Processes == {p1, p2}
Queries == {q1, q2}
Documents == {d1, d2}
HomeTwoProcesses == (q1 :> p1) @@ (d1 :> p1) @@ (q2 :> p2) @@ (d2 :> p2)
Pair == INSTANCE Limiter
  WITH Proc <- Processes, Started <- Processes, Query <- Queries, Document <- Documents,
       Repeating <- {}, HomeOf <- HomeTwoProcesses, Capacity <- 2,
       alive <- alive2, booting <- booting2, unborn <- unborn2, pc <- pc2,
       cursor <- cursor2, slotFd <- slotFd2, claimFd <- claimFd2, owner <- owner2,
       memLock <- memLock2, slotLock <- slotLock2, gateEx <- gateEx2, gateSh <- gateSh2,
       slotRefs <- slotRefs2, claimRefs <- claimRefs2, gateRefs <- gateRefs2,
       strayClose <- strayClose2

-----------------------------------------------------------------------------
PartInit == part \in {"forks", "shared"} /\ Init /\ Pair!Init

PartSpec ==
  /\ PartInit
  /\ [][ /\ UNCHANGED part
         /\ \/ part = "forks" /\ Next /\ UNCHANGED sharedVars
            \/ part = "shared" /\ Pair!Next /\ UNCHANGED vars
       ]_<<part, vars, sharedVars>>

(* Two processes implement one semaphore of two slots, in which documents  *)
(* give way to the queries of either process.                              *)
SharedPriorityIsKept == Pair!PriorityIsKept
=============================================================================
