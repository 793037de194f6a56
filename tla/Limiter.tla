------------------------------ MODULE Limiter ------------------------------
(***************************************************************************)
(* GlobalRequestLimiter of embeddings/limiter.py: the processes of one     *)
(* host bound their concurrent embedding HTTP attempts with flock(2) on    *)
(* one file per slot, and queries go ahead of documents through a shared   *)
(* lock on the gate file interactive.lock.                                 *)
(*                                                                         *)
(* flock locks belong to open file descriptions.  A description is named   *)
(* after the task that opened it and its use: the slot, the claim or the   *)
(* gate.  slotRefs, claimRefs and gateRefs say which processes have a      *)
(* descriptor of it, because fork(2) duplicates them and the kernel drops  *)
(* the lock with the last one.  A lock file that is opened, found locked   *)
(* and closed again changes nothing that another actor can see, so such    *)
(* an attempt is one step.                                                 *)
(***************************************************************************)
EXTENDS Naturals, FiniteSets

CONSTANTS Proc,        \* processes, forked ones included
          Started,     \* the processes that run from the beginning
          Query,       \* requests with interactive=True
          Document,    \* requests with interactive=False
          Repeating,   \* requests that are issued again when they are done
          HomeOf,      \* the process that issues a request
          Capacity,    \* slots of the scope; the limiter of 0 slots does not exist
          NoTask       \* no lock holder

Request == Query \cup Document
Task == Proc \X Request     \* a request as the coroutine of one process
Slots == 0 .. Capacity - 1
NoSlot == Capacity          \* the local `fd` is None

ProcOf(t) == t[1]
IsQuery(t) == t[2] \in Query

ASSUME LimiterAssumption ==
  /\ Started \subseteq Proc
  /\ Query \cap Document = {}
  /\ Repeating \subseteq Request
  /\ HomeOf \in [Request -> Started]
  /\ Capacity \in Nat \ {0}
  /\ NoTask \notin Task

VARIABLES
  alive,      \* processes that run
  booting,    \* forked children whose _after_fork_child has not finished
  unborn,     \* processes not forked yet
  pc,         \* where each task stands in acquire()
  cursor,     \* the slot number _try_acquire looks at
  slotFd,     \* acquire()'s local fd: the slot it names, or NoSlot
  claimFd,    \* acquire()'s local claim_fd is not None
  owner,      \* owner_pid is the pid of the process the task runs in
  memLock,    \* the task that holds _held_fds_lock of each process
  slotLock,   \* the task whose description locks each slot file
  gateEx,     \* the task whose description has LOCK_EX on the gate file
  gateSh,     \* the tasks whose descriptions have LOCK_SH on the gate file
  slotRefs,   \* the processes with a descriptor of each task's slot file
  claimRefs,  \* ... of the gate file opened for its claim
  gateRefs,   \* ... of the gate file opened for its scan: not in _held_fds
  strayClose  \* history: a number was closed that the task did not open here

locals == <<pc, cursor, slotFd, claimFd, owner>>
procs == <<alive, booting, unborn>>
locks == <<slotLock, gateEx, gateSh, slotRefs, claimRefs, gateRefs>>
vars == <<alive, booting, unborn, pc, cursor, slotFd, claimFd, owner, memLock,
          slotLock, gateEx, gateSh, slotRefs, claimRefs, gateRefs, strayClose>>

PcValues == {"absent", "idle", "try", "scan", "leave", "raise", "claim",
             "sleep", "drop", "hold", "unwind", "done"}

-----------------------------------------------------------------------------
Init ==
  /\ alive = Started
  /\ booting = {}
  /\ unborn = Proc \ Started
  /\ pc = [t \in Task |-> IF HomeOf[t[2]] = t[1] THEN "idle" ELSE "absent"]
  /\ cursor = [t \in Task |-> 0]
  /\ slotFd = [t \in Task |-> NoSlot]
  /\ claimFd = [t \in Task |-> FALSE]
  /\ owner = [t \in Task |-> TRUE]
  /\ memLock = [p \in Proc |-> NoTask]
  /\ slotLock = [s \in Slots |-> NoTask]
  /\ gateEx = NoTask
  /\ gateSh = {}
  /\ slotRefs = [t \in Task |-> {}]
  /\ claimRefs = [t \in Task |-> {}]
  /\ gateRefs = [t \in Task |-> {}]
  /\ strayClose = FALSE

\* The task's process runs Python code, and this task is at the given place.
At(t, place) == /\ ProcOf(t) \in alive \ booting
                /\ pc[t] = place

Goto(t, place) == pc' = [pc EXCEPT ![t] = place]

MemLockFree(t) == memLock[ProcOf(t)] = NoTask

-----------------------------------------------------------------------------
(* acquire() is entered: fd and claim_fd are None, owner_pid is this pid.  *)
Enter(t) ==
  /\ At(t, "idle")
  /\ Goto(t, "try")
  /\ UNCHANGED <<procs, cursor, slotFd, claimFd, owner, memLock, locks, strayClose>>

\* Mutant of StartScan: a document looks at the gate but does not hold it.
StartScanProbing(t) ==
  /\ At(t, "try")
  /\ MemLockFree(t)
  /\ ~IsQuery(t) => gateEx = NoTask /\ gateSh = {}
  /\ Goto(t, "scan")
  /\ cursor' = [cursor EXCEPT ![t] = 0]
  /\ memLock' = [memLock EXCEPT ![ProcOf(t)] = t]
  /\ UNCHANGED <<procs, slotFd, claimFd, owner, locks, strayClose>>

\* Mutant of StartScan: a document heeds other documents only.
StartScanPastClaims(t) ==
  /\ At(t, "try")
  /\ MemLockFree(t)
  /\ ~IsQuery(t) => gateEx = NoTask
  /\ Goto(t, "scan")
  /\ cursor' = [cursor EXCEPT ![t] = 0]
  /\ memLock' = [memLock EXCEPT ![ProcOf(t)] = t]
  /\ IF IsQuery(t)
       THEN UNCHANGED <<gateEx, gateRefs>>
       ELSE /\ gateEx' = t
            /\ gateRefs' = [gateRefs EXCEPT ![t] = {ProcOf(t)}]
  /\ UNCHANGED <<procs, slotFd, claimFd, owner, slotLock, gateSh, slotRefs, claimRefs,
                 strayClose>>

(* _try_acquire takes _held_fds_lock; a document then takes the gate       *)
(* exclusively or gives up at once.                                        *)
StartScan(t) ==
  /\ At(t, "try")
  /\ MemLockFree(t)
  /\ ~IsQuery(t) => gateEx = NoTask /\ gateSh = {}
  /\ Goto(t, "scan")
  /\ cursor' = [cursor EXCEPT ![t] = 0]
  /\ memLock' = [memLock EXCEPT ![ProcOf(t)] = t]
  /\ IF IsQuery(t)
       THEN UNCHANGED <<gateEx, gateRefs>>
       ELSE /\ gateEx' = t
            /\ gateRefs' = [gateRefs EXCEPT ![t] = {ProcOf(t)}]
  /\ UNCHANGED <<procs, slotFd, claimFd, owner, slotLock, gateSh, slotRefs, claimRefs,
                 strayClose>>

GateClosed(t) ==
  /\ At(t, "try")
  /\ MemLockFree(t)
  /\ ~IsQuery(t)
  /\ gateEx # NoTask \/ gateSh # {}
  /\ Goto(t, "sleep")
  /\ UNCHANGED <<procs, cursor, slotFd, claimFd, owner, memLock, locks, strayClose>>

(* One round of `for slot in range(self.capacity)`: the first free slot    *)
(* wins and is registered in _held_fds.                                    *)
TakeSlot(t) ==
  /\ At(t, "scan")
  /\ cursor[t] \in Slots
  /\ slotLock[cursor[t]] = NoTask
  /\ slotLock' = [slotLock EXCEPT ![cursor[t]] = t]
  /\ slotFd' = [slotFd EXCEPT ![t] = cursor[t]]
  /\ slotRefs' = [slotRefs EXCEPT ![t] = {ProcOf(t)}]
  /\ Goto(t, "leave")
  /\ UNCHANGED <<procs, cursor, claimFd, owner, memLock, gateEx, gateSh, claimRefs,
                 gateRefs, strayClose>>

\* Mutant of SkipSlot: every other slot is looked at.
SkipTwoSlots(t) ==
  /\ At(t, "scan")
  /\ cursor[t] \in Slots
  /\ slotLock[cursor[t]] # NoTask
  /\ cursor' = [cursor EXCEPT ![t] = @ + 2]
  /\ Goto(t, IF cursor[t] + 2 \in Slots THEN "scan" ELSE "leave")
  /\ UNCHANGED <<procs, slotFd, claimFd, owner, memLock, locks, strayClose>>

SkipSlot(t) ==
  /\ At(t, "scan")
  /\ cursor[t] \in Slots
  /\ slotLock[cursor[t]] # NoTask
  /\ cursor' = [cursor EXCEPT ![t] = @ + 1]
  /\ Goto(t, IF cursor[t] + 1 \in Slots THEN "scan" ELSE "leave")
  /\ UNCHANGED <<procs, slotFd, claimFd, owner, memLock, locks, strayClose>>

(* os.open or flock raises something else than BlockingIOError.            *)
ScanError(t) ==
  /\ At(t, "scan")
  /\ Goto(t, "raise")
  /\ UNCHANGED <<procs, cursor, slotFd, claimFd, owner, memLock, locks, strayClose>>

(* What the kernel does when these descriptors are left: a description     *)
(* with none loses its lock.                                               *)
CloseTo(ofSlots, ofClaims, ofGates) ==
  /\ slotRefs' = ofSlots
  /\ claimRefs' = ofClaims
  /\ gateRefs' = ofGates
  /\ slotLock' = [s \in Slots |-> IF slotLock[s] \in Task /\ ofSlots[slotLock[s]] = {}
                                    THEN NoTask ELSE slotLock[s]]
  /\ gateSh' = {t \in gateSh : ofClaims[t] # {}}
  /\ gateEx' = IF gateEx \in Task /\ ofGates[gateEx] = {} THEN NoTask ELSE gateEx

(* The end of _try_acquire: `finally` closes the gate, _held_fds_lock is   *)
(* released, and acquire() goes on with the outcome.                       *)
AfterScan(t) ==
  CASE pc[t] = "raise" -> "unwind"
    [] slotFd[t] # NoSlot -> IF claimFd[t] THEN "drop" ELSE "hold"
    [] OTHER -> IF IsQuery(t) /\ ~claimFd[t] THEN "claim" ELSE "sleep"

\* Mutant of LeaveScan: after an error the gate stays open.
LeaveScanLeaking(t) ==
  /\ At(t, "leave") \/ At(t, "raise")
  /\ Goto(t, AfterScan(t))
  /\ cursor' = [cursor EXCEPT ![t] = 0]
  /\ CloseTo(slotRefs, claimRefs, IF pc[t] = "raise" THEN gateRefs
                                  ELSE [gateRefs EXCEPT ![t] = @ \ {ProcOf(t)}])
  /\ memLock' = [memLock EXCEPT ![ProcOf(t)] = NoTask]
  /\ UNCHANGED <<procs, slotFd, claimFd, owner, strayClose>>

LeaveScan(t) ==
  /\ At(t, "leave") \/ At(t, "raise")
  /\ Goto(t, AfterScan(t))
  /\ cursor' = [cursor EXCEPT ![t] = 0]
  /\ CloseTo(slotRefs, claimRefs, [gateRefs EXCEPT ![t] = @ \ {ProcOf(t)}])
  /\ memLock' = [memLock EXCEPT ![ProcOf(t)] = NoTask]
  /\ UNCHANGED <<procs, slotFd, claimFd, owner, strayClose>>

\* Mutant of Claim: the claim does not wait for the gate.
ClaimAnyway(t) ==
  /\ At(t, "claim")
  /\ MemLockFree(t)
  /\ gateSh' = gateSh \cup {t}
  /\ claimFd' = [claimFd EXCEPT ![t] = TRUE]
  /\ claimRefs' = [claimRefs EXCEPT ![t] = {ProcOf(t)}]
  /\ Goto(t, "sleep")
  /\ UNCHANGED <<procs, cursor, slotFd, owner, memLock, slotLock, gateEx, slotRefs,
                 gateRefs, strayClose>>

(* _try_claim: LOCK_SH on the gate, refused while a document scan holds    *)
(* it exclusively; other errors leave acquire() through its `finally`.     *)
Claim(t) ==
  /\ At(t, "claim")
  /\ MemLockFree(t)
  /\ gateEx = NoTask
  /\ gateSh' = gateSh \cup {t}
  /\ claimFd' = [claimFd EXCEPT ![t] = TRUE]
  /\ claimRefs' = [claimRefs EXCEPT ![t] = {ProcOf(t)}]
  /\ Goto(t, "sleep")
  /\ UNCHANGED <<procs, cursor, slotFd, owner, memLock, slotLock, gateEx, slotRefs,
                 gateRefs, strayClose>>

ClaimRefused(t) ==
  /\ At(t, "claim")
  /\ MemLockFree(t)
  /\ gateEx # NoTask
  /\ Goto(t, "sleep")
  /\ UNCHANGED <<procs, cursor, slotFd, claimFd, owner, memLock, locks, strayClose>>

ClaimError(t) ==
  /\ At(t, "claim")
  /\ Goto(t, "unwind")
  /\ UNCHANGED <<procs, cursor, slotFd, claimFd, owner, memLock, locks, strayClose>>

(* asyncio.sleep returns: a task that finds itself in a forked child       *)
(* forgets the claim its parent made and waits in its own name.            *)
Wake(t) ==
  /\ At(t, "sleep")
  /\ claimFd' = [claimFd EXCEPT ![t] = @ /\ owner[t]]
  /\ owner' = [owner EXCEPT ![t] = TRUE]
  /\ Goto(t, "try")
  /\ UNCHANGED <<procs, cursor, slotFd, memLock, locks, strayClose>>

(* asyncio.sleep, the only await of acquire(), raises CancelledError.      *)
Cancel(t) ==
  /\ At(t, "sleep")
  /\ Goto(t, "unwind")
  /\ UNCHANGED <<procs, cursor, slotFd, claimFd, owner, memLock, locks, strayClose>>

(* _release(fd): LOCK_UN takes effect for every process that shares the    *)
(* description, then the descriptor is closed.  A number that names no     *)
(* such description in this process belongs to somebody else by now.       *)
ReleaseSlot(t) ==
  IF ProcOf(t) \in slotRefs[t]
    THEN /\ slotRefs' = [slotRefs EXCEPT ![t] = @ \ {ProcOf(t)}]
         /\ slotLock' = [s \in Slots |-> IF slotLock[s] = t THEN NoTask ELSE slotLock[s]]
         /\ UNCHANGED <<gateEx, gateSh, claimRefs, gateRefs, strayClose>>
    ELSE /\ strayClose' = TRUE
         /\ UNCHANGED locks

ReleaseClaim(t) ==
  IF ProcOf(t) \in claimRefs[t]
    THEN /\ claimRefs' = [claimRefs EXCEPT ![t] = @ \ {ProcOf(t)}]
         /\ gateSh' = gateSh \ {t}
         /\ UNCHANGED <<gateEx, slotLock, slotRefs, gateRefs, strayClose>>
    ELSE /\ strayClose' = TRUE
         /\ UNCHANGED locks

(* The slot is held: the claim is given back before the body runs.         *)
DropClaim(t) ==
  /\ At(t, "drop")
  /\ MemLockFree(t)
  /\ ReleaseClaim(t)
  /\ claimFd' = [claimFd EXCEPT ![t] = FALSE]
  /\ Goto(t, "hold")
  /\ UNCHANGED <<procs, cursor, slotFd, owner, memLock>>

(* The body of `async with`, one HTTP attempt, ends or is cancelled.       *)
EndAttempt(t) ==
  /\ At(t, "hold")
  /\ Goto(t, "unwind")
  /\ UNCHANGED <<procs, cursor, slotFd, claimFd, owner, memLock, locks, strayClose>>

(* The outer `finally`: only the process that owns the numbers closes      *)
(* them, first the claim, then the slot.                                   *)
UnwindClaim(t) ==
  /\ At(t, "unwind")
  /\ owner[t] /\ claimFd[t]
  /\ MemLockFree(t)
  /\ ReleaseClaim(t)
  /\ claimFd' = [claimFd EXCEPT ![t] = FALSE]
  /\ UNCHANGED <<procs, pc, cursor, slotFd, owner, memLock>>

\* Mutant of UnwindSlot: the process that runs the `finally` is not looked at.
UnwindSlotAnywhere(t) ==
  /\ At(t, "unwind")
  /\ owner[t] => ~claimFd[t]
  /\ slotFd[t] # NoSlot
  /\ MemLockFree(t)
  /\ ReleaseSlot(t)
  /\ slotFd' = [slotFd EXCEPT ![t] = NoSlot]
  /\ UNCHANGED <<procs, pc, cursor, claimFd, owner, memLock>>

UnwindSlot(t) ==
  /\ At(t, "unwind")
  /\ owner[t] /\ ~claimFd[t] /\ slotFd[t] # NoSlot
  /\ MemLockFree(t)
  /\ ReleaseSlot(t)
  /\ slotFd' = [slotFd EXCEPT ![t] = NoSlot]
  /\ UNCHANGED <<procs, pc, cursor, claimFd, owner, memLock>>

Finish(t) ==
  /\ At(t, "unwind")
  /\ owner[t] => ~claimFd[t] /\ slotFd[t] = NoSlot
  /\ Goto(t, "done")
  /\ slotFd' = [slotFd EXCEPT ![t] = NoSlot]
  /\ claimFd' = [claimFd EXCEPT ![t] = FALSE]
  /\ owner' = [owner EXCEPT ![t] = TRUE]
  /\ UNCHANGED <<procs, cursor, memLock, locks, strayClose>>

(* The client makes another attempt; a name is used again only when no     *)
(* description carries it.                                                 *)
Repeat(t) ==
  /\ At(t, "done")
  /\ t[2] \in Repeating
  /\ slotRefs[t] = {} /\ claimRefs[t] = {} /\ gateRefs[t] = {}
  /\ Goto(t, "idle")
  /\ UNCHANGED <<procs, cursor, slotFd, claimFd, owner, memLock, locks, strayClose>>

-----------------------------------------------------------------------------
(* The child starts with copies of the suspended tasks of the thread that  *)
(* forked; other requests are its own to issue.                            *)
CopyTasks(p, c, copied) ==
  LET Copied(t) == ProcOf(t) = c /\ t[2] \in copied
      Original(t) == <<p, t[2]>>
  IN /\ pc' = [t \in Task |-> IF Copied(t) THEN pc[Original(t)]
                              ELSE IF ProcOf(t) = c THEN "idle" ELSE pc[t]]
     /\ slotFd' = [t \in Task |-> IF Copied(t) THEN slotFd[Original(t)] ELSE slotFd[t]]
     /\ claimFd' = [t \in Task |-> IF Copied(t) THEN claimFd[Original(t)] ELSE claimFd[t]]
     /\ owner' = [t \in Task |-> IF Copied(t) THEN FALSE ELSE owner[t]]

Inherited(r, p, c) == [t \in Task |-> IF p \in r[t] THEN r[t] \cup {c} ELSE r[t]]
Without(r, p) == [t \in Task |-> r[t] \ {p}]

\* Mutant of Fork: no _before_fork hook.
ForkDuringScan(p, c) ==
  /\ p \in alive \ booting
  /\ c \in unborn
  /\ alive' = alive \cup {c}
  /\ booting' = booting \cup {c}
  /\ unborn' = unborn \ {c}
  /\ \E copied \in SUBSET {r \in Request : pc[<<p, r>>] \in {"sleep", "hold"}} :
       CopyTasks(p, c, copied)
  /\ slotRefs' = Inherited(slotRefs, p, c)
  /\ claimRefs' = Inherited(claimRefs, p, c)
  /\ gateRefs' = Inherited(gateRefs, p, c)
  /\ UNCHANGED <<cursor, memLock, slotLock, gateEx, gateSh, strayClose>>

(* os.fork in p: _before_fork waits for _held_fds_lock, and the child gets *)
(* every descriptor p has.  acquire() suspends only in its sleep and in    *)
(* the body of `async with`.                                               *)
Fork(p, c) ==
  /\ p \in alive \ booting
  /\ c \in unborn
  /\ memLock[p] = NoTask
  /\ alive' = alive \cup {c}
  /\ booting' = booting \cup {c}
  /\ unborn' = unborn \ {c}
  /\ \E copied \in SUBSET {r \in Request : pc[<<p, r>>] \in {"sleep", "hold"}} :
       CopyTasks(p, c, copied)
  /\ slotRefs' = Inherited(slotRefs, p, c)
  /\ claimRefs' = Inherited(claimRefs, p, c)
  /\ gateRefs' = Inherited(gateRefs, p, c)
  /\ UNCHANGED <<cursor, memLock, slotLock, gateEx, gateSh, strayClose>>

\* Mutant of AfterForkChild: the child unlocks what it inherited.
AfterForkChildUnlocking(c) ==
  /\ c \in booting
  /\ booting' = booting \ {c}
  /\ slotRefs' = Without(slotRefs, c)
  /\ claimRefs' = Without(claimRefs, c)
  /\ slotLock' = [s \in Slots |-> IF slotLock[s] \in Task /\ c \in slotRefs[slotLock[s]]
                                    THEN NoTask ELSE slotLock[s]]
  /\ gateSh' = {t \in gateSh : c \notin claimRefs[t]}
  /\ UNCHANGED <<alive, unborn, locals, memLock, gateEx, gateRefs, strayClose>>

\* Mutant of AfterForkChild: no hook at all.
AfterForkChildIdle(c) ==
  /\ c \in booting
  /\ booting' = booting \ {c}
  /\ UNCHANGED <<alive, unborn, locals, memLock, locks, strayClose>>

(* _after_fork_child closes what _held_fds lists, the slots and claims,    *)
(* without LOCK_UN and before os.fork returns in the child.                *)
AfterForkChild(c) ==
  /\ c \in booting
  /\ booting' = booting \ {c}
  /\ CloseTo(Without(slotRefs, c), Without(claimRefs, c), gateRefs)
  /\ UNCHANGED <<alive, unborn, locals, memLock, strayClose>>

(* A process is killed or exits: the kernel closes all its descriptors.    *)
Exit(p) ==
  /\ p \in alive
  /\ alive' = alive \ {p}
  /\ booting' = booting \ {p}
  /\ pc' = [t \in Task |-> IF ProcOf(t) = p THEN "absent" ELSE pc[t]]
  /\ slotFd' = [t \in Task |-> IF ProcOf(t) = p THEN NoSlot ELSE slotFd[t]]
  /\ claimFd' = [t \in Task |-> IF ProcOf(t) = p THEN FALSE ELSE claimFd[t]]
  /\ owner' = [t \in Task |-> IF ProcOf(t) = p THEN TRUE ELSE owner[t]]
  /\ cursor' = [t \in Task |-> IF ProcOf(t) = p THEN 0 ELSE cursor[t]]
  /\ memLock' = [memLock EXCEPT ![p] = NoTask]
  /\ CloseTo(Without(slotRefs, p), Without(claimRefs, p), Without(gateRefs, p))
  /\ UNCHANGED <<unborn, strayClose>>

-----------------------------------------------------------------------------
TaskStep(t) ==
  \/ StartScan(t) \/ GateClosed(t) \/ TakeSlot(t) \/ SkipSlot(t) \/ LeaveScan(t)
  \/ Claim(t) \/ ClaimRefused(t) \/ Wake(t) \/ DropClaim(t)
  \/ UnwindClaim(t) \/ UnwindSlot(t) \/ Finish(t)

Next ==
  \/ \E t \in Task : \/ TaskStep(t) \/ Enter(t) \/ EndAttempt(t) \/ Repeat(t)
                     \/ ScanError(t) \/ ClaimError(t) \/ Cancel(t)
  \/ \E p, c \in Proc : Fork(p, c)
  \/ \E p \in Proc : AfterForkChild(p) \/ Exit(p)

(* Steps that wait for _held_fds_lock.                                     *)
LockedStep(t) ==
  \/ StartScan(t) \/ GateClosed(t) \/ Claim(t) \/ ClaimRefused(t)
  \/ DropClaim(t) \/ UnwindClaim(t) \/ UnwindSlot(t)

(* asyncio runs every ready coroutine and fires every timer, the HTTP      *)
(* client has a timeout, and os.fork returns in the child.  A coroutine    *)
(* that wants _held_fds_lock gets it in the end although others take it    *)
(* again and again: no code awaits while it holds the lock, so that in one *)
(* event loop it is free whenever a coroutine runs.  Nobody has to issue a *)
(* request, fail, cancel, fork or exit.                                    *)
Fairness ==
  /\ \A t \in Task : /\ WF_vars(TaskStep(t))
                     /\ WF_vars(EndAttempt(t))
                     /\ SF_vars(LockedStep(t))
  /\ \A p \in Proc : WF_vars(AfterForkChild(p))

Spec == Init /\ [][Next]_vars
FairSpec == Spec /\ Fairness

-----------------------------------------------------------------------------
TypeOK ==
  /\ alive \subseteq Proc /\ booting \subseteq alive /\ unborn \subseteq Proc \ alive
  /\ pc \in [Task -> PcValues]
  /\ cursor \in [Task -> 0 .. Capacity]
  /\ slotFd \in [Task -> 0 .. Capacity]
  /\ claimFd \in [Task -> BOOLEAN]
  /\ owner \in [Task -> BOOLEAN]
  /\ memLock \in [Proc -> Task \cup {NoTask}]
  /\ slotLock \in [Slots -> Task \cup {NoTask}]
  /\ gateEx \in Task \cup {NoTask}
  /\ gateSh \subseteq Task
  /\ slotRefs \in [Task -> SUBSET Proc]
  /\ claimRefs \in [Task -> SUBSET Proc]
  /\ gateRefs \in [Task -> SUBSET Proc]
  /\ strayClose \in BOOLEAN

\* The HTTP attempts in flight in the process that was given the slot.
InFlight == {t \in Task : pc[t] = "hold" /\ owner[t]}

(* "Capacity is never exceeded", whatever the processes, forks, deaths and *)
(* cancellations: limiter.py holds a slot for the whole HTTP attempt.      *)
CapacityKept == Cardinality(InFlight) <= Capacity

(* Whoever was given a slot has the lock of that very slot file until it   *)
(* gives it back: no fork, no exit of a child and no other request can     *)
(* unlock it under a running HTTP attempt.                                 *)
HolderKeepsLock ==
  \A t \in Task : owner[t] /\ slotFd[t] # NoSlot =>
      slotLock[slotFd[t]] = t /\ ProcOf(t) \in slotRefs[t]

(* "A process that exits or is killed while waiting or holding leaves      *)
(* nothing behind", and neither does an error, a cancellation or a fork:   *)
(* every slot lock and every claim belongs to a request that still waits   *)
(* or runs, or to a forked child that is about to close it, and the gate   *)
(* is held exclusively only during a document's scan.                      *)
NothingLeftBehind ==
  /\ \A s \in Slots : slotLock[s] # NoTask =>
       LET t == slotLock[s]
       IN (owner[t] /\ slotFd[t] = s) \/ slotRefs[t] \cap booting # {}
  /\ \A t \in gateSh : (owner[t] /\ claimFd[t]) \/ claimRefs[t] \cap booting # {}
  /\ gateEx # NoTask =>
       /\ memLock[ProcOf(gateEx)] = gateEx
       /\ pc[gateEx] \in {"scan", "leave", "raise"}

(* No process closes a descriptor number that the request did not open in  *)
(* that process: the number may name an unrelated file of a forked child.  *)
NoStrayClose == ~strayClose

(* While a query's claim stands no document is given a free slot, in any   *)
(* process.                                                                *)
DocumentsYield ==
  [][\A s \in Slots :
       slotLock'[s] # slotLock[s] /\ slotLock'[s] # NoTask /\ ~IsQuery(slotLock'[s])
         => gateSh = {}]_vars

(* "A slot freed while a query waits goes to the query": a claim ends, by  *)
(* a slot, a cancellation or the end of its process, however many          *)
(* documents keep polling.                                                 *)
ClaimIsAnswered == \A t \in Task : t \in gateSh ~> t \notin gateSh

(* Every request that nobody overtakes for ever is served or given up: no  *)
(* lock is left behind for which the others would wait in vain.            *)
RequestsFinish ==
  \A t \in Task : pc[t] = "try" ~> pc[t] \in {"done", "absent"}

(* The files and descriptors implement the priority semaphore.             *)
SlotHolders == {t \in Task : \E s \in Slots : slotLock[s] = t}

Semaphore == INSTANCE PrioritySemaphore
  WITH Client <- Task,
       QueryClient <- {t \in Task : IsQuery(t)},
       holders <- SlotHolders,
       claims <- gateSh

ImplementsSemaphore == Semaphore!SemSpec

(* Every lock and descriptor has an owner that will give it up, and no     *)
(* other is ever closed: nothing can shrink the capacity, or widen it.     *)
LocksAreAccounted == TypeOK /\ HolderKeepsLock /\ NothingLeftBehind /\ NoStrayClose

(* A slot goes to a document only when no query of the host waits.         *)
PriorityIsKept == DocumentsYield /\ ImplementsSemaphore

-----------------------------------------------------------------------------
(* The strengthening that makes the safety properties inductive.           *)
Scanning == {"scan", "leave", "raise"}

\* _held_fds_lock is held exactly during a scan of its process.
MemLockInv ==
  /\ \A t \in Task : pc[t] \in Scanning <=> memLock[ProcOf(t)] = t
  /\ \A p \in Proc : memLock[p] # NoTask => ProcOf(memLock[p]) = p
  /\ \A t \in Task : pc[t] = "scan" => cursor[t] \in Slots

\* The gate is held exclusively exactly during the scan of a document, and
\* never while a claim stands.
GateInv ==
  /\ \A t \in Task : gateEx = t <=> ~IsQuery(t) /\ pc[t] \in Scanning
  /\ \A t \in Task : gateEx = t => gateRefs[t] = {ProcOf(t)}
  /\ \A t \in Task : gateEx # t => gateRefs[t] = {}
  /\ gateEx # NoTask => gateSh = {}

\* A description is open in the process of its task or in a booting child.
RefsInv ==
  /\ \A t \in Task : \A p \in slotRefs[t] \cup claimRefs[t] : p = ProcOf(t) \/ p \in booting
  /\ \A t \in Task : ProcOf(t) \in slotRefs[t] <=> owner[t] /\ slotFd[t] # NoSlot
  /\ \A t \in Task : ProcOf(t) \in claimRefs[t] <=> owner[t] /\ claimFd[t]
  /\ \A t \in Task : ProcOf(t) \in booting \cup unborn =>
       /\ slotRefs[t] = {} /\ claimRefs[t] = {}
       /\ pc[t] \in {"absent", "idle", "sleep", "hold"}
  /\ \A t \in Task : ProcOf(t) \in unborn => pc[t] = "absent"

\* A lock file names its holder, and the holder's local names the lock file.
LockInv ==
  /\ \A t \in Task : owner[t] /\ slotFd[t] # NoSlot => slotLock[slotFd[t]] = t
  /\ \A s \in Slots : slotLock[s] # NoTask => slotRefs[slotLock[s]] # {}
  /\ \A s \in Slots : slotLock[s] # NoTask =>
       LET t == slotLock[s] IN ProcOf(t) \in slotRefs[t] => slotFd[t] = s
  /\ \A r, s \in Slots : slotLock[r] = slotLock[s] /\ slotLock[r] # NoTask => r = s
  /\ \A t \in gateSh : claimRefs[t] # {} /\ IsQuery(t)
  /\ \A t \in Task : owner[t] /\ claimFd[t] => t \in gateSh

\* Where a task stands says what its locals name.
LocalsOK(t) ==
  /\ pc[t] \in {"idle", "try", "scan", "raise", "claim", "sleep"} =>
       slotFd[t] = NoSlot /\ slotRefs[t] = {}
  /\ pc[t] = "leave" /\ slotFd[t] = NoSlot => slotRefs[t] = {}
  /\ pc[t] \in {"idle", "claim"} => ~claimFd[t]
  /\ pc[t] = "claim" => IsQuery(t)
  /\ pc[t] \in {"drop", "hold"} => slotFd[t] # NoSlot
  /\ pc[t] = "drop" => claimFd[t]
  /\ pc[t] = "hold" /\ owner[t] => ~claimFd[t]
  /\ pc[t] \in {"absent", "done"} => slotFd[t] = NoSlot /\ ~claimFd[t]
  /\ pc[t] \in {"idle", "try", "scan", "leave", "raise", "claim", "sleep"} /\ ~claimFd[t] =>
       claimRefs[t] = {}
  /\ ~owner[t] => /\ pc[t] \in {"sleep", "hold", "unwind"}
                  /\ slotRefs[t] = {} /\ claimRefs[t] = {}
  /\ claimFd[t] => IsQuery(t)

LocalInv == \A t \in Task : LocalsOK(t)

IInv == TypeOK /\ MemLockInv /\ GateInv /\ RefsInv /\ LockInv /\ LocalInv /\ ~strayClose
=============================================================================
