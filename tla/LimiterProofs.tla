--------------------------- MODULE LimiterProofs ---------------------------
(* Theorems about Limiter, for any processes, requests and capacity, and   *)
(* about other parts of the embedding client: CircuitBreaker, QueryCache   *)
(* and SplitText, with state of their own.                                 *)
EXTENDS Limiter, Services, Induction, Sequences, FiniteSetTheorems, SequenceTheorems

LEMMA TaskIsPair ==
  ASSUME NEW t \in Task
  PROVE  /\ ProcOf(t) \in Proc
         /\ t[2] \in Request
         /\ t = <<ProcOf(t), t[2]>>
         /\ t # NoTask
  BY LimiterAssumption DEF Task, ProcOf

LEMMA CursorRange == 0 \in 0 .. Capacity /\ NoSlot \in 0 .. Capacity /\ NoSlot \notin Slots
  BY LimiterAssumption DEF NoSlot, Slots

LEMMA SlotRange == \A n \in 0 .. Capacity : n # NoSlot => n \in Slots
  BY LimiterAssumption DEF NoSlot, Slots

LEMMA InitTypeOK == Init => TypeOK
<1> SUFFICES ASSUME Init PROVE TypeOK
  OBVIOUS
<1>1. alive \subseteq Proc /\ booting \subseteq alive /\ unborn \subseteq Proc \ alive
  BY LimiterAssumption DEF Init
<1>2. pc \in [Task -> PcValues]
  BY DEF Init, PcValues
<1>3. QED
  BY <1>1, <1>2, CursorRange DEF Init, TypeOK

RefsType == [Task -> SUBSET Proc]
LocksTypeOK ==
  /\ slotLock \in [Slots -> Task \cup {NoTask}]
  /\ gateEx \in Task \cup {NoTask}
  /\ gateSh \subseteq Task
  /\ slotRefs \in RefsType
  /\ claimRefs \in RefsType
  /\ gateRefs \in RefsType

LEMMA CloseToType ==
  ASSUME TypeOK, NEW s \in RefsType, NEW c \in RefsType, NEW g \in RefsType, CloseTo(s, c, g)
  PROVE  LocksTypeOK'
  BY DEF CloseTo, TypeOK, LocksTypeOK, RefsType

LEMMA ReleaseType ==
  ASSUME TypeOK, NEW t \in Task, ReleaseSlot(t) \/ ReleaseClaim(t)
  PROVE  LocksTypeOK' /\ strayClose' \in BOOLEAN
<1>1. CASE UNCHANGED locks
  BY <1>1 DEF ReleaseSlot, ReleaseClaim, TypeOK, LocksTypeOK, RefsType, locks
<1>2. CASE ReleaseSlot(t) /\ ~UNCHANGED locks
  BY <1>2 DEF ReleaseSlot, TypeOK, LocksTypeOK, RefsType
<1>3. CASE ReleaseClaim(t) /\ ~UNCHANGED locks
  BY <1>3 DEF ReleaseClaim, TypeOK, LocksTypeOK, RefsType
<1>4. QED
  BY <1>1, <1>2, <1>3

LEMMA InheritedType ==
  ASSUME NEW r \in RefsType, NEW p \in Proc, NEW c \in Proc
  PROVE  Inherited(r, p, c) \in RefsType /\ Without(r, p) \in RefsType
  BY DEF RefsType, Inherited, Without

LEMMA StepTypeOK == TypeOK /\ [Next]_vars => TypeOK'
<1> SUFFICES ASSUME TypeOK, [Next]_vars PROVE TypeOK'
  OBVIOUS
<1> USE TaskIsPair DEF At, Goto, PcValues, procs, locks, locals
<1>1. ASSUME NEW t \in Task, TaskStep(t) PROVE TypeOK'
  <2>1. CASE StartScan(t)
    <3>1. cursor' \in [Task -> 0 .. Capacity]
      BY <2>1, CursorRange DEF StartScan, TypeOK
    <3>2. gateEx' \in Task \cup {NoTask} /\ gateRefs' \in [Task -> SUBSET Proc]
      BY <2>1 DEF StartScan, TypeOK
    <3>3. QED
      BY <2>1, <3>1, <3>2 DEF StartScan, TypeOK
  <2>2. CASE GateClosed(t)
    BY <2>2 DEF GateClosed, TypeOK
  <2>3. CASE TakeSlot(t)
    BY <2>3 DEF TakeSlot, TypeOK, Slots
  <2>4. CASE SkipSlot(t)
    <3>1. cursor[t] + 1 \in 0 .. Capacity
      BY <2>4, LimiterAssumption DEF SkipSlot, Slots
    <3>2. QED
      BY <2>4, <3>1 DEF SkipSlot, TypeOK
  <2>5. CASE LeaveScan(t)
    <3>1. LocksTypeOK'
      <4>1. [gateRefs EXCEPT ![t] = @ \ {ProcOf(t)}] \in RefsType
        BY DEF TypeOK, RefsType
      <4>2. QED
        BY <2>5, <4>1, CloseToType DEF LeaveScan, TypeOK, RefsType
    <3>2. AfterScan(t) \in PcValues
      BY DEF AfterScan
    <3>3. 0 \in 0 .. Capacity
      BY LimiterAssumption
    <3>4. QED
      BY <2>5, <3>1, <3>2, <3>3 DEF LeaveScan, TypeOK, LocksTypeOK, RefsType
  <2>6. CASE Claim(t)
    BY <2>6 DEF Claim, TypeOK
  <2>7. CASE ClaimRefused(t)
    BY <2>7 DEF ClaimRefused, TypeOK
  <2>8. CASE Wake(t)
    BY <2>8 DEF Wake, TypeOK
  <2>9. CASE DropClaim(t)
    BY <2>9, ReleaseType DEF DropClaim, TypeOK, LocksTypeOK, RefsType
  <2>10. CASE UnwindClaim(t)
    BY <2>10, ReleaseType DEF UnwindClaim, TypeOK, LocksTypeOK, RefsType
  <2>11. CASE UnwindSlot(t)
    BY <2>11, ReleaseType, CursorRange DEF UnwindSlot, TypeOK, LocksTypeOK, RefsType
  <2>12. CASE Finish(t)
    BY <2>12, LimiterAssumption DEF Finish, TypeOK, NoSlot
  <2>13. QED
    BY <1>1, <2>1, <2>2, <2>3, <2>4, <2>5, <2>6, <2>7, <2>8, <2>9, <2>10, <2>11, <2>12
       DEF TaskStep
<1>2. ASSUME NEW t \in Task,
             Enter(t) \/ EndAttempt(t) \/ Repeat(t) \/ ScanError(t) \/ ClaimError(t) \/ Cancel(t)
      PROVE  TypeOK'
  BY <1>2 DEF Enter, EndAttempt, Repeat, ScanError, ClaimError, Cancel, TypeOK
<1>3. ASSUME NEW p \in Proc, NEW c \in Proc, Fork(p, c) PROVE TypeOK'
  <2>1. slotRefs' \in RefsType /\ claimRefs' \in RefsType /\ gateRefs' \in RefsType
    BY <1>3, InheritedType DEF Fork, TypeOK, RefsType
  <2>2. PICK copied \in SUBSET {r \in Request : pc[<<p, r>>] \in {"sleep", "hold"}} : CopyTasks(p, c, copied)
    BY <1>3 DEF Fork
  <2>3. \A t \in Task : <<p, t[2]>> \in Task
    BY DEF Task
  <2>4. /\ pc' \in [Task -> PcValues] /\ slotFd' \in [Task -> 0 .. Capacity]
        /\ claimFd' \in [Task -> BOOLEAN] /\ owner' \in [Task -> BOOLEAN]
    <3>1. pc' \in [Task -> PcValues]
      BY <2>2, <2>3 DEF TypeOK, CopyTasks
    <3>2. slotFd' \in [Task -> 0 .. Capacity]
      BY <2>2, <2>3 DEF TypeOK, CopyTasks
    <3>3. claimFd' \in [Task -> BOOLEAN] /\ owner' \in [Task -> BOOLEAN]
      BY <2>2, <2>3 DEF TypeOK, CopyTasks
    <3>4. QED
      BY <3>1, <3>2, <3>3
  <2>5. QED
    BY <1>3, <2>1, <2>4 DEF Fork, TypeOK, RefsType
<1>4. ASSUME NEW c \in Proc, AfterForkChild(c) PROVE TypeOK'
  <2>1. LocksTypeOK'
    BY <1>4, CloseToType, InheritedType DEF AfterForkChild, TypeOK, RefsType
  <2>2. QED
    BY <1>4, <2>1 DEF AfterForkChild, TypeOK, LocksTypeOK, RefsType
<1>5. ASSUME NEW p \in Proc, Exit(p) PROVE TypeOK'
  <2>1. LocksTypeOK'
    BY <1>5, CloseToType, InheritedType DEF Exit, TypeOK, RefsType
  <2>2. /\ pc' \in [Task -> PcValues] /\ slotFd' \in [Task -> 0 .. Capacity]
        /\ cursor' \in [Task -> 0 .. Capacity]
        /\ claimFd' \in [Task -> BOOLEAN] /\ owner' \in [Task -> BOOLEAN]
    BY <1>5, CursorRange DEF Exit, TypeOK
  <2>3. QED
    BY <1>5, <2>1, <2>2 DEF Exit, TypeOK, LocksTypeOK, RefsType
<1>6. CASE UNCHANGED vars
  BY <1>6 DEF vars, TypeOK
<1>7. QED
  BY <1>1, <1>2, <1>3, <1>4, <1>5, <1>6 DEF Next

(* Every variable keeps its type. *)
THEOREM TypeCorrect == Spec => []TypeOK
  BY InitTypeOK, StepTypeOK, PTL DEF Spec

-----------------------------------------------------------------------------
LEMMA InitIInv == Init => IInv
<1> SUFFICES ASSUME Init PROVE IInv
  OBVIOUS
<1>1. TypeOK
  BY InitTypeOK
<1> USE TaskIsPair, CursorRange DEF Init, Scanning
<1>2. MemLockInv /\ GateInv
  BY DEF MemLockInv, GateInv
<1>3. RefsInv
  BY LimiterAssumption DEF RefsInv
<1>4. LockInv
  BY DEF LockInv
<1>5. LocalInv
  BY DEF LocalInv, LocalsOK
<1>6. QED
  BY <1>1, <1>2, <1>3, <1>4, <1>5 DEF IInv

-----------------------------------------------------------------------------
(* Every step of a task preserves IInv, one lemma per action.              *)

LEMMA EnterStep ==
  ASSUME IInv, TypeOK', NEW t \in Task, Enter(t)
  PROVE  IInv'
<1> USE TaskIsPair, CursorRange DEF IInv, Enter, At, Goto, procs, locks, locals, TypeOK, Scanning
<1>1. MemLockInv'
  BY DEF MemLockInv, GateInv, RefsInv, LockInv, LocalInv, LocalsOK
<1>2. GateInv'
  BY DEF MemLockInv, GateInv, RefsInv, LockInv, LocalInv, LocalsOK
<1>3. RefsInv'
  BY DEF MemLockInv, GateInv, RefsInv, LockInv, LocalInv, LocalsOK
<1>4. LockInv'
  BY DEF MemLockInv, GateInv, RefsInv, LockInv, LocalInv, LocalsOK
<1>5. LocalInv'
  BY DEF MemLockInv, GateInv, RefsInv, LockInv, LocalInv, LocalsOK
<1>6. ~strayClose'
  BY DEF MemLockInv, GateInv, RefsInv, LockInv, LocalInv, LocalsOK
<1>7. QED
  BY <1>1, <1>2, <1>3, <1>4, <1>5, <1>6

LEMMA StartScanStep ==
  ASSUME IInv, TypeOK', NEW t \in Task, StartScan(t)
  PROVE  IInv'
<1> USE TaskIsPair, CursorRange DEF IInv, StartScan, At, Goto, procs, locks, locals, TypeOK, Scanning
<1>1. MemLockInv'
  <2>1. \A x \in Task : pc'[x] = IF x = t THEN "scan" ELSE pc[x]
    OBVIOUS
  <2>2. \A p \in Proc : memLock'[p] = IF p = ProcOf(t) THEN t ELSE memLock[p]
    OBVIOUS
  <2>3. 0 \in Slots /\ \A x \in Task : cursor'[x] = IF x = t THEN 0 ELSE cursor[x]
    BY LimiterAssumption DEF Slots
  <2>4. memLock[ProcOf(t)] = NoTask
    BY DEF MemLockFree
  <2>5. QED
    BY <2>1, <2>2, <2>3, <2>4 DEF MemLockInv
<1>2. GateInv'
  BY DEF MemLockInv, GateInv, RefsInv, LockInv, LocalInv, LocalsOK
<1>3. RefsInv'
  BY DEF MemLockInv, GateInv, RefsInv, LockInv, LocalInv, LocalsOK
<1>4. LockInv'
  BY DEF MemLockInv, GateInv, RefsInv, LockInv, LocalInv, LocalsOK
<1>5. LocalInv'
  BY DEF MemLockInv, GateInv, RefsInv, LockInv, LocalInv, LocalsOK
<1>6. ~strayClose'
  BY DEF MemLockInv, GateInv, RefsInv, LockInv, LocalInv, LocalsOK
<1>7. QED
  BY <1>1, <1>2, <1>3, <1>4, <1>5, <1>6

LEMMA GateClosedStep ==
  ASSUME IInv, TypeOK', NEW t \in Task, GateClosed(t)
  PROVE  IInv'
<1> USE TaskIsPair, CursorRange DEF IInv, GateClosed, At, Goto, procs, locks, locals, TypeOK, Scanning
<1>1. MemLockInv'
  BY DEF MemLockInv, GateInv, RefsInv, LockInv, LocalInv, LocalsOK
<1>2. GateInv'
  BY DEF MemLockInv, GateInv, RefsInv, LockInv, LocalInv, LocalsOK
<1>3. RefsInv'
  BY DEF MemLockInv, GateInv, RefsInv, LockInv, LocalInv, LocalsOK
<1>4. LockInv'
  BY DEF MemLockInv, GateInv, RefsInv, LockInv, LocalInv, LocalsOK
<1>5. LocalInv'
  BY DEF MemLockInv, GateInv, RefsInv, LockInv, LocalInv, LocalsOK
<1>6. ~strayClose'
  BY DEF MemLockInv, GateInv, RefsInv, LockInv, LocalInv, LocalsOK
<1>7. QED
  BY <1>1, <1>2, <1>3, <1>4, <1>5, <1>6

LEMMA TakeSlotStep ==
  ASSUME IInv, TypeOK', NEW t \in Task, TakeSlot(t)
  PROVE  IInv'
<1> USE TaskIsPair, CursorRange
<1> DEFINE s0 == cursor[t]
<1>1. /\ pc[t] = "scan" /\ s0 \in Slots /\ slotLock[s0] = NoTask
      /\ ProcOf(t) \notin booting /\ ProcOf(t) \notin unborn
      /\ UNCHANGED <<alive, booting, unborn, cursor, claimFd, owner, memLock,
                     gateEx, gateSh, claimRefs, gateRefs, strayClose>>
  BY DEF TakeSlot, At, procs, IInv, TypeOK
<1>2. owner[t] /\ slotRefs[t] = {} /\ slotFd[t] = NoSlot
  BY <1>1 DEF IInv, LocalInv, LocalsOK
<1>3. \A x \in Task : slotFd'[x] = IF x = t THEN s0 ELSE slotFd[x]
  BY DEF TakeSlot, IInv, TypeOK
<1>4. \A x \in Task : slotRefs'[x] = IF x = t THEN {ProcOf(t)} ELSE slotRefs[x]
  BY DEF TakeSlot, IInv, TypeOK
<1>5. \A s \in Slots : slotLock'[s] = IF s = s0 THEN t ELSE slotLock[s]
  BY <1>1 DEF TakeSlot, IInv, TypeOK
<1>6. \A x \in Task : pc'[x] = IF x = t THEN "leave" ELSE pc[x]
  BY DEF TakeSlot, Goto, IInv, TypeOK
<1> HIDE DEF s0
<1>7. MemLockInv' /\ GateInv'
  BY <1>1, <1>6 DEF IInv, MemLockInv, GateInv, Scanning
<1>8. RefsInv'
  <2>1. s0 # NoSlot
    BY <1>1
  <2>2. QED
    BY <1>1, <1>2, <1>3, <1>4, <1>6, <2>1 DEF IInv, RefsInv
<1>9. LockInv'
  <2>1. \A x \in Task : owner'[x] /\ slotFd'[x] # NoSlot => slotLock'[slotFd'[x]] = x
    BY <1>1, <1>3, <1>5, SlotRange DEF IInv, LockInv, TypeOK
  <2>2. \A s \in Slots : slotLock[s] # t
    BY <1>2 DEF IInv, LockInv
  <2>3. \A s \in Slots : slotLock[s] \in Task \cup {NoTask}
    BY DEF IInv, TypeOK
  <2>4. QED
    BY <1>1, <1>3, <1>4, <1>5, <2>1, <2>2, <2>3 DEF IInv, LockInv
<1>10. LocalInv'
  BY <1>1, <1>2, <1>3, <1>4, <1>6 DEF IInv, LocalInv, LocalsOK
<1>11. QED
  BY <1>1, <1>7, <1>8, <1>9, <1>10 DEF IInv

LEMMA SkipSlotStep ==
  ASSUME IInv, TypeOK', NEW t \in Task, SkipSlot(t)
  PROVE  IInv'
<1> USE TaskIsPair, CursorRange DEF IInv, SkipSlot, At, Goto, procs, locks, locals, TypeOK, Scanning
<1>1. MemLockInv'
  BY DEF MemLockInv, GateInv, RefsInv, LockInv, LocalInv, LocalsOK
<1>2. GateInv'
  BY DEF MemLockInv, GateInv, RefsInv, LockInv, LocalInv, LocalsOK
<1>3. RefsInv'
  BY DEF MemLockInv, GateInv, RefsInv, LockInv, LocalInv, LocalsOK
<1>4. LockInv'
  BY DEF MemLockInv, GateInv, RefsInv, LockInv, LocalInv, LocalsOK
<1>5. LocalInv'
  BY DEF MemLockInv, GateInv, RefsInv, LockInv, LocalInv, LocalsOK
<1>6. ~strayClose'
  BY DEF MemLockInv, GateInv, RefsInv, LockInv, LocalInv, LocalsOK
<1>7. QED
  BY <1>1, <1>2, <1>3, <1>4, <1>5, <1>6

LEMMA ScanErrorStep ==
  ASSUME IInv, TypeOK', NEW t \in Task, ScanError(t)
  PROVE  IInv'
<1> USE TaskIsPair, CursorRange DEF IInv, ScanError, At, Goto, procs, locks, locals, TypeOK, Scanning
<1>1. MemLockInv'
  BY DEF MemLockInv, GateInv, RefsInv, LockInv, LocalInv, LocalsOK
<1>2. GateInv'
  BY DEF MemLockInv, GateInv, RefsInv, LockInv, LocalInv, LocalsOK
<1>3. RefsInv'
  BY DEF MemLockInv, GateInv, RefsInv, LockInv, LocalInv, LocalsOK
<1>4. LockInv'
  BY DEF MemLockInv, GateInv, RefsInv, LockInv, LocalInv, LocalsOK
<1>5. LocalInv'
  BY DEF MemLockInv, GateInv, RefsInv, LockInv, LocalInv, LocalsOK
<1>6. ~strayClose'
  BY DEF MemLockInv, GateInv, RefsInv, LockInv, LocalInv, LocalsOK
<1>7. QED
  BY <1>1, <1>2, <1>3, <1>4, <1>5, <1>6

LEMMA LeaveScanStep ==
  ASSUME IInv, TypeOK', NEW t \in Task, LeaveScan(t)
  PROVE  IInv'
<1> USE TaskIsPair, CursorRange DEF IInv, LeaveScan, At, Goto, procs, locks, locals, TypeOK, Scanning, CloseTo, AfterScan
<1>1. MemLockInv'
  BY DEF MemLockInv, GateInv, RefsInv, LockInv, LocalInv, LocalsOK
<1>2. GateInv'
  BY DEF MemLockInv, GateInv, RefsInv, LockInv, LocalInv, LocalsOK
<1>3. RefsInv'
  BY DEF MemLockInv, GateInv, RefsInv, LockInv, LocalInv, LocalsOK
<1>4. LockInv'
  <2>1. \A s \in Slots : slotLock'[s] = slotLock[s]
    BY DEF LockInv
  <2>2. gateSh' = gateSh
    BY DEF LockInv
  <2>3. QED
    BY <2>1, <2>2 DEF LockInv
<1>5. LocalInv'
  BY DEF MemLockInv, GateInv, RefsInv, LockInv, LocalInv, LocalsOK
<1>6. ~strayClose'
  BY DEF MemLockInv, GateInv, RefsInv, LockInv, LocalInv, LocalsOK
<1>7. QED
  BY <1>1, <1>2, <1>3, <1>4, <1>5, <1>6

LEMMA ClaimStep ==
  ASSUME IInv, TypeOK', NEW t \in Task, Claim(t)
  PROVE  IInv'
<1> USE TaskIsPair, CursorRange DEF IInv, Claim, At, Goto, procs, locks, locals, TypeOK, Scanning
<1>1. MemLockInv'
  BY DEF MemLockInv, GateInv, RefsInv, LockInv, LocalInv, LocalsOK
<1>2. GateInv'
  BY DEF MemLockInv, GateInv, RefsInv, LockInv, LocalInv, LocalsOK
<1>3. RefsInv'
  BY DEF MemLockInv, GateInv, RefsInv, LockInv, LocalInv, LocalsOK
<1>4. LockInv'
  BY DEF MemLockInv, GateInv, RefsInv, LockInv, LocalInv, LocalsOK
<1>5. LocalInv'
  BY DEF MemLockInv, GateInv, RefsInv, LockInv, LocalInv, LocalsOK
<1>6. ~strayClose'
  BY DEF MemLockInv, GateInv, RefsInv, LockInv, LocalInv, LocalsOK
<1>7. QED
  BY <1>1, <1>2, <1>3, <1>4, <1>5, <1>6

LEMMA ClaimRefusedStep ==
  ASSUME IInv, TypeOK', NEW t \in Task, ClaimRefused(t)
  PROVE  IInv'
<1> USE TaskIsPair, CursorRange DEF IInv, ClaimRefused, At, Goto, procs, locks, locals, TypeOK, Scanning
<1>1. MemLockInv'
  BY DEF MemLockInv, GateInv, RefsInv, LockInv, LocalInv, LocalsOK
<1>2. GateInv'
  BY DEF MemLockInv, GateInv, RefsInv, LockInv, LocalInv, LocalsOK
<1>3. RefsInv'
  BY DEF MemLockInv, GateInv, RefsInv, LockInv, LocalInv, LocalsOK
<1>4. LockInv'
  BY DEF MemLockInv, GateInv, RefsInv, LockInv, LocalInv, LocalsOK
<1>5. LocalInv'
  BY DEF MemLockInv, GateInv, RefsInv, LockInv, LocalInv, LocalsOK
<1>6. ~strayClose'
  BY DEF MemLockInv, GateInv, RefsInv, LockInv, LocalInv, LocalsOK
<1>7. QED
  BY <1>1, <1>2, <1>3, <1>4, <1>5, <1>6

LEMMA ClaimErrorStep ==
  ASSUME IInv, TypeOK', NEW t \in Task, ClaimError(t)
  PROVE  IInv'
<1> USE TaskIsPair, CursorRange DEF IInv, ClaimError, At, Goto, procs, locks, locals, TypeOK, Scanning
<1>1. MemLockInv'
  BY DEF MemLockInv, GateInv, RefsInv, LockInv, LocalInv, LocalsOK
<1>2. GateInv'
  BY DEF MemLockInv, GateInv, RefsInv, LockInv, LocalInv, LocalsOK
<1>3. RefsInv'
  BY DEF MemLockInv, GateInv, RefsInv, LockInv, LocalInv, LocalsOK
<1>4. LockInv'
  BY DEF MemLockInv, GateInv, RefsInv, LockInv, LocalInv, LocalsOK
<1>5. LocalInv'
  BY DEF MemLockInv, GateInv, RefsInv, LockInv, LocalInv, LocalsOK
<1>6. ~strayClose'
  BY DEF MemLockInv, GateInv, RefsInv, LockInv, LocalInv, LocalsOK
<1>7. QED
  BY <1>1, <1>2, <1>3, <1>4, <1>5, <1>6

LEMMA WakeStep ==
  ASSUME IInv, TypeOK', NEW t \in Task, Wake(t)
  PROVE  IInv'
<1> USE TaskIsPair, CursorRange DEF IInv, Wake, At, Goto, procs, locks, locals, TypeOK, Scanning
<1>1. MemLockInv'
  BY DEF MemLockInv, GateInv, RefsInv, LockInv, LocalInv, LocalsOK
<1>2. GateInv'
  BY DEF MemLockInv, GateInv, RefsInv, LockInv, LocalInv, LocalsOK
<1>3. RefsInv'
  BY DEF MemLockInv, GateInv, RefsInv, LockInv, LocalInv, LocalsOK
<1>4. LockInv'
  BY DEF MemLockInv, GateInv, RefsInv, LockInv, LocalInv, LocalsOK
<1>5. LocalInv'
  BY DEF MemLockInv, GateInv, RefsInv, LockInv, LocalInv, LocalsOK
<1>6. ~strayClose'
  BY DEF MemLockInv, GateInv, RefsInv, LockInv, LocalInv, LocalsOK
<1>7. QED
  BY <1>1, <1>2, <1>3, <1>4, <1>5, <1>6

LEMMA CancelStep ==
  ASSUME IInv, TypeOK', NEW t \in Task, Cancel(t)
  PROVE  IInv'
<1> USE TaskIsPair, CursorRange DEF IInv, Cancel, At, Goto, procs, locks, locals, TypeOK, Scanning
<1>1. MemLockInv'
  BY DEF MemLockInv, GateInv, RefsInv, LockInv, LocalInv, LocalsOK
<1>2. GateInv'
  BY DEF MemLockInv, GateInv, RefsInv, LockInv, LocalInv, LocalsOK
<1>3. RefsInv'
  BY DEF MemLockInv, GateInv, RefsInv, LockInv, LocalInv, LocalsOK
<1>4. LockInv'
  BY DEF MemLockInv, GateInv, RefsInv, LockInv, LocalInv, LocalsOK
<1>5. LocalInv'
  BY DEF MemLockInv, GateInv, RefsInv, LockInv, LocalInv, LocalsOK
<1>6. ~strayClose'
  BY DEF MemLockInv, GateInv, RefsInv, LockInv, LocalInv, LocalsOK
<1>7. QED
  BY <1>1, <1>2, <1>3, <1>4, <1>5, <1>6

LEMMA DropClaimStep ==
  ASSUME IInv, TypeOK', NEW t \in Task, DropClaim(t)
  PROVE  IInv'
<1> USE TaskIsPair, CursorRange DEF IInv, DropClaim, At, Goto, procs, locks, locals, TypeOK, Scanning, ReleaseClaim
<1>1. MemLockInv'
  BY DEF MemLockInv, GateInv, RefsInv, LockInv, LocalInv, LocalsOK
<1>2. GateInv'
  BY DEF MemLockInv, GateInv, RefsInv, LockInv, LocalInv, LocalsOK
<1>3. RefsInv'
  <2>1. ProcOf(t) \in claimRefs[t] /\ owner[t] /\ claimFd[t]
    BY DEF RefsInv, LocalInv, LocalsOK
  <2>2. \A x \in Task : claimRefs'[x] = IF x = t THEN claimRefs[t] \ {ProcOf(t)} ELSE claimRefs[x]
    BY <2>1
  <2>3. \A x \in Task : claimFd'[x] = IF x = t THEN FALSE ELSE claimFd[x]
    OBVIOUS
  <2>4. slotRefs' = slotRefs
    BY <2>1
  <2>5. QED
    BY <2>1, <2>2, <2>3, <2>4 DEF RefsInv
<1>4. LockInv'
  BY DEF MemLockInv, GateInv, RefsInv, LockInv, LocalInv, LocalsOK
<1>5. LocalInv'
  BY DEF MemLockInv, GateInv, RefsInv, LockInv, LocalInv, LocalsOK
<1>6. ~strayClose'
  BY DEF MemLockInv, GateInv, RefsInv, LockInv, LocalInv, LocalsOK
<1>7. QED
  BY <1>1, <1>2, <1>3, <1>4, <1>5, <1>6

LEMMA EndAttemptStep ==
  ASSUME IInv, TypeOK', NEW t \in Task, EndAttempt(t)
  PROVE  IInv'
<1> USE TaskIsPair, CursorRange DEF IInv, EndAttempt, At, Goto, procs, locks, locals, TypeOK, Scanning
<1>1. MemLockInv'
  BY DEF MemLockInv, GateInv, RefsInv, LockInv, LocalInv, LocalsOK
<1>2. GateInv'
  BY DEF MemLockInv, GateInv, RefsInv, LockInv, LocalInv, LocalsOK
<1>3. RefsInv'
  BY DEF MemLockInv, GateInv, RefsInv, LockInv, LocalInv, LocalsOK
<1>4. LockInv'
  BY DEF MemLockInv, GateInv, RefsInv, LockInv, LocalInv, LocalsOK
<1>5. LocalInv'
  BY DEF MemLockInv, GateInv, RefsInv, LockInv, LocalInv, LocalsOK
<1>6. ~strayClose'
  BY DEF MemLockInv, GateInv, RefsInv, LockInv, LocalInv, LocalsOK
<1>7. QED
  BY <1>1, <1>2, <1>3, <1>4, <1>5, <1>6

LEMMA UnwindClaimStep ==
  ASSUME IInv, TypeOK', NEW t \in Task, UnwindClaim(t)
  PROVE  IInv'
<1> USE TaskIsPair, CursorRange DEF IInv, UnwindClaim, At, Goto, procs, locks, locals, TypeOK, Scanning, ReleaseClaim
<1>1. MemLockInv'
  BY DEF MemLockInv, GateInv, RefsInv, LockInv, LocalInv, LocalsOK
<1>2. GateInv'
  BY DEF MemLockInv, GateInv, RefsInv, LockInv, LocalInv, LocalsOK
<1>3. RefsInv'
  <2>1. ProcOf(t) \in claimRefs[t] /\ owner[t] /\ claimFd[t]
    BY DEF RefsInv, LocalInv, LocalsOK
  <2>2. \A x \in Task : claimRefs'[x] = IF x = t THEN claimRefs[t] \ {ProcOf(t)} ELSE claimRefs[x]
    BY <2>1
  <2>3. \A x \in Task : claimFd'[x] = IF x = t THEN FALSE ELSE claimFd[x]
    OBVIOUS
  <2>4. slotRefs' = slotRefs
    BY <2>1
  <2>5. QED
    BY <2>1, <2>2, <2>3, <2>4 DEF RefsInv
<1>4. LockInv'
  BY DEF MemLockInv, GateInv, RefsInv, LockInv, LocalInv, LocalsOK
<1>5. LocalInv'
  BY DEF MemLockInv, GateInv, RefsInv, LockInv, LocalInv, LocalsOK
<1>6. ~strayClose'
  BY DEF MemLockInv, GateInv, RefsInv, LockInv, LocalInv, LocalsOK
<1>7. QED
  BY <1>1, <1>2, <1>3, <1>4, <1>5, <1>6

LEMMA UnwindSlotStep ==
  ASSUME IInv, TypeOK', NEW t \in Task, UnwindSlot(t)
  PROVE  IInv'
<1> USE TaskIsPair, CursorRange
<1>1. /\ pc[t] = "unwind" /\ owner[t] /\ slotFd[t] # NoSlot /\ ~claimFd[t]
      /\ ProcOf(t) \in slotRefs[t] /\ ProcOf(t) \notin booting /\ ProcOf(t) \in alive
      /\ UNCHANGED <<alive, booting, unborn, pc, cursor, claimFd, owner, memLock,
                     gateEx, gateSh, claimRefs, gateRefs, strayClose>>
  <2>1. ProcOf(t) \in slotRefs[t]
    BY DEF UnwindSlot, At, IInv, RefsInv
  <2>2. QED
    BY <2>1 DEF UnwindSlot, At, ReleaseSlot, procs
<1>2. \A x \in Task : slotFd'[x] = IF x = t THEN NoSlot ELSE slotFd[x]
  BY DEF UnwindSlot, IInv, TypeOK
<1>3. \A x \in Task : slotRefs'[x] = IF x = t THEN slotRefs[t] \ {ProcOf(t)} ELSE slotRefs[x]
  BY <1>1 DEF UnwindSlot, ReleaseSlot, IInv, TypeOK
<1>4. \A s \in Slots : slotLock'[s] = IF slotLock[s] = t THEN NoTask ELSE slotLock[s]
  BY <1>1 DEF UnwindSlot, ReleaseSlot
<1>5. MemLockInv' /\ GateInv'
  BY <1>1 DEF IInv, MemLockInv, GateInv
<1>6. RefsInv'
  <2>1. \A x \in Task : \A p \in slotRefs'[x] \cup claimRefs'[x] :
          p = ProcOf(x) \/ p \in booting'
    BY <1>1, <1>3 DEF IInv, RefsInv
  <2>2. \A x \in Task : ProcOf(x) \in slotRefs'[x] <=> owner'[x] /\ slotFd'[x] # NoSlot
    BY <1>1, <1>2, <1>3 DEF IInv, RefsInv
  <2>3. QED
    BY <1>1, <1>3, <2>1, <2>2 DEF IInv, RefsInv
<1>7. LockInv'
  <2>1. \A x \in Task : owner'[x] /\ slotFd'[x] # NoSlot => slotLock'[slotFd'[x]] = x
    BY <1>1, <1>2, <1>4, SlotRange DEF IInv, LockInv, TypeOK
  <2>2. \A s \in Slots : slotLock'[s] # NoTask =>
          /\ slotLock'[s] = slotLock[s] /\ slotLock[s] \in Task
          /\ slotLock[s] # t
    BY <1>4 DEF IInv, TypeOK
  <2>3. QED
    BY <1>1, <1>2, <1>3, <2>1, <2>2 DEF IInv, LockInv
<1>8. LocalInv'
  BY <1>1, <1>2, <1>3 DEF IInv, LocalInv, LocalsOK
<1>9. QED
  BY <1>1, <1>5, <1>6, <1>7, <1>8 DEF IInv

LEMMA FinishStep ==
  ASSUME IInv, TypeOK', NEW t \in Task, Finish(t)
  PROVE  IInv'
<1> USE TaskIsPair, CursorRange DEF IInv, Finish, At, Goto, procs, locks, locals, TypeOK, Scanning
<1>1. MemLockInv'
  BY DEF MemLockInv, GateInv, RefsInv, LockInv, LocalInv, LocalsOK
<1>2. GateInv'
  BY DEF MemLockInv, GateInv, RefsInv, LockInv, LocalInv, LocalsOK
<1>3. RefsInv'
  BY DEF MemLockInv, GateInv, RefsInv, LockInv, LocalInv, LocalsOK
<1>4. LockInv'
  BY DEF MemLockInv, GateInv, RefsInv, LockInv, LocalInv, LocalsOK
<1>5. LocalInv'
  BY DEF MemLockInv, GateInv, RefsInv, LockInv, LocalInv, LocalsOK
<1>6. ~strayClose'
  BY DEF MemLockInv, GateInv, RefsInv, LockInv, LocalInv, LocalsOK
<1>7. QED
  BY <1>1, <1>2, <1>3, <1>4, <1>5, <1>6

LEMMA RepeatStep ==
  ASSUME IInv, TypeOK', NEW t \in Task, Repeat(t)
  PROVE  IInv'
<1> USE TaskIsPair, CursorRange DEF IInv, Repeat, At, Goto, procs, locks, locals, TypeOK, Scanning
<1>1. MemLockInv'
  BY DEF MemLockInv, GateInv, RefsInv, LockInv, LocalInv, LocalsOK
<1>2. GateInv'
  BY DEF MemLockInv, GateInv, RefsInv, LockInv, LocalInv, LocalsOK
<1>3. RefsInv'
  BY DEF MemLockInv, GateInv, RefsInv, LockInv, LocalInv, LocalsOK
<1>4. LockInv'
  BY DEF MemLockInv, GateInv, RefsInv, LockInv, LocalInv, LocalsOK
<1>5. LocalInv'
  BY DEF MemLockInv, GateInv, RefsInv, LockInv, LocalInv, LocalsOK
<1>6. ~strayClose'
  BY DEF MemLockInv, GateInv, RefsInv, LockInv, LocalInv, LocalsOK
<1>7. QED
  BY <1>1, <1>2, <1>3, <1>4, <1>5, <1>6

-----------------------------------------------------------------------------
(* Forks and deaths preserve IInv.                                         *)

LEMMA ForkStep ==
  ASSUME IInv, TypeOK', NEW p \in Proc, NEW c \in Proc, Fork(p, c)
  PROVE  IInv'
<1> USE TaskIsPair, CursorRange DEF IInv, TypeOK, Scanning, Inherited
<1>0. PICK copied \in SUBSET {r \in Request : pc[<<p, r>>] \in {"sleep", "hold"}} :
        CopyTasks(p, c, copied)
  BY DEF Fork
<1>1. \A t \in Task : <<p, t[2]>> \in Task
  BY DEF Task
<1>2. \A t \in Task : ProcOf(t) = c /\ t[2] \in copied => pc[<<p, t[2]>>] \in {"sleep", "hold"}
  OBVIOUS
<1>3. MemLockInv'
  <2>1. \A t \in Task : ProcOf(t) = c => pc'[t] \notin Scanning /\ pc[t] = "absent"
    <3>1. \A t \in Task : ProcOf(t) = c => pc[t] = "absent"
      BY DEF Fork, RefsInv
    <3>2. \A t \in Task : ProcOf(t) = c => pc'[t] = IF t[2] \in copied THEN pc[<<p, t[2]>>] ELSE "idle"
      BY <1>0 DEF CopyTasks
    <3>3. QED
      BY <1>2, <3>1, <3>2
  <2>2. \A t \in Task : ProcOf(t) # c => pc'[t] = pc[t]
    BY <1>0 DEF CopyTasks
  <2>3. QED
    BY <2>1, <2>2 DEF Fork, MemLockInv
<1>4. GateInv'
  BY <1>0, <1>1, <1>2 DEF Fork, CopyTasks, MemLockInv, GateInv, RefsInv, LockInv, LocalInv, LocalsOK
<1>5. RefsInv'
  BY <1>0, <1>1, <1>2 DEF Fork, CopyTasks, MemLockInv, GateInv, RefsInv, LockInv, LocalInv, LocalsOK
<1>6. LockInv'
  BY <1>0, <1>1, <1>2 DEF Fork, CopyTasks, MemLockInv, GateInv, RefsInv, LockInv, LocalInv, LocalsOK
<1>7. LocalInv'
  <2> SUFFICES ASSUME NEW t \in Task PROVE LocalsOK(t)'
    BY DEF LocalInv
  <2>1. CASE ProcOf(t) # c
    BY <1>0, <2>1 DEF Fork, CopyTasks, RefsInv, LocalInv, LocalsOK
  <2>2. CASE ProcOf(t) = c /\ t[2] \notin copied
    <3>1. pc'[t] = "idle" /\ slotFd'[t] = slotFd[t] /\ claimFd'[t] = claimFd[t] /\ owner'[t] = owner[t]
      BY <1>0, <2>2 DEF CopyTasks
    <3>2. c \in unborn
      BY DEF Fork
    <3>3. slotRefs[t] = {} /\ claimRefs[t] = {}
      BY <2>2, <3>2 DEF RefsInv
    <3>4. slotRefs'[t] = {} /\ claimRefs'[t] = {}
      BY <3>3 DEF Fork
    <3>5. slotFd[t] = NoSlot /\ ~claimFd[t] /\ owner[t]
      BY <2>2, <3>2 DEF LocalInv, LocalsOK, RefsInv
    <3>6. QED
      BY <3>1, <3>4, <3>5 DEF LocalsOK
  <2>3. CASE ProcOf(t) = c /\ t[2] \in copied
    <3> DEFINE o == <<p, t[2]>>
    <3>1. pc'[t] = pc[o] /\ slotFd'[t] = slotFd[o] /\ claimFd'[t] = claimFd[o] /\ owner'[t] = FALSE
      BY <1>0, <2>3 DEF CopyTasks
    <3>2. c \in unborn
      BY DEF Fork
    <3>3. slotRefs[t] = {} /\ claimRefs[t] = {}
      BY <2>3, <3>2 DEF RefsInv
    <3>4. slotRefs'[t] = {} /\ claimRefs'[t] = {}
      BY <3>3 DEF Fork
    <3>5. o \in Task /\ LocalsOK(o) /\ pc[o] \in {"sleep", "hold"} /\ IsQuery(o) = IsQuery(t)
      BY <1>1, <1>2, <2>3 DEF LocalInv, IsQuery
    <3>6. QED
      BY <3>1, <3>4, <3>5 DEF LocalsOK
  <2>4. QED
    BY <2>1, <2>2, <2>3
<1>8. ~strayClose'
  BY DEF Fork
<1>9. QED
  BY <1>3, <1>4, <1>5, <1>6, <1>7, <1>8

LEMMA AfterForkChildStep ==
  ASSUME IInv, TypeOK', NEW c \in Proc, AfterForkChild(c)
  PROVE  IInv'
<1> USE TaskIsPair, CursorRange
<1>1. /\ c \in booting /\ booting' = booting \ {c}
      /\ UNCHANGED <<alive, unborn, pc, cursor, slotFd, claimFd, owner, memLock, gateRefs,
                     strayClose>>
  BY DEF AfterForkChild, CloseTo, locals
<1>2. \A x \in Task : slotRefs'[x] = slotRefs[x] \ {c} /\ claimRefs'[x] = claimRefs[x] \ {c}
  BY DEF AfterForkChild, CloseTo, Without
<1>3. gateEx' = gateEx
  BY DEF AfterForkChild, CloseTo, IInv, GateInv
<1>4. \A x \in Task : ProcOf(x) = c => slotRefs[x] = {} /\ claimRefs[x] = {}
  BY <1>1 DEF IInv, RefsInv
<1>5. gateSh' = {x \in gateSh : claimRefs'[x] # {}}
  BY DEF AfterForkChild, CloseTo
<1>6. \A s \in Slots : slotLock'[s] = IF slotLock[s] \in Task /\ slotRefs'[slotLock[s]] = {}
                                        THEN NoTask ELSE slotLock[s]
  BY DEF AfterForkChild, CloseTo
<1>7. MemLockInv' /\ GateInv'
  BY <1>1, <1>3, <1>5 DEF IInv, MemLockInv, GateInv
<1>8. RefsInv'
  BY <1>1, <1>2, <1>4 DEF IInv, RefsInv
<1>9. LockInv'
  <2>1. \A x \in Task : owner[x] /\ slotFd[x] # NoSlot => slotRefs'[x] # {} /\ slotFd[x] \in Slots
    BY <1>2, <1>4, SlotRange DEF IInv, RefsInv, TypeOK
  <2>2. \A x \in Task : owner[x] /\ claimFd[x] => claimRefs'[x] # {}
    BY <1>2, <1>4 DEF IInv, RefsInv
  <2>3. \A x \in Task : owner'[x] /\ slotFd'[x] # NoSlot => slotLock'[slotFd'[x]] = x
    BY <1>1, <1>6, <2>1 DEF IInv, LockInv
  <2>4. \A s \in Slots : slotLock'[s] # NoTask =>
          slotLock'[s] = slotLock[s] /\ slotLock[s] \in Task /\ slotRefs'[slotLock[s]] # {}
    BY <1>6 DEF IInv, TypeOK
  <2>5. \A x \in gateSh' : claimRefs'[x] # {} /\ IsQuery(x)
    BY <1>5 DEF IInv, LockInv
  <2>6. \A x \in Task : owner'[x] /\ claimFd'[x] => x \in gateSh'
    BY <1>1, <1>5, <2>2 DEF IInv, LockInv
  <2>7. QED
    BY <1>1, <1>2, <2>3, <2>4, <2>5, <2>6 DEF IInv, LockInv
<1>10. LocalInv'
  BY <1>1, <1>2 DEF IInv, LocalInv, LocalsOK
<1>11. QED
  BY <1>1, <1>7, <1>8, <1>9, <1>10 DEF IInv

LEMMA ExitStep ==
  ASSUME IInv, TypeOK', NEW p \in Proc, Exit(p)
  PROVE  IInv'
<1> USE TaskIsPair, CursorRange
<1>1. /\ p \in alive /\ booting' = booting \ {p} /\ unborn' = unborn /\ strayClose' = strayClose
      /\ \A q \in Proc : memLock'[q] = IF q = p THEN NoTask ELSE memLock[q]
  BY DEF Exit, IInv, TypeOK
<1>2. \A x \in Task : ProcOf(x) = p =>
        /\ pc'[x] = "absent" /\ slotFd'[x] = NoSlot /\ ~claimFd'[x] /\ owner'[x]
  BY DEF Exit
<1>3. \A x \in Task : ProcOf(x) # p =>
        /\ pc'[x] = pc[x] /\ slotFd'[x] = slotFd[x] /\ claimFd'[x] = claimFd[x]
        /\ owner'[x] = owner[x] /\ cursor'[x] = cursor[x]
  BY DEF Exit
<1>4. \A x \in Task : /\ slotRefs'[x] = slotRefs[x] \ {p} /\ claimRefs'[x] = claimRefs[x] \ {p}
                      /\ gateRefs'[x] = gateRefs[x] \ {p}
  BY DEF Exit, CloseTo, Without
<1>5. gateSh' = {x \in gateSh : claimRefs'[x] # {}}
  BY DEF Exit, CloseTo
<1>6. \A s \in Slots : slotLock'[s] = IF slotLock[s] \in Task /\ slotRefs'[slotLock[s]] = {}
                                        THEN NoTask ELSE slotLock[s]
  BY DEF Exit, CloseTo
<1>7. gateEx' = IF gateEx \in Task /\ ProcOf(gateEx) = p THEN NoTask ELSE gateEx
  <2>1. gateEx' = IF gateEx \in Task /\ gateRefs'[gateEx] = {} THEN NoTask ELSE gateEx
    BY DEF Exit, CloseTo
  <2>2. gateEx \in Task => gateRefs[gateEx] = {ProcOf(gateEx)}
    BY DEF IInv, GateInv
  <2>3. QED
    BY <1>4, <2>1, <2>2
<1>8. MemLockInv'
  <2>1. \A x \in Task : pc'[x] \in Scanning <=> memLock'[ProcOf(x)] = x
    BY <1>1, <1>2, <1>3 DEF IInv, MemLockInv, Scanning
  <2>2. \A q \in Proc : memLock'[q] # NoTask => ProcOf(memLock'[q]) = q
    BY <1>1 DEF IInv, MemLockInv
  <2>3. \A x \in Task : pc'[x] = "scan" => cursor'[x] \in Slots
    BY <1>2, <1>3 DEF IInv, MemLockInv
  <2>4. QED
    BY <2>1, <2>2, <2>3 DEF MemLockInv
<1>9. GateInv'
  <2>1. \A x \in Task : gateEx' = x <=> ~IsQuery(x) /\ pc'[x] \in Scanning
    BY <1>2, <1>3, <1>7 DEF IInv, GateInv, Scanning
  <2>2. \A x \in Task : gateEx' = x => gateRefs'[x] = {ProcOf(x)}
    BY <1>4, <1>7 DEF IInv, GateInv
  <2>3. \A x \in Task : gateEx' # x => gateRefs'[x] = {}
    BY <1>4, <1>7 DEF IInv, GateInv
  <2>4. gateEx' # NoTask => gateSh' = {}
    BY <1>5, <1>7 DEF IInv, GateInv
  <2>5. QED
    BY <2>1, <2>2, <2>3, <2>4 DEF GateInv
<1>10. RefsInv'
  BY <1>1, <1>2, <1>3, <1>4 DEF IInv, RefsInv
<1>11. LockInv'
  <2>1. \A x \in Task : owner'[x] /\ slotFd'[x] # NoSlot =>
          /\ slotLock[slotFd'[x]] = x /\ slotFd'[x] \in Slots /\ slotRefs'[x] # {}
    BY <1>2, <1>3, <1>4, SlotRange DEF IInv, LockInv, RefsInv, TypeOK
  <2>2. \A x \in Task : owner'[x] /\ claimFd'[x] => x \in gateSh /\ claimRefs'[x] # {}
    BY <1>2, <1>3, <1>4 DEF IInv, LockInv, RefsInv
  <2>3. \A x \in Task : owner'[x] /\ slotFd'[x] # NoSlot => slotLock'[slotFd'[x]] = x
    BY <1>6, <2>1
  <2>4. \A s \in Slots : slotLock'[s] # NoTask =>
          slotLock'[s] = slotLock[s] /\ slotLock[s] \in Task /\ slotRefs'[slotLock[s]] # {}
    BY <1>6 DEF IInv, TypeOK
  <2>5. \A s \in Slots : slotLock'[s] # NoTask =>
          (ProcOf(slotLock'[s]) \in slotRefs'[slotLock'[s]] => slotFd'[slotLock'[s]] = s)
    BY <1>3, <1>4, <2>4 DEF IInv, LockInv
  <2>6. \A x \in gateSh' : claimRefs'[x] # {} /\ IsQuery(x)
    BY <1>5 DEF IInv, LockInv
  <2>7. \A r, s \in Slots : slotLock'[r] = slotLock'[s] /\ slotLock'[r] # NoTask => r = s
    BY <2>4 DEF IInv, LockInv
  <2>8. QED
    BY <1>5, <2>2, <2>3, <2>4, <2>5, <2>6, <2>7 DEF LockInv
<1>12. LocalInv'
  <2> SUFFICES ASSUME NEW x \in Task PROVE LocalsOK(x)'
    BY DEF LocalInv
  <2>1. CASE ProcOf(x) = p
    BY <1>2, <2>1 DEF LocalsOK
  <2>2. CASE ProcOf(x) # p
    BY <1>3, <1>4, <2>2 DEF IInv, LocalInv, LocalsOK
  <2>3. QED
    BY <2>1, <2>2
<1>13. QED
  BY <1>1, <1>8, <1>9, <1>10, <1>11, <1>12 DEF IInv

LEMMA StepIInv == IInv /\ [Next]_vars => IInv'
<1> SUFFICES ASSUME IInv, [Next]_vars PROVE IInv'
  OBVIOUS
<1>1. TypeOK'
  BY StepTypeOK DEF IInv
<1>2. ASSUME NEW t \in Task, TaskStep(t) PROVE IInv'
  BY <1>1, <1>2, StartScanStep, GateClosedStep, TakeSlotStep, SkipSlotStep, LeaveScanStep,
     ClaimStep, ClaimRefusedStep, WakeStep, DropClaimStep, UnwindClaimStep, UnwindSlotStep,
     FinishStep DEF TaskStep
<1>3. ASSUME NEW t \in Task,
             Enter(t) \/ EndAttempt(t) \/ Repeat(t) \/ ScanError(t) \/ ClaimError(t) \/ Cancel(t)
      PROVE  IInv'
  BY <1>1, <1>3, EnterStep, EndAttemptStep, RepeatStep, ScanErrorStep, ClaimErrorStep, CancelStep
<1>4. ASSUME NEW p \in Proc, NEW c \in Proc, Fork(p, c) PROVE IInv'
  BY <1>1, <1>4, ForkStep
<1>5. ASSUME NEW p \in Proc, AfterForkChild(p) \/ Exit(p) PROVE IInv'
  BY <1>1, <1>5, AfterForkChildStep, ExitStep
<1>6. CASE UNCHANGED vars
  BY <1>6 DEF vars, IInv, TypeOK, MemLockInv, GateInv, RefsInv, LockInv, LocalInv, LocalsOK, Scanning
<1>7. QED
  BY <1>2, <1>3, <1>4, <1>5, <1>6 DEF Next

-----------------------------------------------------------------------------
(* No process closes a number that names somebody else's file, whatever is *)
(* forked, killed, cancelled or fails.                                     *)
THEOREM StrayCloseSafety == Spec => []NoStrayClose
<1>1. IInv => NoStrayClose
  BY DEF IInv, NoStrayClose
<1>2. QED
  BY InitIInv, StepIInv, <1>1, PTL DEF Spec

(* A request that was given a slot has the lock of its file until it gives *)
(* it back.                                                                *)
THEOREM HolderSafety == Spec => []HolderKeepsLock
<1>1. IInv => HolderKeepsLock
  BY DEF IInv, HolderKeepsLock, LockInv, RefsInv
<1>2. QED
  BY InitIInv, StepIInv, <1>1, PTL DEF Spec

(* Locks outlive the request they were taken for only until a forked child *)
(* has closed its copies.                                                  *)
THEOREM NoLeak == Spec => []NothingLeftBehind
<1>1. ASSUME IInv PROVE NothingLeftBehind
  <2> USE <1>1 DEF IInv
  <2>1. \A s \in Slots : slotLock[s] # NoTask =>
          LET t == slotLock[s]
          IN (owner[t] /\ slotFd[t] = s) \/ slotRefs[t] \cap booting # {}
    <3> SUFFICES ASSUME NEW s \in Slots, slotLock[s] # NoTask,
                        slotRefs[slotLock[s]] \cap booting = {}
                 PROVE  owner[slotLock[s]] /\ slotFd[slotLock[s]] = s
      OBVIOUS
    <3> DEFINE t == slotLock[s]
    <3>1. t \in Task
      BY DEF TypeOK
    <3>2. slotRefs[t] # {}
      BY DEF LockInv
    <3>3. ProcOf(t) \in slotRefs[t]
      BY <3>1, <3>2 DEF RefsInv
    <3>4. QED
      BY <3>1, <3>3 DEF RefsInv, LockInv
  <2>2. \A t \in gateSh : (owner[t] /\ claimFd[t]) \/ claimRefs[t] \cap booting # {}
    <3> SUFFICES ASSUME NEW t \in gateSh, claimRefs[t] \cap booting = {}
                 PROVE  owner[t] /\ claimFd[t]
      OBVIOUS
    <3>1. t \in Task
      BY DEF TypeOK
    <3>2. ProcOf(t) \in claimRefs[t]
      BY <3>1 DEF LockInv, RefsInv
    <3>3. QED
      BY <3>1, <3>2 DEF RefsInv
  <2>3. gateEx # NoTask => /\ memLock[ProcOf(gateEx)] = gateEx
                           /\ pc[gateEx] \in {"scan", "leave", "raise"}
    BY DEF TypeOK, MemLockInv, GateInv, Scanning
  <2>4. QED
    BY <2>1, <2>2, <2>3 DEF NothingLeftBehind
<1>2. QED
  BY InitIInv, StepIInv, <1>1, PTL DEF Spec

(* The slots of Slots are Capacity many.                                   *)
LEMMA SlotsCardinality == IsFiniteSet(Slots) /\ Cardinality(Slots) = Capacity
  <1>1. IsFiniteSet(0 .. Capacity - 1) /\ Cardinality(0 .. Capacity - 1) = Capacity
    BY FS_Interval, LimiterAssumption
  <1>2. QED
    BY <1>1 DEF Slots

(* The HTTP attempts in flight map one to one into the slots.              *)
THEOREM CapacitySafety == Spec => []CapacityKept
<1>1. ASSUME IInv PROVE CapacityKept
  <2> DEFINE f == [t \in InFlight |-> slotFd[t]]
  <2>1. \A t \in InFlight : t \in Task /\ slotFd[t] \in Slots /\ slotLock[slotFd[t]] = t
    BY <1>1, SlotRange DEF InFlight, IInv, LocalInv, LocalsOK, LockInv, TypeOK
  <2>2. f \in Injection(InFlight, Slots)
    BY <2>1 DEF Injection, IsInjective
  <2>3. IsFiniteSet(InFlight) /\ Cardinality(InFlight) <= Cardinality(Slots)
    BY <2>2, SlotsCardinality, FS_Injection
  <2>4. QED
    BY <2>3, SlotsCardinality DEF CapacityKept
<1>2. QED
  BY InitIInv, StepIInv, <1>1, PTL DEF Spec

(* The only step that locks a slot file is TakeSlot.                       *)
LEMMA OnlyTakeSlotLocks ==
  ASSUME IInv, Next, NEW s \in Slots, slotLock'[s] # slotLock[s], slotLock'[s] # NoTask
  PROVE  \E t \in Task : TakeSlot(t) /\ slotLock'[s] = t
<1> USE DEF locks
<1>1. ASSUME NEW t \in Task, TaskStep(t), ~TakeSlot(t)
      PROVE  slotLock'[s] = slotLock[s] \/ slotLock'[s] = NoTask
  BY <1>1 DEF TaskStep, StartScan, GateClosed, SkipSlot, LeaveScan, Claim, ClaimRefused, Wake,
              DropClaim, UnwindClaim, UnwindSlot, Finish, ReleaseClaim, ReleaseSlot, CloseTo
<1>2. ASSUME NEW t \in Task,
             Enter(t) \/ EndAttempt(t) \/ Repeat(t) \/ ScanError(t) \/ ClaimError(t) \/ Cancel(t)
      PROVE  slotLock'[s] = slotLock[s]
  BY <1>2 DEF Enter, EndAttempt, Repeat, ScanError, ClaimError, Cancel
<1>3. ASSUME NEW p \in Proc, (\E c \in Proc : Fork(p, c)) \/ AfterForkChild(p) \/ Exit(p)
      PROVE  slotLock'[s] = slotLock[s] \/ slotLock'[s] = NoTask
  BY <1>3 DEF Fork, AfterForkChild, Exit, CloseTo
<1>4. PICK t \in Task : TakeSlot(t)
  BY <1>1, <1>2, <1>3 DEF Next
<1>5. slotLock'[s] = t
  BY <1>4 DEF TakeSlot, IInv, TypeOK
<1>6. QED
  BY <1>4, <1>5

(* While a query's claim stands no document is given a slot: the scan that *)
(* gives it holds the gate exclusively from before it starts.              *)
THEOREM PrioritySafety == Spec => DocumentsYield
<1> DEFINE Yield == \A s \in Slots :
       slotLock'[s] # slotLock[s] /\ slotLock'[s] # NoTask /\ ~IsQuery(slotLock'[s])
         => gateSh = {}
<1>1. ASSUME IInv, [Next]_vars PROVE [Yield]_vars
  <2>1. CASE UNCHANGED vars
    BY <2>1
  <2>2. CASE Next
    <3>1. SUFFICES ASSUME NEW s \in Slots, slotLock'[s] # slotLock[s], slotLock'[s] # NoTask,
                          ~IsQuery(slotLock'[s])
                   PROVE  gateSh = {}
      OBVIOUS
    <3>2. PICK t \in Task : TakeSlot(t) /\ slotLock'[s] = t
      BY <1>1, <2>2, <3>1, OnlyTakeSlotLocks
    <3>3. gateEx = t
      BY <1>1, <3>1, <3>2 DEF TakeSlot, At, IInv, GateInv, Scanning
    <3>4. QED
      BY <1>1, <3>3, TaskIsPair DEF IInv, GateInv
  <2>3. QED
    BY <1>1, <2>1, <2>2
<1>2. QED
  BY InitIInv, StepIInv, <1>1, PTL DEF Spec, DocumentsYield

-----------------------------------------------------------------------------
(* The refinement: SlotHolders and gateSh step as the priority semaphore.  *)
LEMMA StepsLeave ==
  ASSUME IInv, TypeOK', Next, \A t \in Task : ~TakeSlot(t) /\ ~Claim(t)
  PROVE  SlotHolders' \subseteq SlotHolders /\ gateSh' \subseteq gateSh
<1>1. \A s \in Slots : slotLock'[s] = slotLock[s] \/ slotLock'[s] = NoTask
  BY OnlyTakeSlotLocks
<1>2. SlotHolders' \subseteq SlotHolders
  BY <1>1, TaskIsPair DEF SlotHolders
<1> USE DEF locks
<1>3. ASSUME NEW t \in Task, TaskStep(t) PROVE gateSh' \subseteq gateSh
  BY <1>3 DEF TaskStep, StartScan, GateClosed, SkipSlot, LeaveScan, Claim, ClaimRefused, Wake,
              DropClaim, UnwindClaim, UnwindSlot, Finish, ReleaseClaim, ReleaseSlot, CloseTo
<1>4. ASSUME NEW t \in Task,
             Enter(t) \/ EndAttempt(t) \/ Repeat(t) \/ ScanError(t) \/ ClaimError(t) \/ Cancel(t)
      PROVE  gateSh' \subseteq gateSh
  BY <1>4 DEF Enter, EndAttempt, Repeat, ScanError, ClaimError, Cancel
<1>5. ASSUME NEW p \in Proc, (\E c \in Proc : Fork(p, c)) \/ AfterForkChild(p) \/ Exit(p)
      PROVE  gateSh' \subseteq gateSh
  BY <1>5 DEF Fork, AfterForkChild, Exit, CloseTo
<1>6. QED
  BY <1>2, <1>3, <1>4, <1>5 DEF Next

LEMMA TakeSlotMaps ==
  ASSUME IInv, TypeOK', NEW t \in Task, TakeSlot(t)
  PROVE  Semaphore!TakeAsDocument(t) \/ Semaphore!TakeAsQuery(t)
<1>1. SlotHolders' = SlotHolders \cup {t}
  <2>1. /\ cursor[t] \in Slots /\ slotLock[cursor[t]] = NoTask
        /\ slotLock' = [slotLock EXCEPT ![cursor[t]] = t]
    BY DEF TakeSlot
  <2>2. \A s \in Slots : slotLock'[s] = IF s = cursor[t] THEN t ELSE slotLock[s]
    BY <2>1 DEF IInv, TypeOK
  <2>3. QED
    BY <2>1, <2>2, TaskIsPair DEF SlotHolders
<1>2. t \notin SlotHolders
  BY TaskIsPair DEF TakeSlot, At, SlotHolders, IInv, LocalInv, LocalsOK, LockInv
<1>3. Semaphore!Cardinality(SlotHolders \cup {t}) <= Capacity
  <2>1. Cardinality(SlotHolders') <= Capacity
    <3>1. slotLock' \in [Slots -> Task \cup {NoTask}]
      BY DEF TypeOK
    <3> DEFINE f == [x \in SlotHolders' |-> CHOOSE s \in Slots : slotLock'[s] = x]
    <3>2. \A x \in SlotHolders' : f[x] \in Slots /\ slotLock'[f[x]] = x
      BY DEF SlotHolders
    <3>3. f \in Injection(SlotHolders', Slots)
      BY <3>2 DEF Injection, IsInjective
    <3>4. QED
      BY <3>3, SlotsCardinality, FS_Injection
  <2>2. Cardinality(SlotHolders \cup {t}) <= Capacity
    BY <1>1, <2>1
  <2>3. Cardinality(SlotHolders \cup {t}) = Semaphore!Cardinality(SlotHolders \cup {t})
    BY DEF Cardinality, Semaphore!Cardinality
  <2>4. QED
    BY <2>2, <2>3
<1>4. gateSh' = gateSh
  BY DEF TakeSlot
<1>5. ~IsQuery(t) => gateSh = {}
  BY TaskIsPair DEF TakeSlot, At, IInv, GateInv, Scanning
<1>6. CASE IsQuery(t)
  <2>1. t \in {x \in Task : IsQuery(x)} \ SlotHolders
    BY <1>2, <1>6
  <2>2. QED
    BY <1>1, <1>3, <1>4, <2>1 DEF Semaphore!TakeAsQuery
<1>7. CASE ~IsQuery(t)
  <2>1. t \in Task \ ({x \in Task : IsQuery(x)} \cup SlotHolders)
    BY <1>2, <1>7
  <2>2. gateSh = {}
    BY <1>5, <1>7
  <2>3. QED
    BY <1>1, <1>3, <1>4, <2>1, <2>2 DEF Semaphore!TakeAsDocument
<1>8. QED
  BY <1>6, <1>7

(* Limiter implements the priority semaphore.                              *)
THEOREM Refinement == Spec => ImplementsSemaphore
<1>1. Init => Semaphore!SemInit
  BY TaskIsPair DEF Init, Semaphore!SemInit, SlotHolders
<1>2. ASSUME IInv, [Next]_vars PROVE [Semaphore!SemNext]_(Semaphore!semVars)
  <2>1. TypeOK'
    BY <1>2, StepTypeOK DEF IInv
  <2>2. CASE UNCHANGED vars
    BY <2>2 DEF vars, Semaphore!semVars, SlotHolders
  <2>3. CASE \E t \in Task : TakeSlot(t)
    BY <1>2, <2>1, <2>3, TakeSlotMaps DEF Semaphore!SemNext
  <2>4. CASE \E t \in Task : Claim(t)
    <3>1. PICK t \in Task : Claim(t)
      BY <2>4
    <3>2. IsQuery(t)
      BY <1>2, <3>1 DEF Claim, At, IInv, LocalInv, LocalsOK
    <3>3. gateSh' = gateSh \cup {t} /\ SlotHolders' = SlotHolders
      BY <3>1 DEF Claim, SlotHolders
    <3>4. Semaphore!Register(t)
      BY <3>2, <3>3 DEF Semaphore!Register
    <3>5. QED
      BY <3>4 DEF Semaphore!SemNext
  <2>5. CASE Next /\ \A t \in Task : ~TakeSlot(t) /\ ~Claim(t)
    BY <1>2, <2>1, <2>5, StepsLeave DEF Semaphore!SemNext, Semaphore!Leave
  <2>6. QED
    BY <1>2, <2>2, <2>3, <2>4, <2>5
<1>3. QED
  BY <1>1, <1>2, InitIInv, StepIInv, PTL DEF Spec, ImplementsSemaphore, Semaphore!SemSpec

(* Every lock of a limiter has an owner that will give it up.              *)
THEOREM AccountSafety == Spec => []LocksAreAccounted
  BY TypeCorrect, HolderSafety, NoLeak, StrayCloseSafety, PTL DEF LocksAreAccounted

(* The limiter is a semaphore on which documents yield to queries.         *)
THEOREM PriorityOfQueries == Spec => PriorityIsKept
  BY PrioritySafety, Refinement, PTL DEF PriorityIsKept

-----------------------------------------------------------------------------
(* The circuit breaker of the embedding client: CircuitBreaker, where a    *)
(* request is called a caller, and `pc` `stand`.                           *)

\* What is recorded keeps the books: an opening time after a streak of failures only.
Books ==
  /\ failures \in 0 .. Threshold /\ remaining \in {NotSet} \cup 0 .. Reset
  /\ streak \in 0 .. Threshold /\ quiet \in 0 .. Reset /\ failures = streak
  /\ Circuit!OpensAfterStreak /\ Circuit!RejectsForResetTime /\ Circuit!OnlyOutagesCount

LEMMA SuccessIsRecorded ==
  ASSUME Circuit!CircuitAssumption, Books, Circuit!RecordSuccess
  PROVE  Books' /\ outage' = outage
BY DEF Books, Circuit!RecordSuccess, Circuit!OpensAfterStreak, Circuit!RejectsForResetTime,
       Circuit!OnlyOutagesCount, Circuit!Open, Circuit!CircuitAssumption

LEMMA FailureIsRecorded ==
  ASSUME Circuit!CircuitAssumption, Books, outage, Circuit!RecordFailure
  PROVE  Books' /\ outage' = outage
<1>1. /\ Threshold \in Nat \ {0} /\ Reset \in Nat \ {0} /\ NotSet \notin Nat
      /\ failures' = IF failures + 1 < Threshold THEN failures + 1 ELSE Threshold
      /\ streak' = failures' /\ quiet' = 0 /\ outage' = outage
      /\ remaining' = IF failures' = Threshold THEN Reset ELSE remaining
  BY DEF Books, Circuit!RecordFailure, Circuit!Least, Circuit!CircuitAssumption
<1>2. CASE failures' = Threshold
  BY <1>1, <1>2 DEF Books, Circuit!OpensAfterStreak, Circuit!RejectsForResetTime,
                    Circuit!OnlyOutagesCount, Circuit!Open
<1>3. CASE failures' # Threshold
  BY <1>1, <1>3 DEF Books, Circuit!OpensAfterStreak, Circuit!RejectsForResetTime,
                    Circuit!OnlyOutagesCount, Circuit!Open
<1>4. QED
  BY <1>2, <1>3

\* Whatever else a request does, its place is one that it may be at.
CallersOK ==
  /\ stand \in [Caller -> {"idle", "send", "answered", "single"}]
  /\ attempt \in [Caller -> 0 .. MaxRetries] /\ left \in [Caller -> Nat]
  /\ \A r \in Caller : left[r] \in 0 .. Texts[r] /\ (stand[r] = "idle" => left[r] = 0)
  /\ probes \subseteq Caller

ServiceOK ==
  /\ answer \in [Caller -> Circuit!Healthy \cup Circuit!Faulty]
  /\ up \in BOOLEAN /\ outage \in BOOLEAN /\ (~up => outage)
  /\ \A r \in Caller : answer[r] \in Circuit!Faulty => outage

LEMMA CircuitParts == Circuit!IInv <=> Books /\ CallersOK /\ ServiceOK
BY DEF Circuit!IInv, Circuit!TypeOK, Books, CallersOK, ServiceOK

LEMMA CallerEnds ==
  ASSUME Circuit!CircuitAssumption, CallersOK, ServiceOK, NEW r \in Caller, Circuit!End(r),
         UNCHANGED <<up, outage>>
  PROVE  CallersOK' /\ ServiceOK'
<1>1. CallersOK'
  BY DEF CallersOK, Circuit!End, Circuit!CircuitAssumption
<1>2. ServiceOK'
  BY DEF ServiceOK, Circuit!End, Circuit!Healthy, Circuit!Faulty
<1>3. QED
  BY <1>1, <1>2

LEMMA CircuitStep ==
  ASSUME Circuit!CircuitAssumption, Circuit!IInv, [Circuit!Next]_Circuit!vars
  PROVE  Circuit!IInv'
<1> USE DEF Circuit!circuit, Circuit!history
<1>0. Books /\ CallersOK /\ ServiceOK
  BY CircuitParts
<1>1. ASSUME UNCHANGED <<Circuit!circuit, Circuit!history>> PROVE Books' /\ outage' = outage
  BY <1>0, <1>1 DEF Books, Circuit!OpensAfterStreak, Circuit!RejectsForResetTime,
                    Circuit!OnlyOutagesCount, Circuit!Open
<1>2. ASSUME UNCHANGED <<answer, up, outage>> PROVE ServiceOK'
  BY <1>0, <1>2 DEF ServiceOK, Circuit!Healthy, Circuit!Faulty
<1>3. ASSUME UNCHANGED <<stand, attempt, left, probes>> PROVE CallersOK'
  BY <1>0, <1>3 DEF CallersOK
<1>4. SUFFICES Books' /\ CallersOK' /\ ServiceOK'
  BY DEF Circuit!IInv, Circuit!TypeOK, Books, CallersOK, ServiceOK
<1>5. ASSUME NEW r \in Caller, Circuit!Reject(r) \/ Circuit!Refuse(r) \/ Circuit!Cancel(r)
      PROVE  Books' /\ CallersOK' /\ ServiceOK'
  BY <1>0, <1>1, <1>2, <1>5, CallerEnds DEF Circuit!Reject, Circuit!Refuse, Circuit!Cancel
<1>6. ASSUME NEW r \in Caller, Circuit!Check(r) PROVE Books' /\ CallersOK' /\ ServiceOK'
  <2>1. CallersOK'
    BY <1>0, <1>6 DEF Circuit!Check, CallersOK, Circuit!CircuitAssumption
  <2>2. QED
    BY <1>1, <1>2, <1>6, <2>1 DEF Circuit!Check
<1>7. ASSUME NEW r \in Caller, Circuit!Answer(r) PROVE Books' /\ CallersOK' /\ ServiceOK'
  <2>1. CallersOK'
    BY <1>0, <1>7 DEF Circuit!Answer, CallersOK
  <2>2. PICK a \in IF up THEN Circuit!Healthy ELSE Circuit!Faulty : answer' = [answer EXCEPT ![r] = a]
    BY <1>7 DEF Circuit!Answer
  <2>3. up' = up /\ outage' = outage
    BY <1>7 DEF Circuit!Answer
  <2>4. a \in Circuit!Healthy \cup Circuit!Faulty /\ (a \in Circuit!Faulty => ~up)
    BY <2>2 DEF Circuit!Healthy, Circuit!Faulty
  <2>5. ServiceOK'
    BY <1>0, <2>2, <2>3, <2>4 DEF ServiceOK, Circuit!Healthy, Circuit!Faulty
  <2>6. QED
    BY <1>1, <1>7, <2>1, <2>5 DEF Circuit!Answer
<1>8. ASSUME NEW r \in Caller, Circuit!Retry(r) PROVE Books' /\ CallersOK' /\ ServiceOK'
  <2>1. CallersOK'
    BY <1>0, <1>8 DEF Circuit!Retry, Circuit!Received, CallersOK, Circuit!CircuitAssumption
  <2>2. QED
    BY <1>1, <1>2, <1>8, <2>1 DEF Circuit!Retry
<1>9. ASSUME NEW r \in Caller, Circuit!Fail(r) PROVE Books' /\ CallersOK' /\ ServiceOK'
  <2>1. outage
    BY <1>0, <1>9 DEF Circuit!Fail, Circuit!Received, ServiceOK, Circuit!Faulty
  <2>2. QED
    BY <1>0, <1>2, <1>9, <2>1, CallerEnds, FailureIsRecorded DEF Circuit!Fail
<1>10. ASSUME NEW r \in Caller, Circuit!Succeed(r) PROVE Books' /\ CallersOK' /\ ServiceOK'
  <2>1. CASE answer[r] = "ok" /\ left[r] > 1
    <3>1. /\ left' = [left EXCEPT ![r] = @ - 1] /\ stand' = [stand EXCEPT ![r] = "single"]
          /\ probes' = probes \ {r} /\ UNCHANGED <<attempt, answer, up>> /\ Circuit!RecordSuccess
      BY <1>10, <2>1 DEF Circuit!Succeed
    <3>2. Texts[r] \in Nat /\ left[r] \in 0 .. Texts[r] /\ left[r] - 1 \in 0 .. Texts[r] /\ left[r] - 1 \in Nat
      BY <1>0, <2>1 DEF CallersOK, Circuit!CircuitAssumption
    <3>3. CallersOK'
      BY <1>0, <3>1, <3>2 DEF CallersOK
    <3>4. QED
      BY <1>0, <1>2, <3>1, <3>3, SuccessIsRecorded
  <2>2. CASE ~(answer[r] = "ok" /\ left[r] > 1)
    BY <1>0, <1>2, <1>10, <2>2, CallerEnds, SuccessIsRecorded DEF Circuit!Succeed
  <2>3. QED
    BY <2>1, <2>2
<1>11. ASSUME NEW r \in Caller, Circuit!FallBack(r) PROVE Books' /\ CallersOK' /\ ServiceOK'
  <2>1. CASE left[r] = 0 /\ Texts[r] > 1
    <3>1. CallersOK'
      BY <1>0, <1>11, <2>1 DEF Circuit!FallBack, CallersOK, Circuit!CircuitAssumption
    <3>2. UNCHANGED <<answer, up, Circuit!circuit, Circuit!history>>
      BY <1>11, <2>1 DEF Circuit!FallBack
    <3>3. QED
      BY <1>1, <1>2, <3>1, <3>2
  <2>2. CASE ~(left[r] = 0 /\ Texts[r] > 1)
    BY <1>0, <1>1, <1>2, <1>11, <2>2, CallerEnds DEF Circuit!FallBack
  <2>3. QED
    BY <2>1, <2>2
<1>12. ASSUME Circuit!Close PROVE Books' /\ CallersOK' /\ ServiceOK'
  BY <1>0, <1>2, <1>3, <1>12, SuccessIsRecorded DEF Circuit!Close
<1>13. ASSUME Circuit!Tick PROVE Books' /\ CallersOK' /\ ServiceOK'
  <2>1. /\ remaining' = IF Circuit!Open THEN remaining - 1 ELSE remaining
        /\ quiet' = IF quiet + 1 < Reset THEN quiet + 1 ELSE Reset
        /\ UNCHANGED <<failures, stand, answer, attempt, left, up, streak, outage, probes>>
        /\ Reset \in Nat \ {0} /\ NotSet \notin Nat
    BY <1>13 DEF Circuit!Tick, Circuit!Least, Circuit!CircuitAssumption
  <2>2. Books'
    BY <1>0, <2>1 DEF Books, Circuit!OpensAfterStreak, Circuit!RejectsForResetTime,
                      Circuit!OnlyOutagesCount, Circuit!Open
  <2>3. QED
    BY <1>2, <1>3, <2>1, <2>2
<1>14. ASSUME Circuit!Switch PROVE Books' /\ CallersOK' /\ ServiceOK'
  <2>1. outage' = TRUE /\ up' = ~up /\ answer' = answer
    BY <1>14 DEF Circuit!Switch
  <2>2. outage' \in BOOLEAN /\ up' \in BOOLEAN /\ outage'
    BY <2>1
  <2>3. ServiceOK'
    BY <1>0, <2>1, <2>2 DEF ServiceOK, Circuit!Healthy, Circuit!Faulty
  <2>4. Books'
    BY <1>0, <1>14, <2>2 DEF Circuit!Switch, Books, Circuit!OpensAfterStreak,
         Circuit!RejectsForResetTime, Circuit!OnlyOutagesCount, Circuit!Open
  <2>5. QED
    BY <1>3, <1>14, <2>3, <2>4 DEF Circuit!Switch
<1>15. ASSUME UNCHANGED Circuit!vars PROVE Books' /\ CallersOK' /\ ServiceOK'
  BY <1>1, <1>2, <1>3, <1>15 DEF Circuit!vars
<1>16. QED
  BY <1>5, <1>6, <1>7, <1>8, <1>9, <1>10, <1>11, <1>12, <1>13, <1>14, <1>15
     DEF Circuit!Next, Circuit!Work

(* For any number of requests, texts and retries: the circuit has an       *)
(* opening time exactly after a streak of failures, rejects for the reset  *)
(* time after the last one, and only a service that has been down is       *)
(* blamed.                                                                 *)
THEOREM CircuitSafety ==
  ASSUME Circuit!CircuitAssumption
  PROVE  Circuit!Spec => []CircuitFollowsTheService
<1>1. Circuit!Init => Circuit!IInv
  <2> SUFFICES ASSUME Circuit!Init PROVE Books /\ CallersOK /\ ServiceOK
    BY CircuitParts
  <2>1. Threshold \in Nat \ {0} /\ Reset \in Nat \ {0} /\ MaxRetries \in Nat /\ NotSet \notin Nat
    BY DEF Circuit!CircuitAssumption
  <2>2. up = TRUE /\ outage = FALSE /\ up \in BOOLEAN /\ outage \in BOOLEAN
    BY DEF Circuit!Init
  <2>3. Books
    BY <2>1, <2>2 DEF Circuit!Init, Books, Circuit!OpensAfterStreak, Circuit!RejectsForResetTime,
                      Circuit!OnlyOutagesCount, Circuit!Open
  <2>4. CallersOK
    BY <2>1 DEF Circuit!Init, CallersOK, Circuit!CircuitAssumption
  <2>5. ServiceOK
    BY <2>2 DEF Circuit!Init, ServiceOK, Circuit!Healthy, Circuit!Faulty
  <2>6. QED
    BY <2>3, <2>4, <2>5
<1>2. Circuit!IInv /\ [Circuit!Next]_Circuit!vars => Circuit!IInv'
  BY CircuitStep
<1>3. Circuit!IInv => CircuitFollowsTheService
  BY DEF Circuit!IInv, CircuitFollowsTheService
<1>4. QED
  BY <1>1, <1>2, <1>3, PTL DEF Circuit!Spec

-----------------------------------------------------------------------------
(* The cache of queries of the embedding client: QueryCache, where a task  *)
(* is called an asker, and `task` `asked`.                                 *)

Entries == [text : Text, dim : {0, Dim}]
Places == {"idle", "locked", "waiting", "fetching", "probing"}

\* The queryLock, its queue and where the tasks are.
LockOK ==
  /\ queryLock \in Asker \cup {None} /\ waiters \in Seq(Asker)
  /\ asked \in [Asker -> [at : Places, text : Text \cup {None}, key : Entries \cup {None}]]
  /\ \A t \in Asker : asked[t].at \in {"locked", "fetching"} <=> queryLock = t
  /\ \A t \in Asker : asked[t].at = "waiting" <=> \E i \in DOMAIN waiters : waiters[i] = t
  /\ \A i, j \in DOMAIN waiters : waiters[i] = waiters[j] => i = j
  /\ \A t \in Asker : asked[t].at \in {"locked", "waiting", "fetching"} => asked[t].text \in Text

\* What is stored.
StoredOK ==
  /\ dim \in {0, Dim} /\ cache \in Seq(Entries) /\ Len(cache) <= MaxSize
  /\ \A i, j \in DOMAIN cache : cache[i].text = cache[j].text => i = j
  /\ \A i \in DOMAIN cache : cache[i].dim = dim
  /\ cache # <<>> => dim = Dim
  /\ identity \in {None, 0, Dim} /\ (identity # None => identity = dim /\ dim = Dim)

\* No text is asked for that is stored.
FetchesOK ==
  \A t \in Asker : asked[t].at = "fetching" => \A i \in DOMAIN cache : cache[i].text # asked[t].text

LEMMA QueryParts == Cached!IInv <=> LockOK /\ StoredOK /\ FetchesOK
<1>1. Cached!Range(waiters) = {t \in Asker : asked[t].at = "waiting"} <=>
        /\ \A i \in DOMAIN waiters : waiters[i] \in {t \in Asker : asked[t].at = "waiting"}
        /\ \A t \in Asker : asked[t].at = "waiting" => \E i \in DOMAIN waiters : waiters[i] = t
  BY DEF Cached!Range
<1>2. waiters \in Seq(Asker) =>
        (Cached!Range(waiters) = {t \in Asker : asked[t].at = "waiting"} <=>
           \A t \in Asker : asked[t].at = "waiting" <=> \E i \in DOMAIN waiters : waiters[i] = t)
  BY <1>1, SeqDef
<1>3. QED
  BY <1>2 DEF Cached!IInv, Cached!TypeOK, Cached!NoDuplicateCalls, Cached!ResolvedDimension,
              LockOK, StoredOK, FetchesOK, Entries, Places

\* One task goes on, and the queryLock and its queue stay as they are.
LEMMA AskerGoes ==
  ASSUME LockOK, NEW t \in Asker, NEW r \in [at : Places, text : Text \cup {None}, key : Entries \cup {None}],
         asked' = [asked EXCEPT ![t] = r], UNCHANGED <<queryLock, waiters>>,
         r.at \in {"locked", "fetching"} <=> asked[t].at \in {"locked", "fetching"},
         asked[t].at # "waiting" /\ r.at # "waiting",
         r.at \in {"locked", "fetching"} => r.text \in Text
  PROVE  LockOK'
BY DEF LockOK

\* The queryLock is given up, and to the task that has waited longest.
LEMMA LockIsReleased ==
  ASSUME Cached!QueryAssumption, LockOK, NEW t \in Asker, queryLock = t, Cached!Release(t)
  PROVE  LockOK' /\ \A u \in Asker : asked'[u].at # "fetching"
<1>1. /\ asked' = [u \in Asker |-> IF u = t THEN Cached!Idle
                                  ELSE IF u = queryLock' THEN [asked[u] EXCEPT !.at = "locked"] ELSE asked[u]]
      /\ asked[t].at \in {"locked", "fetching"}
      /\ \A u \in Asker \ {t} : asked[u].at \notin {"locked", "fetching"}
  BY DEF LockOK, Cached!Release
<1>2. /\ asked' \in [Asker -> [at : Places, text : Text \cup {None}, key : Entries \cup {None}]]
      /\ asked'[t].at = "idle"
      /\ \A u \in Asker \ {t} : /\ asked'[u].text = asked[u].text
                                /\ asked'[u].at = IF u = queryLock' THEN "locked" ELSE asked[u].at
  BY <1>1 DEF LockOK, Cached!Idle, Places
<1>3. CASE waiters = <<>>
  <2>1. queryLock' = None /\ waiters' = <<>> /\ None \notin Asker
    BY <1>3 DEF Cached!Release, Cached!QueryAssumption
  <2>2. \A u \in Asker : asked[u].at # "waiting"
    BY <1>3 DEF LockOK
  <2>3. QED
    BY <1>1, <1>2, <1>3, <2>1, <2>2 DEF LockOK
<1>4. CASE waiters # <<>>
  <2>1. /\ queryLock' = waiters[1] /\ 1 \in DOMAIN waiters /\ waiters' = Tail(waiters) /\ waiters' \in Seq(Asker)
        /\ Len(waiters) \in Nat /\ Len(waiters') = Len(waiters) - 1
        /\ DOMAIN waiters = 1 .. Len(waiters) /\ DOMAIN waiters' = 1 .. Len(waiters) - 1
        /\ \A i \in DOMAIN waiters' : waiters'[i] = waiters[i + 1] /\ i + 1 \in DOMAIN waiters
    BY <1>4 DEF LockOK, Cached!Release
  <2>2. queryLock' \in Asker \ {t} /\ asked[queryLock'].at = "waiting"
    BY <1>1, <2>1 DEF LockOK
  <2>3. \A u \in Asker : asked'[u].at \in {"locked", "fetching"} <=> queryLock' = u
    BY <1>1, <1>2, <2>2
  <2>4. ASSUME NEW u \in Asker PROVE asked'[u].at = "waiting" <=> \E i \in DOMAIN waiters' : waiters'[i] = u
    <3>1. asked'[u].at = "waiting" <=> asked[u].at = "waiting" /\ u # queryLock'
      BY <1>1, <1>2, <2>2
    <3>2. ASSUME asked[u].at = "waiting", u # queryLock' PROVE \E i \in DOMAIN waiters' : waiters'[i] = u
      <4>1. PICK i \in DOMAIN waiters : waiters[i] = u
        BY <3>2 DEF LockOK
      <4>2. i # 1 /\ i - 1 \in DOMAIN waiters' /\ (i - 1) + 1 = i
        BY <2>1, <3>2, <4>1
      <4>3. QED
        BY <2>1, <4>1, <4>2
    <3>3. ASSUME NEW i \in DOMAIN waiters', waiters'[i] = u PROVE asked[u].at = "waiting" /\ u # queryLock'
      <4>1. waiters[i + 1] = u /\ i + 1 \in DOMAIN waiters /\ i + 1 # 1
        BY <2>1, <3>3
      <4>2. QED
        BY <2>1, <4>1 DEF LockOK
    <3>4. QED
      BY <3>1, <3>2, <3>3
  <2>5. \A i, j \in DOMAIN waiters' : waiters'[i] = waiters'[j] => i = j
    BY <2>1 DEF LockOK
  <2>6. \A u \in Asker : asked'[u].at \in {"locked", "waiting", "fetching"} => asked'[u].text \in Text
    BY <1>1, <1>2, <2>2 DEF LockOK
  <2>7. LockOK'
    BY <1>2, <2>1, <2>2, <2>3, <2>4, <2>5, <2>6 DEF LockOK
  <2>8. QED
    BY <1>1, <1>2, <2>7
<1>5. QED
  BY <1>3, <1>4

\* A task leaves the queue, where it waited once.
LEMMA QueueIsLeft ==
  ASSUME LockOK, NEW t \in Asker, asked[t].at = "waiting", NEW i \in DOMAIN waiters, waiters[i] = t,
         waiters' = Cached!RemoveAt(waiters, i), queryLock' = queryLock,
         asked' = [asked EXCEPT ![t] = Cached!Idle]
  PROVE  LockOK'
<1> DEFINE n == Len(waiters)
<1>1. n \in Nat /\ DOMAIN waiters = 1 .. n /\ i \in 1 .. n /\ \A k \in 1 .. n : waiters[k] \in Asker
  BY DEF LockOK
<1>2. waiters' = SubSeq(waiters, 1, i - 1) \o SubSeq(waiters, i + 1, n)
  BY DEF Cached!RemoveAt
<1>3. /\ SubSeq(waiters, 1, i - 1) \in Seq(Asker) /\ Len(SubSeq(waiters, 1, i - 1)) = i - 1
      /\ \A k \in 1 .. i - 1 : SubSeq(waiters, 1, i - 1)[k] = waiters[k]
  BY <1>1, SubSeqProperties DEF LockOK
<1>4. /\ SubSeq(waiters, i + 1, n) \in Seq(Asker) /\ Len(SubSeq(waiters, i + 1, n)) = n - i
      /\ \A k \in 1 .. n - i : SubSeq(waiters, i + 1, n)[k] = waiters[i + k]
  BY <1>1, SubSeqProperties DEF LockOK
<1>5. /\ waiters' \in Seq(Asker) /\ Len(waiters') = n - 1 /\ DOMAIN waiters' = 1 .. n - 1
      /\ \A k \in 1 .. n - 1 : waiters'[k] = IF k < i THEN waiters[k] ELSE waiters[k + 1]
  <2> DEFINE before == SubSeq(waiters, 1, i - 1)
             after == SubSeq(waiters, i + 1, n)
  <2>1. /\ before \in Seq(Asker) /\ Len(before) = i - 1 /\ \A k \in 1 .. i - 1 : before[k] = waiters[k]
        /\ after \in Seq(Asker) /\ Len(after) = n - i /\ \A k \in 1 .. n - i : after[k] = waiters[i + k]
        /\ waiters' = before \o after
    BY <1>2, <1>3, <1>4
  <2> HIDE DEF before, after, n
  <2>2. waiters' \in Seq(Asker) /\ Len(waiters') = n - 1
    BY <1>1, <2>1
  <2>3. ASSUME NEW k \in 1 .. n - 1 PROVE waiters'[k] = IF k < i THEN waiters[k] ELSE waiters[k + 1]
    <3>1. CASE k < i
      BY <1>1, <2>1, <3>1
    <3>2. CASE k >= i
      <4>1. waiters'[k] = after[k - (i - 1)]
        <5>1. k \in 1 .. Len(before) + Len(after) /\ ~(k <= Len(before))
          BY <1>1, <2>1, <3>2
        <5>2. QED
          BY <2>1, <5>1, ConcatProperties
      <4>2. k - (i - 1) \in 1 .. n - i /\ i + (k - (i - 1)) = k + 1
        BY <1>1, <3>2
      <4>3. after[k - (i - 1)] = waiters[k + 1]
        BY <2>1, <4>2
      <4>4. ~(k < i)
        BY <1>1, <3>2
      <4>5. QED
        BY <4>1, <4>3, <4>4
    <3>3. QED
      BY <1>1, <3>1, <3>2
  <2>4. QED
    BY <2>2, <2>3
<1>6. /\ asked' \in [Asker -> [at : Places, text : Text \cup {None}, key : Entries \cup {None}]]
      /\ asked'[t].at = "idle" /\ \A u \in Asker \ {t} : asked'[u] = asked[u]
  BY DEF LockOK, Cached!Idle, Places
<1>7. ASSUME NEW u \in Asker PROVE asked'[u].at = "waiting" <=> \E k \in DOMAIN waiters' : waiters'[k] = u
  <2>1. ASSUME asked[u].at = "waiting", u # t PROVE \E k \in DOMAIN waiters' : waiters'[k] = u
    <3>1. PICK k \in 1 .. n : waiters[k] = u
      BY <1>1, <2>1 DEF LockOK
    <3>2. CASE k < i
      BY <1>1, <1>5, <3>1, <3>2
    <3>3. CASE k > i
      <4>1. k - 1 \in DOMAIN waiters' /\ waiters'[k - 1] = waiters[(k - 1) + 1] /\ (k - 1) + 1 = k
        BY <1>1, <1>5, <3>1, <3>3
      <4>2. QED
        BY <3>1, <4>1
    <3>4. QED
      BY <1>1, <2>1, <3>1, <3>2, <3>3
  <2>2. ASSUME NEW k \in DOMAIN waiters', waiters'[k] = u PROVE asked[u].at = "waiting" /\ u # t
    <3>1. PICK m \in 1 .. n : m # i /\ waiters[m] = u
      BY <1>1, <1>5, <2>2
    <3>2. QED
      BY <1>1, <3>1 DEF LockOK
  <2>3. QED
    BY <1>6, <2>1, <2>2
<1>8. \A j, k \in DOMAIN waiters' : waiters'[j] = waiters'[k] => j = k
  <2>1. SUFFICES ASSUME NEW j \in 1 .. n - 1, NEW k \in 1 .. n - 1, waiters'[j] = waiters'[k] PROVE j = k
    BY <1>5
  <2>2. \A a, b \in 1 .. n : waiters[a] = waiters[b] => a = b
    BY <1>1 DEF LockOK
  <2>3. QED
    BY <1>1, <1>5, <2>1, <2>2
<1>9. QED
  BY <1>5, <1>6, <1>7, <1>8 DEF LockOK

LEMMA AppendedFacts ==
  ASSUME NEW S, NEW s \in Seq(S), NEW e \in S
  PROVE  /\ Append(s, e) \in Seq(S) /\ Len(Append(s, e)) = Len(s) + 1
         /\ DOMAIN Append(s, e) = 1 .. Len(s) + 1
         /\ \A i \in 1 .. Len(s) : Append(s, e)[i] = s[i]
         /\ Append(s, e)[Len(s) + 1] = e
<1>1. /\ Append(s, e) \in Seq(S) /\ Len(Append(s, e)) = Len(s) + 1
      /\ \A i \in 1 .. Len(s) : Append(s, e)[i] = s[i]
      /\ Append(s, e)[Len(s) + 1] = e
  BY AppendProperties
<1>2. QED
  BY <1>1

\* The vector of a text that is not stored is stored; the oldest one makes room.
LEMMA VectorIsStored ==
  ASSUME Cached!QueryAssumption, StoredOK, NEW x \in Text, \A i \in DOMAIN cache : cache[i].text # x,
         dim' = Dim, identity' = identity,
         cache' = Append(IF Len(cache) >= MaxSize THEN Tail(cache) ELSE cache, [text |-> x, dim |-> dim'])
  PROVE  StoredOK'
<1> DEFINE kept == IF Len(cache) >= MaxSize THEN Tail(cache) ELSE cache
<1>1. MaxSize \in Nat \ {0} /\ cache \in Seq(Entries) /\ Len(cache) \in Nat /\ DOMAIN cache = 1 .. Len(cache)
  BY DEF StoredOK, Cached!QueryAssumption
<1>2. \A i, j \in DOMAIN cache : cache[i].text = cache[j].text => i = j
  BY DEF StoredOK
<1>3. \A i \in DOMAIN cache : cache[i].dim = Dim
  BY DEF StoredOK
<1>4. /\ kept \in Seq(Entries) /\ Len(kept) + 1 <= MaxSize /\ DOMAIN kept = 1 .. Len(kept) /\ Len(kept) \in Nat
      /\ \A i \in DOMAIN kept : kept[i].dim = Dim /\ kept[i].text # x
      /\ \A i, j \in DOMAIN kept : kept[i].text = kept[j].text => i = j
  <2>1. CASE Len(cache) >= MaxSize
    <3>1. /\ kept = Tail(cache) /\ kept \in Seq(Entries) /\ Len(kept) = Len(cache) - 1
          /\ DOMAIN kept = 1 .. Len(cache) - 1
          /\ \A i \in 1 .. Len(cache) - 1 : kept[i] = cache[i + 1] /\ i + 1 \in DOMAIN cache
      BY <1>1, <2>1
    <3>2. Len(cache) = MaxSize
      <4>1. Len(cache) <= MaxSize
        BY DEF StoredOK
      <4>2. \A a, b \in Nat : a >= b /\ a <= b => a = b
        OBVIOUS
      <4>3. QED
        BY <1>1, <2>1, <4>1, <4>2, Zenon
    <3>3. QED
      BY <1>1, <1>2, <1>3, <3>1, <3>2
  <2>2. CASE ~(Len(cache) >= MaxSize)
    BY <1>1, <1>2, <1>3, <2>2
  <2>3. QED
    BY <2>1, <2>2
<1>5. [text |-> x, dim |-> Dim] \in Entries
  BY DEF Entries
<1>6. cache' = Append(kept, [text |-> x, dim |-> Dim])
  OBVIOUS
<1> HIDE DEF kept
<1>7. /\ cache' \in Seq(Entries) /\ Len(cache') = Len(kept) + 1 /\ DOMAIN cache' = 1 .. Len(kept) + 1
      /\ \A i \in DOMAIN kept : cache'[i] = kept[i]
      /\ cache'[Len(kept) + 1] = [text |-> x, dim |-> Dim]
  <2> DEFINE new == [text |-> x, dim |-> Dim]
  <2>1. kept \in Seq(Entries) /\ new \in Entries /\ cache' = Append(kept, new)
    BY <1>4, <1>5, <1>6
  <2> HIDE DEF new
  <2>2. /\ Append(kept, new) \in Seq(Entries) /\ Len(Append(kept, new)) = Len(kept) + 1
        /\ DOMAIN Append(kept, new) = 1 .. Len(kept) + 1
        /\ \A i \in 1 .. Len(kept) : Append(kept, new)[i] = kept[i]
        /\ Append(kept, new)[Len(kept) + 1] = new
    BY <2>1, AppendedFacts, Zenon
  <2>3. /\ cache' \in Seq(Entries) /\ Len(cache') = Len(kept) + 1 /\ DOMAIN cache' = 1 .. Len(kept) + 1
        /\ \A i \in 1 .. Len(kept) : cache'[i] = kept[i]
        /\ cache'[Len(kept) + 1] = new
    BY <2>1, <2>2, Zenon
  <2>4. QED
    BY <1>4, <2>3 DEF new
<1>8. \A i \in DOMAIN cache' : cache'[i].dim = Dim
  BY <1>4, <1>7
<1>9. \A i, j \in DOMAIN cache' : cache'[i].text = cache'[j].text => i = j
  BY <1>4, <1>7
<1>10. QED
  BY <1>4, <1>7, <1>8, <1>9 DEF StoredOK

LEMMA QueryStep ==
  ASSUME Cached!QueryAssumption, LockOK, StoredOK, FetchesOK, [Cached!Next]_Cached!vars
  PROVE  LockOK' /\ StoredOK' /\ FetchesOK'
<1> USE DEF Cached!Identity
<1>1. ASSUME UNCHANGED <<dim, cache, identity>> PROVE StoredOK'
  BY <1>1 DEF StoredOK
<1>2. ASSUME UNCHANGED cache, \A u \in Asker : asked'[u].at = "fetching" =>
                asked[u].at = "fetching" /\ asked'[u].text = asked[u].text
      PROVE  FetchesOK'
  BY <1>2 DEF FetchesOK
<1>3. ASSUME NEW t \in Asker, NEW x \in Text, Cached!Query(t, x) PROVE LockOK' /\ StoredOK' /\ FetchesOK'
  <2>1. asked[t] = Cached!Idle /\ asked[t].at = "idle" /\ t # None
    BY <1>3 DEF Cached!Query, Cached!Idle, Cached!QueryAssumption
  <2>2. CASE queryLock = None
    <3>1. queryLock' = t /\ asked' = [asked EXCEPT ![t] = [at |-> "locked", text |-> x, key |-> None]] /\ waiters' = waiters
      BY <1>3, <2>2 DEF Cached!Query
    <3>2. /\ asked' \in [Asker -> [at : Places, text : Text \cup {None}, key : Entries \cup {None}]]
          /\ asked'[t] = [at |-> "locked", text |-> x, key |-> None]
          /\ \A u \in Asker \ {t} : asked'[u] = asked[u]
      BY <3>1 DEF LockOK, Places
    <3>3. \A u \in Asker : asked[u].at \notin {"locked", "fetching"}
      BY <2>2 DEF LockOK, Cached!QueryAssumption
    <3>4. LockOK'
      BY <2>1, <3>1, <3>2, <3>3 DEF LockOK
    <3>5. FetchesOK'
      BY <1>2, <1>3, <3>2, <3>3 DEF Cached!Query
    <3>6. QED
      BY <1>1, <1>3, <3>4, <3>5 DEF Cached!Query
  <2>3. CASE queryLock # None /\ bound \in {None, LoopOf[t]}
    <3>1. /\ queryLock' = queryLock /\ waiters' = Append(waiters, t)
          /\ asked' = [asked EXCEPT ![t] = [at |-> "waiting", text |-> x, key |-> None]]
      BY <1>3, <2>3 DEF Cached!Query
    <3>2. /\ asked' \in [Asker -> [at : Places, text : Text \cup {None}, key : Entries \cup {None}]]
          /\ asked'[t] = [at |-> "waiting", text |-> x, key |-> None]
          /\ \A u \in Asker \ {t} : asked'[u] = asked[u]
      BY <3>1 DEF LockOK, Places
    <3>3. /\ waiters' \in Seq(Asker) /\ Len(waiters) \in Nat /\ DOMAIN waiters = 1 .. Len(waiters)
          /\ DOMAIN waiters' = 1 .. Len(waiters) + 1 /\ waiters'[Len(waiters) + 1] = t
          /\ \A i \in DOMAIN waiters : waiters'[i] = waiters[i] /\ waiters[i] # t
      BY <2>1, <3>1 DEF LockOK
    <3>4. \A u \in Asker : asked'[u].at = "waiting" <=> \E i \in DOMAIN waiters' : waiters'[i] = u
      <4>1. \A u \in Asker \ {t} : asked'[u].at = "waiting" <=> \E i \in DOMAIN waiters : waiters[i] = u
        BY <3>2 DEF LockOK
      <4>2. \A u \in Asker \ {t} : (\E i \in DOMAIN waiters : waiters[i] = u) <=> \E i \in DOMAIN waiters' : waiters'[i] = u
        BY <3>3
      <4>3. Len(waiters) + 1 \in DOMAIN waiters'
        BY <3>3
      <4>4. QED
        BY <3>2, <3>3, <4>1, <4>2, <4>3
    <3>5. \A i, j \in DOMAIN waiters' : waiters'[i] = waiters'[j] => i = j
      BY <3>3 DEF LockOK
    <3>6. LockOK'
      BY <2>1, <3>1, <3>2, <3>3, <3>4, <3>5 DEF LockOK
    <3>7. FetchesOK'
      BY <1>2, <1>3, <3>2 DEF Cached!Query
    <3>8. QED
      BY <1>1, <1>3, <3>6, <3>7 DEF Cached!Query
  <2>4. CASE queryLock # None /\ bound \notin {None, LoopOf[t]}
    <3>1. UNCHANGED <<queryLock, waiters, asked, dim, cache, identity>>
      BY <1>3, <2>4 DEF Cached!Query
    <3>2. LockOK'
      BY <3>1 DEF LockOK
    <3>3. QED
      BY <1>1, <1>2, <3>1, <3>2
  <2>5. QED
    BY <2>2, <2>3, <2>4
<1>4. ASSUME NEW t \in Asker, Cached!Recheck(t) PROVE LockOK' /\ StoredOK' /\ FetchesOK'
  <2>1. asked[t].at = "locked" /\ queryLock = t /\ asked[t].text \in Text
    BY <1>4 DEF Cached!Recheck, LockOK
  <2>2. CASE Cached!Cached(asked[t].text)
    BY <1>1, <1>2, <1>4, <2>1, <2>2, LockIsReleased DEF Cached!Recheck
  <2>3. CASE ~Cached!Cached(asked[t].text)
    <3>1. UNCHANGED <<queryLock, waiters, cache, dim, identity>>
      BY <1>4, <2>3 DEF Cached!Recheck
    <3>2. Cached!Key(asked[t].text) \in Entries /\ Cached!Key(asked[t].text) = [text |-> asked[t].text, dim |-> dim]
      BY <2>1 DEF Cached!Key, Entries, StoredOK
    <3>3. asked' = [asked EXCEPT ![t] = [at |-> "fetching", text |-> asked[t].text, key |-> Cached!Key(asked[t].text)]]
      BY <1>4, <2>3 DEF Cached!Recheck, LockOK
    <3>4. [at |-> "fetching", text |-> asked[t].text, key |-> Cached!Key(asked[t].text)]
            \in [at : Places, text : Text \cup {None}, key : Entries \cup {None}]
      BY <2>1, <3>2 DEF Places
    <3>5. LockOK'
      BY <2>1, <3>1, <3>3, <3>4, AskerGoes
    <3>6. \A i \in DOMAIN cache : cache[i].text # asked[t].text
      <4>1. \A i \in DOMAIN cache : cache[i] # [text |-> asked[t].text, dim |-> dim]
        BY <2>3, <3>2 DEF Cached!Cached, Cached!Range
      <4>2. \A i \in DOMAIN cache : cache[i] \in Entries /\ cache[i].dim = dim
        BY DEF StoredOK
      <4>3. \A i \in DOMAIN cache : cache[i] = [text |-> cache[i].text, dim |-> dim]
        BY <4>2 DEF Entries
      <4>4. QED
        BY <4>1, <4>3
    <3>7. FetchesOK'
      BY <3>1, <3>3, <3>6 DEF FetchesOK, LockOK
    <3>8. QED
      BY <1>1, <3>1, <3>5, <3>7
  <2>4. QED
    BY <2>2, <2>3
<1>5. ASSUME NEW t \in Asker, Cached!Fetched(t) PROVE LockOK' /\ StoredOK' /\ FetchesOK'
  <2>1. asked[t].at = "fetching" /\ queryLock = t /\ asked[t].text \in Text
    BY <1>5 DEF Cached!Fetched, LockOK
  <2>2. \A i \in DOMAIN cache : cache[i].text # asked[t].text
    BY <2>1 DEF FetchesOK
  <2>3. StoredOK'
    BY <1>5, <2>1, <2>2, VectorIsStored DEF Cached!Fetched
  <2>4. LockOK' /\ \A u \in Asker : asked'[u].at # "fetching"
    BY <1>5, <2>1, LockIsReleased DEF Cached!Fetched
  <2>5. QED
    BY <2>3, <2>4 DEF FetchesOK
<1>6. ASSUME NEW t \in Asker, Cached!Fails(t) PROVE LockOK' /\ StoredOK' /\ FetchesOK'
  <2>1. CASE asked[t].at = "fetching"
    <3>1. queryLock = t
      BY <2>1 DEF LockOK
    <3>2. QED
      BY <1>1, <1>2, <1>6, <2>1, <3>1, LockIsReleased DEF Cached!Fails
  <2>2. CASE asked[t].at = "waiting"
    <3>1. PICK i \in DOMAIN waiters : waiters[i] = t /\ waiters' = Cached!RemoveAt(waiters, i)
      BY <1>6, <2>2 DEF Cached!Fails
    <3>2. asked' = [asked EXCEPT ![t] = Cached!Idle] /\ queryLock' = queryLock
      BY <1>6, <2>2 DEF Cached!Fails
    <3>3. LockOK'
      BY <2>2, <3>1, <3>2, QueueIsLeft
    <3>4. FetchesOK'
      BY <1>2, <1>6, <3>2 DEF Cached!Fails, Cached!Idle, LockOK
    <3>5. QED
      BY <1>1, <1>6, <3>3, <3>4 DEF Cached!Fails
  <2>3. QED
    BY <1>6, <2>1, <2>2 DEF Cached!Fails
<1>7. ASSUME NEW t \in Asker, Cached!Probe(t) PROVE LockOK' /\ StoredOK' /\ FetchesOK'
  <2> DEFINE r == [at |-> "probing", text |-> None, key |-> None]
  <2>1. asked' = [asked EXCEPT ![t] = r] /\ asked[t].at = "idle"
    <3>1. asked' = [asked EXCEPT ![t] = [Cached!Idle EXCEPT !.at = "probing"]] /\ asked[t] = Cached!Idle
      BY <1>7 DEF Cached!Probe
    <3>2. [Cached!Idle EXCEPT !.at = "probing"] = r /\ Cached!Idle.at = "idle"
      BY DEF Cached!Idle
    <3>3. QED
      BY <3>1, <3>2
  <2>2. r \in [at : Places, text : Text \cup {None}, key : Entries \cup {None}]
    BY DEF Places
  <2>3. LockOK'
    BY <1>7, <2>1, <2>2, AskerGoes DEF Cached!Probe
  <2>4. FetchesOK'
    BY <1>2, <1>7, <2>1 DEF Cached!Probe, LockOK
  <2>5. QED
    BY <1>1, <1>7, <2>3, <2>4 DEF Cached!Probe
<1>8. ASSUME NEW t \in Asker, Cached!Probed(t) \/ Cached!ProbeFails(t) PROVE LockOK' /\ StoredOK' /\ FetchesOK'
  <2>1. /\ asked' = [asked EXCEPT ![t] = Cached!Idle] /\ asked[t].at = "probing"
        /\ UNCHANGED <<queryLock, waiters, cache>>
    BY <1>8 DEF Cached!Probed, Cached!ProbeFails
  <2>2. Cached!Idle \in [at : Places, text : Text \cup {None}, key : Entries \cup {None}] /\ Cached!Idle.at = "idle"
    BY DEF Places, Cached!Idle
  <2>3. LockOK'
    BY <2>1, <2>2, AskerGoes
  <2>4. FetchesOK'
    BY <1>2, <2>1, <2>2 DEF LockOK
  <2>5. StoredOK'
    BY <1>1, <1>8 DEF Cached!Probed, Cached!ProbeFails, StoredOK
  <2>6. QED
    BY <2>3, <2>4, <2>5
<1>9. ASSUME UNCHANGED Cached!vars PROVE LockOK' /\ StoredOK' /\ FetchesOK'
  <2>1. LockOK'
    BY <1>9 DEF Cached!vars, LockOK
  <2>2. QED
    BY <1>1, <1>2, <1>9, <2>1 DEF Cached!vars
<1>10. QED
  BY <1>3, <1>4, <1>5, <1>6, <1>7, <1>8, <1>9 DEF Cached!Next, Cached!GoOn

(* For any number of tasks, texts and event loops: a text is not asked for *)
(* while its vector is in the cache, which holds one vector of a text and  *)
(* none that can never be found, and an identity has the dimension that    *)
(* the service told.                                                       *)
THEOREM QuerySafety ==
  ASSUME Cached!QueryAssumption
  PROVE  Cached!Spec => []QueriesShareCalls
<1>1. Cached!Init => LockOK /\ StoredOK /\ FetchesOK
  BY DEF Cached!Init, Cached!Idle, Cached!QueryAssumption, LockOK, StoredOK, FetchesOK, Places, Entries
<1>2. LockOK /\ StoredOK /\ FetchesOK /\ [Cached!Next]_Cached!vars => LockOK' /\ StoredOK' /\ FetchesOK'
  BY QueryStep
<1>3. LockOK /\ StoredOK /\ FetchesOK => QueriesShareCalls
  BY QueryParts DEF Cached!IInv, Cached!QueriesShareCalls, QueriesShareCalls
<1>4. QED
  BY <1>1, <1>2, <1>3, PTL DEF Cached!Spec

-----------------------------------------------------------------------------
(* Splitting a text: slices, the bytes and the tokens of a slice.          *)

LEMMA SliceFacts ==
  ASSUME NEW S, NEW s \in Seq(S), NEW i \in 0 .. Len(s), NEW j \in i .. Len(s)
  PROVE  /\ Split!Slice(s, i, j) = SubSeq(s, i + 1, j) /\ Split!Slice(s, i, j) \in Seq(S)
         /\ Len(Split!Slice(s, i, j)) = j - i
         /\ \A n \in 1 .. j - i : Split!Slice(s, i, j)[n] = s[i + n]
<1>1. Len(s) \in Nat /\ \A n \in 1 .. Len(s) : s[n] \in S
  BY LenProperties, ElementOfSeq
<1>2. Split!Slice(s, i, j) = SubSeq(s, i + 1, j)
  <2>1. Split!Least(j, Len(s)) = j
    BY <1>1 DEF Split!Least
  <2>2. QED
    BY <2>1 DEF Split!Slice
<1>3. i + 1 \in Int /\ j \in Int /\ \A n \in i + 1 .. j : s[n] \in S
  BY <1>1
<1>4. /\ SubSeq(s, i + 1, j) \in Seq(S)
      /\ Len(SubSeq(s, i + 1, j)) = IF i + 1 <= j THEN j - (i + 1) + 1 ELSE 0
      /\ \A n \in 1 .. j - (i + 1) + 1 : SubSeq(s, i + 1, j)[n] = s[i + 1 + n - 1]
  BY <1>3, SubSeqProperties
<1>5. \A n \in 1 .. j - i : n \in 1 .. j - (i + 1) + 1 /\ i + 1 + n - 1 = i + n
  BY <1>1
<1>6. (IF i + 1 <= j THEN j - (i + 1) + 1 ELSE 0) = j - i
  BY <1>1
<1>7. QED
  BY <1>2, <1>4, <1>5, <1>6

\* A slice that goes past the end ends there.
LEMMA SlicePast ==
  ASSUME NEW S, NEW s \in Seq(S), NEW i \in 0 .. Len(s), NEW j \in Nat, Len(s) <= j
  PROVE  Split!Slice(s, i, j) = Split!Slice(s, i, Len(s))
<1>1. Len(s) \in Nat
  BY LenProperties
<1>2. Split!Least(j, Len(s)) = Len(s) /\ Split!Least(Len(s), Len(s)) = Len(s)
  BY <1>1 DEF Split!Least
<1>3. QED
  BY <1>2 DEF Split!Slice

LEMMA SliceOfSlice ==
  ASSUME NEW S, NEW s \in Seq(S), NEW i \in 0 .. Len(s), NEW j \in i .. Len(s), NEW k \in 0 .. j - i
  PROVE  Split!Slice(Split!Slice(s, i, j), 0, k) = Split!Slice(s, i, i + k)
<1> DEFINE u == Split!Slice(s, i, j)
<1>1. u \in Seq(S) /\ Len(u) = j - i /\ \A n \in 1 .. j - i : u[n] = s[i + n]
  BY SliceFacts
<1> HIDE DEF u
<1>2. /\ Len(s) \in Nat /\ k \in 0 .. Len(u) /\ i + k \in i .. Len(s) /\ 0 \in 0 .. Len(u)
      /\ (i + k) - i = k /\ k - 0 = k
  BY <1>1, LenProperties
<1>3. /\ Split!Slice(u, 0, k) \in Seq(S) /\ Len(Split!Slice(u, 0, k)) = k
      /\ \A n \in 1 .. k : Split!Slice(u, 0, k)[n] = u[0 + n]
  <2>1. PICK z : z = 0
    OBVIOUS
  <2>2. u \in Seq(S) /\ z \in 0 .. Len(u) /\ k \in z .. Len(u)
    BY <2>1, <1>1, <1>2
  <2>3. /\ Split!Slice(u, z, k) \in Seq(S) /\ Len(Split!Slice(u, z, k)) = k - z
        /\ \A n \in 1 .. k - z : Split!Slice(u, z, k)[n] = u[z + n]
    BY <2>2, SliceFacts
  <2>4. QED
    BY <2>1, <2>3, <1>2
<1>4. /\ Split!Slice(s, i, i + k) \in Seq(S) /\ Len(Split!Slice(s, i, i + k)) = k
      /\ \A n \in 1 .. k : Split!Slice(s, i, i + k)[n] = s[i + n]
  <2>1. /\ Split!Slice(s, i, i + k) \in Seq(S) /\ Len(Split!Slice(s, i, i + k)) = (i + k) - i
        /\ \A n \in 1 .. (i + k) - i : Split!Slice(s, i, i + k)[n] = s[i + n]
    BY <1>2, SliceFacts
  <2>2. QED
    BY <2>1, <1>2
<1>5. \A n \in 1 .. k : n \in 1 .. j - i /\ 0 + n = n
  BY <1>1, <1>2
<1>6. \A n \in 1 .. k : Split!Slice(u, 0, k)[n] = Split!Slice(s, i, i + k)[n]
  BY <1>1, <1>3, <1>4, <1>5
<1>7. Split!Slice(u, 0, k) = Split!Slice(s, i, i + k)
  BY <1>3, <1>4, <1>6, SeqEqual
<1>8. QED
  BY <1>7 DEF u

LEMMA SliceJoins ==
  ASSUME NEW S, NEW s \in Seq(S), NEW i \in 0 .. Len(s), NEW j \in i .. Len(s),
         NEW k \in j .. Len(s)
  PROVE  Split!Slice(s, i, j) \o Split!Slice(s, j, k) = Split!Slice(s, i, k)
<1>1. Len(s) \in Nat
  BY LenProperties
<1>2. /\ i + 1 \in 1 .. Len(s) + 1 /\ j \in (i + 1) - 1 .. Len(s) /\ j \in 0 .. Len(s)
      /\ k \in i .. Len(s)
  BY <1>1
<1>3. SubSeq(s, i + 1, j) \o SubSeq(s, j + 1, k) = SubSeq(s, i + 1, k)
  BY <1>2, ConcatAdjacentSubSeq
<1>4. QED
  BY <1>2, <1>3, SliceFacts

LEMMA SliceWhole ==
  ASSUME NEW S, NEW s \in Seq(S)
  PROVE  Split!Slice(s, 0, Len(s)) = s
<1>1. Len(s) \in Nat /\ 0 \in 0 .. Len(s) /\ Len(s) \in 0 .. Len(s)
  BY LenProperties
<1>2. Split!Slice(s, 0, Len(s)) = SubSeq(s, 1, Len(s))
  <2>1. Split!Least(Len(s), Len(s)) = Len(s) /\ 0 + 1 = 1
    BY <1>1 DEF Split!Least
  <2>2. QED
    BY <2>1 DEF Split!Slice
<1>3. QED
  BY <1>2, SubSeqFull

\* The bytes of a text, by the sums over its first characters.
LEMMA ByteSums ==
  ASSUME Split!SplitAssumption, NEW s \in Seq(Char)
  PROVE  \E f \in [0 .. Len(s) -> Nat] :
           /\ f[0] = 0 /\ \A n \in 1 .. Len(s) : f[n] = f[n - 1] + BytesOf[s[n]]
           /\ Split!Utf8Length(s) = f[Len(s)]
<1> DEFINE N == Len(s)
           Val(f, n) == IF n = 0 THEN 0 ELSE f[n - 1] + BytesOf[s[n]]
           Solves(f) == f = [n \in 0 .. N |-> Val(f, n)]
           op == [x \in Nat \X (1 .. N) |-> x[1] + BytesOf[s[x[2]]]]
<1>1. N \in Nat /\ \A n \in 1 .. N : s[n] \in Char /\ BytesOf[s[n]] \in Nat
  BY DEF Split!SplitAssumption
<1>2. op \in [Nat \X (1 .. N) -> Nat]
  <2>1. ASSUME NEW x \in Nat \X (1 .. N) PROVE x[1] + BytesOf[s[x[2]]] \in Nat
    BY <1>1
  <2>2. QED
    BY <2>1
<1>3. \A x \in Nat, n \in 1 .. N : op[<<x, n>>] = x + BytesOf[s[n]]
  OBVIOUS
<1> HIDE DEF op, N
<1>4. PICK f : IsRecursive(f, Nat, 0, N, op)
  <2>1. Recurs(Nat, 0, N, op)
    BY <1>1, <1>2 DEF Recurs
  <2>2. QED
    BY <2>1, Recursion
<1>5. \A n \in 0 .. N : f[n] = Val(f, n)
  <2>1. ASSUME NEW n \in 1 .. N PROVE f[n] = f[n - 1] + BytesOf[s[n]]
    <3>1. f[n - 1] \in Nat
      BY <1>1, <1>4 DEF IsRecursive
    <3>2. QED
      BY <3>1, <1>3, <1>4 DEF IsRecursive
  <2>2. f[0] = 0 /\ \A n \in 0 .. N : n = 0 \/ n \in 1 .. N
    BY <1>1, <1>4 DEF IsRecursive
  <2>3. QED
    BY <2>1, <2>2
<1>6. Solves(f)
  <2> HIDE DEF Val
  <2>1. QED
    BY <1>4, <1>5 DEF IsRecursive
<1> DEFINE g == CHOOSE h : Solves(h)
<1>7. Solves(g)
  <2> HIDE DEF Solves
  <2>1. QED
    BY <1>6
<1>8. Split!Utf8Length(s) = g[N]
  BY DEF Split!Utf8Length, N
<1> HIDE DEF g
<1>9. \A n \in 0 .. N : g[n] = Val(g, n)
  <2> HIDE DEF Val
  <2>1. QED
    BY <1>7
<1>10. \A n \in 1 .. N : g[n] = g[n - 1] + BytesOf[s[n]]
  BY <1>1, <1>9
<1>11. g[0] = 0
  BY <1>1, <1>9
<1>12. g = [n \in 0 .. N |-> g[n]]
  BY <1>7
<1> DEFINE T == {n \in Nat : n <= N => g[n] \in Nat}
<1>13. 0 \in T
  BY <1>11
<1>14. ASSUME NEW m \in Nat, m \in T PROVE m + 1 \in T
  <2>1. SUFFICES ASSUME m + 1 <= N PROVE g[m + 1] \in Nat
    OBVIOUS
  <2>2. m + 1 \in 1 .. N /\ (m + 1) - 1 = m /\ m <= N
    BY <1>1, <2>1
  <2>3. g[m + 1] = g[m] + BytesOf[s[m + 1]] /\ BytesOf[s[m + 1]] \in Nat
    BY <1>1, <1>10, <2>2
  <2>4. g[m] \in Nat
    BY <1>14, <2>2
  <2>5. QED
    BY <2>3, <2>4
<1>15. Nat \subseteq T
  <2> HIDE DEF T
  <2>1. QED
    BY <1>13, <1>14, AllNaturals
<1>16. g \in [0 .. N -> Nat]
  BY <1>1, <1>12, <1>15
<1>17. QED
  BY <1>8, <1>10, <1>11, <1>16 DEF N

LEMMA BytesAreNatural ==
  ASSUME Split!SplitAssumption
  PROVE  /\ Split!Utf8Length(<<>>) = 0
         /\ \A s \in Seq(Char) : Split!Utf8Length(s) \in Nat
         /\ \A c \in Char : Split!Utf8Length(<<c>>) = BytesOf[c] /\ BytesOf[c] \in Nat \ {0}
<1>1. ASSUME NEW s \in Seq(Char) PROVE Split!Utf8Length(s) \in Nat
  <2>1. Len(s) \in Nat /\ Len(s) \in 0 .. Len(s)
    BY LenProperties
  <2>2. QED
    BY <2>1, ByteSums
<1>2. Split!Utf8Length(<<>>) = 0
  <2>1. <<>> \in Seq(Char) /\ Len(<<>>) = 0
    BY EmptySeq
  <2>2. QED
    BY <2>1, ByteSums
<1>3. ASSUME NEW c \in Char PROVE Split!Utf8Length(<<c>>) = BytesOf[c] /\ BytesOf[c] \in Nat \ {0}
  <2>1. <<c>> \in Seq(Char) /\ Len(<<c>>) = 1 /\ <<c>>[1] = c
    OBVIOUS
  <2>2. BytesOf[c] \in Nat \ {0}
    BY DEF Split!SplitAssumption
  <2> DEFINE s == <<c>>
  <2>3. PICK f \in [0 .. Len(s) -> Nat] :
           /\ f[0] = 0 /\ \A n \in 1 .. Len(s) : f[n] = f[n - 1] + BytesOf[s[n]]
           /\ Split!Utf8Length(s) = f[Len(s)]
    <3> HIDE DEF s
    <3>1. s \in Seq(Char)
      BY <2>1 DEF s
    <3>2. QED
      BY <3>1, ByteSums
  <2>4. Len(s) = 1 /\ s[1] = c
    BY <2>1
  <2> HIDE DEF s
  <2>5. f[1] = f[1 - 1] + BytesOf[s[1]] /\ 1 - 1 = 0
    BY <2>3, <2>4
  <2>6. Split!Utf8Length(s) = BytesOf[c]
    BY <2>2, <2>3, <2>4, <2>5
  <2>7. QED
    BY <2>2, <2>6 DEF s
<1>4. QED
  BY <1>1, <1>2, <1>3

\* The bytes of two texts add up.
LEMMA BytesAdd ==
  ASSUME Split!SplitAssumption, NEW s \in Seq(Char), NEW t \in Seq(Char)
  PROVE  Split!Utf8Length(s \o t) = Split!Utf8Length(s) + Split!Utf8Length(t)
<1> DEFINE d == s \o t
<1>1. /\ d \in Seq(Char) /\ Len(d) = Len(s) + Len(t) /\ Len(s) \in Nat /\ Len(t) \in Nat
      /\ \A i \in 1 .. Len(s) + Len(t) : d[i] = IF i <= Len(s) THEN s[i] ELSE t[i - Len(s)]
  BY ConcatProperties, LenProperties
<1> HIDE DEF d
<1>2. PICK f \in [0 .. Len(s) -> Nat] :
        /\ f[0] = 0 /\ \A n \in 1 .. Len(s) : f[n] = f[n - 1] + BytesOf[s[n]]
        /\ Split!Utf8Length(s) = f[Len(s)]
  BY ByteSums
<1>3. PICK g \in [0 .. Len(t) -> Nat] :
        /\ g[0] = 0 /\ \A n \in 1 .. Len(t) : g[n] = g[n - 1] + BytesOf[t[n]]
        /\ Split!Utf8Length(t) = g[Len(t)]
  BY ByteSums
<1>4. PICK h \in [0 .. Len(d) -> Nat] :
        /\ h[0] = 0 /\ \A n \in 1 .. Len(d) : h[n] = h[n - 1] + BytesOf[d[n]]
        /\ Split!Utf8Length(d) = h[Len(d)]
  BY <1>1, ByteSums
<1>5. \A c \in Char : BytesOf[c] \in Nat
  BY DEF Split!SplitAssumption
<1> DEFINE T == {n \in Nat : n <= Len(s) => h[n] = f[n]}
           U == {n \in Nat : n <= Len(t) => h[Len(s) + n] = f[Len(s)] + g[n]}
<1>6. 0 \in T
  BY <1>2, <1>4
<1>7. ASSUME NEW m \in Nat, m \in T PROVE m + 1 \in T
  <2>1. SUFFICES ASSUME m + 1 <= Len(s) PROVE h[m + 1] = f[m + 1]
    OBVIOUS
  <2>2. /\ m + 1 \in 1 .. Len(s) /\ m + 1 \in 1 .. Len(d) /\ (m + 1) - 1 = m /\ m <= Len(s)
        /\ d[m + 1] = s[m + 1]
    BY <1>1, <2>1
  <2>3. h[m] = f[m]
    BY <1>7, <2>2
  <2>4. f[m + 1] = f[m] + BytesOf[s[m + 1]] /\ h[m + 1] = h[m] + BytesOf[d[m + 1]]
    BY <1>2, <1>4, <2>2
  <2>5. QED
    BY <2>2, <2>3, <2>4
<1>8. Nat \subseteq T
  <2> HIDE DEF T
  <2>1. QED
    BY <1>6, <1>7, AllNaturals
<1>9. h[Len(s)] = f[Len(s)] /\ f[Len(s)] \in Nat
  BY <1>1, <1>8
<1>10. 0 \in U
  BY <1>1, <1>3, <1>9
<1>11. ASSUME NEW m \in Nat, m \in U PROVE m + 1 \in U
  <2>1. SUFFICES ASSUME m + 1 <= Len(t) PROVE h[Len(s) + (m + 1)] = f[Len(s)] + g[m + 1]
    OBVIOUS
  <2> DEFINE k == Len(s) + (m + 1)
  <2>2. /\ m + 1 \in 1 .. Len(t) /\ k \in 1 .. Len(d) /\ (m + 1) - 1 = m /\ m <= Len(t)
        /\ k - 1 = Len(s) + m /\ ~(k <= Len(s)) /\ k - Len(s) = m + 1 /\ k \in 1 .. Len(s) + Len(t)
    BY <1>1, <2>1
  <2> HIDE DEF k
  <2>3. d[k] = t[m + 1] /\ t[m + 1] \in Char
    BY <1>1, <2>2
  <2>4. h[k - 1] = f[Len(s)] + g[m]
    BY <1>11, <2>2
  <2>5. g[m + 1] = g[m] + BytesOf[t[m + 1]] /\ h[k] = h[k - 1] + BytesOf[d[k]]
    BY <1>3, <1>4, <2>2
  <2>6. g[m] \in Nat /\ BytesOf[t[m + 1]] \in Nat
    <3>1. m \in 0 .. Len(t)
      BY <1>1, <2>2
    <3>2. QED
      BY <3>1, <1>3, <1>5, <2>3
  <2>7. h[k] = f[Len(s)] + g[m + 1]
    BY <1>9, <2>3, <2>4, <2>5, <2>6
  <2>8. QED
    BY <2>7 DEF k
<1>12. Nat \subseteq U
  <2> HIDE DEF U
  <2>1. QED
    BY <1>10, <1>11, AllNaturals
<1>13. h[Len(s) + Len(t)] = f[Len(s)] + g[Len(t)]
  BY <1>1, <1>12
<1>14. QED
  BY <1>1, <1>2, <1>3, <1>4, <1>13 DEF d

\* What is cut off a text takes no bytes away from it.
LEMMA BytesOfStart ==
  ASSUME Split!SplitAssumption, NEW s \in Seq(Char), NEW k \in 0 .. Len(s)
  PROVE  /\ Split!Utf8Length(Split!Slice(s, 0, k)) <= Split!Utf8Length(s)
         /\ Split!Utf8Length(Split!Slice(s, 0, k)) \in Nat
<1>1. Len(s) \in Nat /\ 0 \in 0 .. Len(s) /\ Len(s) \in k .. Len(s)
  BY LenProperties
<1>2. Split!Slice(s, 0, k) \in Seq(Char) /\ Split!Slice(s, k, Len(s)) \in Seq(Char)
  BY <1>1, SliceFacts
<1>3. Split!Slice(s, 0, k) \o Split!Slice(s, k, Len(s)) = s
  BY <1>1, SliceJoins, SliceWhole
<1>4. Split!Utf8Length(s)
        = Split!Utf8Length(Split!Slice(s, 0, k)) + Split!Utf8Length(Split!Slice(s, k, Len(s)))
  BY <1>2, <1>3, BytesAdd
<1>5. QED
  BY <1>2, <1>4, BytesAreNatural

LEMMA TruncatedFacts ==
  ASSUME Split!SplitAssumption, NEW s \in Seq(Char), NEW n \in Nat
  PROVE  \E k \in 0 .. Len(s) :
           /\ Split!Truncated(s, n) = Split!Slice(s, 0, k)
           /\ Split!Utf8Length(Split!Slice(s, 0, k)) <= n
           /\ k < Len(s) => Split!Utf8Length(Split!Slice(s, 0, k + 1)) > n
<1> DEFINE Takes(k) == Split!Utf8Length(Split!Slice(s, 0, k))
           Last1(k) == Takes(k) <= n /\ (k < Len(s) => Takes(k + 1) > n)
           T == {k \in Nat : k <= Len(s) => Takes(k) <= n}
<1>1. Len(s) \in Nat
  BY LenProperties
<1>2. \E k \in 0 .. Len(s) : Last1(k)
  <2>1. SUFFICES ASSUME ~\E k \in 0 .. Len(s) : Last1(k) PROVE FALSE
    OBVIOUS
  <2>2. 0 \in T
    <3>1. Split!Slice(s, 0, 0) = <<>>
      <4>1. 0 \in 0 .. Len(s) /\ 0 \in 0 .. Len(s)
        BY <1>1
      <4>2. Split!Slice(s, 0, 0) \in Seq(Char) /\ Len(Split!Slice(s, 0, 0)) = 0 - 0
        BY <4>1, SliceFacts
      <4>3. QED
        BY <4>2, EmptySeq
    <3>2. QED
      BY <3>1, BytesAreNatural
  <2>3. ASSUME NEW m \in Nat, m \in T PROVE m + 1 \in T
    <3>1. SUFFICES ASSUME m + 1 <= Len(s) PROVE Takes(m + 1) <= n
      OBVIOUS
    <3>2. m \in 0 .. Len(s) /\ m < Len(s) /\ m <= Len(s) /\ m + 1 \in 0 .. Len(s)
      BY <1>1, <3>1
    <3>3. Takes(m) <= n
      BY <2>3, <3>2
    <3>4. ~(Takes(m + 1) > n)
      BY <2>1, <3>2, <3>3
    <3>5. Takes(m + 1) \in Nat
      BY <3>2, BytesOfStart
    <3> HIDE DEF Takes
    <3>6. QED
      BY <3>4, <3>5
  <2>4. Nat \subseteq T
    <3> HIDE DEF T
    <3>1. QED
      BY <2>2, <2>3, AllNaturals
  <2>5. Takes(Len(s)) <= n
    BY <1>1, <2>4
  <2>6. QED
    BY <1>1, <2>1, <2>5
<1> DEFINE k == CHOOSE k \in 0 .. Len(s) : Last1(k)
<1>3. k \in 0 .. Len(s) /\ Last1(k)
  <2> HIDE DEF Last1
  <2>1. QED
    BY <1>2
<1>4. Split!Truncated(s, n) = Split!Slice(s, 0, k)
  BY DEF Split!Truncated
<1> HIDE DEF k
<1>5. QED
  BY <1>3, <1>4

\* Sequences that are joined, one after the other.
LEMMA Joins ==
  ASSUME NEW S, NEW w \in Seq(Seq(S)), w # <<>>
  PROVE  \E g \in [1 .. Len(w) -> Seq(S)] :
           /\ g[1] = w[1] /\ \A i \in 2 .. Len(w) : g[i] = g[i - 1] \o w[i]
           /\ Split!FlattenSeq(w) = g[Len(w)]
<1> DEFINE L == Len(w)
           Val(h, i) == IF i = 1 THEN w[i] ELSE h[i - 1] \o w[i]
           Solves(h) == h = [i \in 1 .. L |-> Val(h, i)]
           op == [x \in Seq(S) \X (1 .. L - 1) |-> x[1] \o w[x[2] + 1]]
<1>1. L \in Nat /\ L # 0 /\ \A i \in 1 .. L : w[i] \in Seq(S)
  BY EmptySeq, LenProperties, ElementOfSeq
<1>2. Split!FlattenSeq(w) = (CHOOSE h : Solves(h))[L]
  BY <1>1 DEF Split!FlattenSeq
<1>3. op \in [Seq(S) \X (1 .. L - 1) -> Seq(S)]
  <2>1. ASSUME NEW x \in Seq(S) \X (1 .. L - 1) PROVE x[1] \o w[x[2] + 1] \in Seq(S)
    <3>1. x[1] \in Seq(S) /\ x[2] + 1 \in 1 .. L
      BY <1>1
    <3>2. QED
      BY <3>1, <1>1, ConcatProperties
  <2>2. QED
    BY <2>1
<1>4. \A x \in Seq(S), n \in 1 .. L - 1 : op[<<x, n>>] = x \o w[n + 1]
  OBVIOUS
<1> HIDE DEF op, L
<1>5. PICK f : IsRecursive(f, Seq(S), w[1], L - 1, op)
  <2>1. w[1] \in Seq(S) /\ L - 1 \in Nat
    BY <1>1
  <2>2. Recurs(Seq(S), w[1], L - 1, op)
    BY <2>1, <1>3 DEF Recurs
  <2>3. QED
    BY <2>2, Recursion
<1> DEFINE g == [i \in 1 .. L |-> f[i - 1]]
<1>6. g = [i \in 1 .. L |-> g[i]] /\ \A i \in 1 .. L : g[i] = f[i - 1]
  OBVIOUS
<1> HIDE DEF g
<1>7. g[1] = w[1]
  <2>1. 1 \in 1 .. L /\ 1 - 1 = 0 /\ f[0] = w[1]
    BY <1>1, <1>5 DEF IsRecursive
  <2>2. QED
    BY <1>6, <2>1
<1>8. ASSUME NEW i \in 2 .. L PROVE g[i] = g[i - 1] \o w[i]
  <2>1. /\ i \in 1 .. L /\ i - 1 \in 1 .. L /\ i - 1 \in 1 .. L - 1 /\ (i - 1) - 1 \in 0 .. L - 1
        /\ (i - 1) + 1 = i
    BY <1>1
  <2>2. g[i] = f[i - 1] /\ g[i - 1] = f[(i - 1) - 1]
    BY <1>6, <2>1
  <2>3. f[i - 1] = op[<<f[(i - 1) - 1], i - 1>>] /\ f[(i - 1) - 1] \in Seq(S)
    BY <1>5, <2>1 DEF IsRecursive
  <2>4. op[<<f[(i - 1) - 1], i - 1>>] = f[(i - 1) - 1] \o w[(i - 1) + 1]
    BY <1>4, <2>1, <2>3
  <2>5. QED
    BY <2>1, <2>2, <2>3, <2>4
<1>9. Solves(g)
  <2>1. \A i \in 1 .. L : g[i] = Val(g, i)
    <3>1. ASSUME NEW i \in 1 .. L PROVE g[i] = Val(g, i)
      <4>1. i = 1 \/ i \in 2 .. L
        BY <1>1
      <4>2. QED
        BY <4>1, <1>7, <1>8
    <3>2. QED
      BY <3>1
  <2> HIDE DEF Val
  <2>2. QED
    BY <2>1, <1>6
<1> DEFINE h == CHOOSE x : Solves(x)
<1>10. Solves(h)
  <2> HIDE DEF Solves
  <2>1. QED
    BY <1>9
<1> HIDE DEF h
<1>11. h = [i \in 1 .. L |-> h[i]] /\ \A i \in 1 .. L : h[i] = Val(h, i)
  <2> HIDE DEF Val
  <2>1. QED
    BY <1>10
<1>12. h[1] = w[1] /\ \A i \in 2 .. L : h[i] = h[i - 1] \o w[i]
  <2>1. h[1] = w[1]
    <3>1. 1 \in 1 .. L
      BY <1>1
    <3>2. QED
      BY <3>1, <1>11
  <2>2. ASSUME NEW i \in 2 .. L PROVE h[i] = h[i - 1] \o w[i]
    <3>1. i \in 1 .. L /\ i # 1
      BY <1>1
    <3>2. QED
      BY <3>1, <1>11
  <2>3. QED
    BY <2>1, <2>2
<1> DEFINE T == {n \in Nat : n + 1 <= L => h[n + 1] \in Seq(S)}
<1>13. 0 \in T
  BY <1>1, <1>12
<1>14. ASSUME NEW m \in Nat, m \in T PROVE m + 1 \in T
  <2>1. SUFFICES ASSUME (m + 1) + 1 <= L PROVE h[(m + 1) + 1] \in Seq(S)
    OBVIOUS
  <2> DEFINE k == (m + 1) + 1
  <2>2. k \in 2 .. L /\ k \in 1 .. L /\ k - 1 = m + 1 /\ m + 1 <= L
    BY <1>1, <2>1
  <2> HIDE DEF k
  <2>3. h[k - 1] \in Seq(S) /\ w[k] \in Seq(S)
    BY <1>1, <1>14, <2>2
  <2>4. h[k] \in Seq(S)
    BY <1>12, <2>2, <2>3, ConcatProperties
  <2>5. QED
    BY <2>4 DEF k
<1>15. Nat \subseteq T
  <2> HIDE DEF T
  <2>1. QED
    BY <1>13, <1>14, AllNaturals
<1>16. h \in [1 .. L -> Seq(S)]
  <2>1. ASSUME NEW i \in 1 .. L PROVE h[i] \in Seq(S)
    <3>1. i - 1 \in Nat /\ (i - 1) + 1 = i /\ i <= L
      BY <1>1
    <3>2. QED
      BY <3>1, <1>15
  <2>2. QED
    BY <2>1, <1>11
<1>17. Split!FlattenSeq(w) = h[L]
  BY <1>2 DEF h
<1>18. QED
  BY <1>12, <1>16, <1>17 DEF L

\* What is joined is empty if every one of them is.
LEMMA JoinsNothing ==
  ASSUME NEW S, NEW w \in Seq(Seq(S))
  PROVE  /\ Split!FlattenSeq(w) \in Seq(S)
         /\ Split!FlattenSeq(w) = <<>> <=> \A i \in 1 .. Len(w) : w[i] = <<>>
<1>1. Len(w) \in Nat /\ \A i \in 1 .. Len(w) : w[i] \in Seq(S)
  BY LenProperties, ElementOfSeq
<1>2. CASE w = <<>>
  <2>1. Len(w) = 0 /\ <<>> \in Seq(S)
    BY <1>2, EmptySeq
  <2>2. Split!FlattenSeq(w) = <<>>
    BY <2>1, <1>2 DEF Split!FlattenSeq
  <2>3. QED
    BY <2>1, <2>2
<1>3. CASE w # <<>>
  <2>1. PICK g \in [1 .. Len(w) -> Seq(S)] :
           /\ g[1] = w[1] /\ \A i \in 2 .. Len(w) : g[i] = g[i - 1] \o w[i]
           /\ Split!FlattenSeq(w) = g[Len(w)]
    BY <1>3, Joins
  <2>2. Len(w) # 0
    BY <1>3, EmptySeq
  <2> DEFINE T == {n \in Nat : n + 1 <= Len(w) =>
                     (g[n + 1] = <<>> <=> \A i \in 1 .. n + 1 : w[i] = <<>>)}
  <2>3. 0 \in T
    <3>1. \A i \in 1 .. 0 + 1 : i = 1
      OBVIOUS
    <3>2. 1 \in 1 .. 0 + 1
      OBVIOUS
    <3>3. g[0 + 1] = w[1]
      BY <2>1
    <3>4. g[0 + 1] = <<>> <=> \A i \in 1 .. 0 + 1 : w[i] = <<>>
      BY <3>1, <3>2, <3>3
    <3>5. QED
      BY <3>4
  <2>4. ASSUME NEW m \in Nat, m \in T PROVE m + 1 \in T
    <3> DEFINE k == (m + 1) + 1
    <3>1. SUFFICES ASSUME k <= Len(w) PROVE g[k] = <<>> <=> \A i \in 1 .. k : w[i] = <<>>
      OBVIOUS
    <3>2. /\ k \in 2 .. Len(w) /\ k - 1 \in 1 .. Len(w) /\ k - 1 = m + 1 /\ m + 1 <= Len(w)
          /\ k \in 1 .. k /\ k \in 1 .. Len(w) /\ \A i \in 1 .. k : i = k \/ i \in 1 .. m + 1
          /\ \A i \in 1 .. m + 1 : i \in 1 .. k
      BY <1>1, <3>1
    <3> HIDE DEF k
    <3>3. g[k - 1] = <<>> <=> \A i \in 1 .. m + 1 : w[i] = <<>>
      BY <2>4, <3>2
    <3>4. g[k] = g[k - 1] \o w[k] /\ g[k - 1] \in Seq(S) /\ w[k] \in Seq(S)
      BY <2>1, <1>1, <3>2
    <3>5. g[k] = <<>> <=> g[k - 1] = <<>> /\ w[k] = <<>>
      <4>1. g[k - 1] \o w[k] = <<>> <=> g[k - 1] = <<>> /\ w[k] = <<>>
        BY <3>4, ConcatEqualIffEmpty
      <4>2. QED
        BY <4>1, <3>4
    <3>6. CASE g[k] = <<>>
      <4>1. \A i \in 1 .. k : w[i] = <<>>
        BY <3>2, <3>3, <3>5, <3>6
      <4>2. QED
        BY <4>1, <3>6
    <3>7. CASE \A i \in 1 .. k : w[i] = <<>>
      <4>1. g[k] = <<>>
        BY <3>2, <3>3, <3>5, <3>7
      <4>2. QED
        BY <4>1, <3>7
    <3>8. QED
      BY <3>6, <3>7
  <2>5. Nat \subseteq T
    <3> HIDE DEF T
    <3>1. QED
      BY <2>3, <2>4, AllNaturals
  <2>6. Len(w) - 1 \in Nat /\ (Len(w) - 1) + 1 = Len(w) /\ Len(w) \in 1 .. Len(w)
    BY <1>1, <2>2
  <2>7. Len(w) - 1 \in T
    BY <2>5, <2>6
  <2>8. g[Len(w)] = <<>> <=> \A i \in 1 .. Len(w) : w[i] = <<>>
    BY <2>6, <2>7
  <2>9. QED
    BY <2>1, <2>6, <2>8
<1>4. QED
  BY <1>2, <1>3

\* The place of each character in its token.
LEMMA PlaceFacts ==
  ASSUME NEW s \in Seq(Char)
  PROVE  /\ Split!PlaceInToken(s) \in [0 .. Len(s) -> {1, 2}]
         /\ \A i \in 1 .. Len(s) :
              Split!PlaceInToken(s)[i]
                = IF i > 1 /\ Split!PlaceInToken(s)[i - 1] = 1 /\ <<s[i - 1], s[i]>> \in Merged
                                   THEN 2 ELSE 1
<1> DEFINE N == Len(s)
           Val(f, i) == IF i > 1 /\ f[i - 1] = 1 /\ <<s[i - 1], s[i]>> \in Merged THEN 2 ELSE 1
           Solves(f) == f = [i \in 0 .. N |-> Val(f, i)]
           op == [x \in {1, 2} \X (1 .. N) |->
                    IF x[2] > 1 /\ x[1] = 1 /\ <<s[x[2] - 1], s[x[2]]>> \in Merged THEN 2 ELSE 1]
<1>1. N \in Nat
  BY LenProperties
<1>2. op \in [{1, 2} \X (1 .. N) -> {1, 2}]
  OBVIOUS
<1>3. \A x \in {1, 2}, i \in 1 .. N :
        op[<<x, i>>] = IF i > 1 /\ x = 1 /\ <<s[i - 1], s[i]>> \in Merged THEN 2 ELSE 1
  OBVIOUS
<1> HIDE DEF op, N
<1>4. PICK f : IsRecursive(f, {1, 2}, 1, N, op)
  <2>1. Recurs({1, 2}, 1, N, op)
    BY <1>1, <1>2 DEF Recurs
  <2>2. QED
    BY <2>1, Recursion
<1>5. \A i \in 0 .. N : f[i] = Val(f, i)
  <2>1. ASSUME NEW i \in 1 .. N PROVE f[i] = Val(f, i)
    <3>1. f[i - 1] \in {1, 2} /\ f[i] = op[<<f[i - 1], i>>]
      BY <1>1, <1>4 DEF IsRecursive
    <3>2. QED
      BY <3>1, <1>3
  <2>2. f[0] = Val(f, 0)
    BY <1>4 DEF IsRecursive
  <2>3. \A i \in 0 .. N : i = 0 \/ i \in 1 .. N
    BY <1>1
  <2> HIDE DEF Val
  <2>4. QED
    BY <2>1, <2>2, <2>3
<1>6. Solves(f)
  <2> HIDE DEF Val
  <2>1. QED
    BY <1>4, <1>5 DEF IsRecursive
<1> DEFINE g == CHOOSE h : Solves(h)
<1>7. Solves(g)
  <2> HIDE DEF Solves
  <2>1. QED
    BY <1>6
<1>8. Split!PlaceInToken(s) = g
  BY DEF Split!PlaceInToken, N
<1> HIDE DEF g
<1>9. g = [i \in 0 .. N |-> g[i]] /\ \A i \in 0 .. N : g[i] = Val(g, i)
  <2> HIDE DEF Val
  <2>1. QED
    BY <1>7
<1>10. \A i \in 0 .. N : g[i] \in {1, 2}
  BY <1>9
<1>11. \A i \in 1 .. N : i \in 0 .. N
  BY <1>1
<1>12. QED
  BY <1>8, <1>9, <1>10, <1>11 DEF N

NoTokens(s) ==
  \A i \in 1 .. Len(s) : TokensOf[s[i]] = 0 /\ (i < Len(s) => <<s[i], s[i + 1]>> \notin Merged)

\* A text has no token if no character and no two neighbours have one.
LEMMA EncodedFacts ==
  ASSUME Split!SplitAssumption, NEW s \in Seq(Char)
  PROVE  Split!Encoded(s) \in Seq(Nat) /\ (Split!Encoded(s) = <<>> <=> NoTokens(s))
<1> DEFINE w == [i \in DOMAIN s |-> Split!EndsAt(s, i)]
           nth == Split!PlaceInToken(s)
<1>1. /\ Len(s) \in Nat /\ DOMAIN s = 1 .. Len(s)
      /\ \A i \in 1 .. Len(s) : s[i] \in Char /\ TokensOf[s[i]] \in Nat
  BY LenProperties, ElementOfSeq DEF Split!SplitAssumption
<1>2. nth \in [0 .. Len(s) -> {1, 2}]
  BY PlaceFacts
<1>3. \A i \in 1 .. Len(s) :
        nth[i] = IF i > 1 /\ nth[i - 1] = 1 /\ <<s[i - 1], s[i]>> \in Merged THEN 2 ELSE 1
  BY PlaceFacts
<1>4. \A i \in 1 .. Len(s) : Split!EndsAt(s, i) = IF nth[i] = 2 THEN <<i>>
                                            ELSE IF i < Len(s) /\ nth[i + 1] = 2 THEN <<>>
                                            ELSE [n \in 1 .. TokensOf[s[i]] |-> i]
  BY DEF Split!EndsAt
<1> HIDE DEF nth
<1>5. ASSUME NEW i \in 1 .. Len(s) PROVE Split!EndsAt(s, i) \in Seq(Nat)
  <2>1. i \in Nat /\ TokensOf[s[i]] \in Nat
    BY <1>1
  <2>2. <<i>> \in Seq(Nat) /\ <<>> \in Seq(Nat)
    BY <2>1
  <2>3. [n \in 1 .. TokensOf[s[i]] |-> i] \in Seq(Nat)
    BY <2>1, SeqDef
  <2>4. QED
    BY <1>4, <2>2, <2>3
<1>6. w \in Seq(Seq(Nat)) /\ Len(w) = Len(s) /\ \A i \in 1 .. Len(s) : w[i] = Split!EndsAt(s, i)
  <2>1. w = [i \in 1 .. Len(s) |-> Split!EndsAt(s, i)]
    BY <1>1
  <2> HIDE DEF w
  <2>2. w \in [1 .. Len(s) -> Seq(Nat)]
    BY <1>5, <2>1
  <2>3. w \in Seq(Seq(Nat))
    BY <1>1, <2>2, SeqDef
  <2>4. QED
    BY <1>1, <2>1, <2>3
<1>7. Split!Encoded(s) = Split!FlattenSeq(w)
  BY DEF Split!Encoded
<1> HIDE DEF w
<1>8. /\ Split!Encoded(s) \in Seq(Nat)
      /\ (Split!Encoded(s) = <<>> <=> \A i \in 1 .. Len(s) : Split!EndsAt(s, i) = <<>>)
  <2>1. /\ Split!FlattenSeq(w) \in Seq(Nat)
        /\ (Split!FlattenSeq(w) = <<>> <=> \A i \in 1 .. Len(w) : w[i] = <<>>)
    BY <1>6, JoinsNothing
  <2>2. QED
    BY <2>1, <1>6, <1>7
<1>9. ASSUME \A i \in 1 .. Len(s) : Split!EndsAt(s, i) = <<>> PROVE NoTokens(s)
  <2>1. \A i \in 1 .. Len(s) : nth[i] = 1
    <3>1. ASSUME NEW i \in 1 .. Len(s), nth[i] = 2 PROVE FALSE
      <4>1. Split!EndsAt(s, i) = <<i>>
        BY <3>1, <1>4
      <4>2. Split!EndsAt(s, i) = <<>>
        BY <1>9
      <4>3. QED
        BY <4>1, <4>2
    <3>2. \A i \in 1 .. Len(s) : nth[i] \in {1, 2}
      BY <1>1, <1>2
    <3>3. QED
      BY <3>1, <3>2
  <2>2. ASSUME NEW i \in 1 .. Len(s) PROVE TokensOf[s[i]] = 0
    <3>1. ~(i < Len(s) /\ nth[i + 1] = 2)
      <4>1. i < Len(s) => i + 1 \in 1 .. Len(s)
        BY <1>1
      <4>2. QED
        BY <4>1, <2>1
    <3>2. [n \in 1 .. TokensOf[s[i]] |-> i] = <<>>
      <4> DEFINE own == [n \in 1 .. TokensOf[s[i]] |-> i]
      <4>1. nth[i] # 2 /\ Split!EndsAt(s, i) = <<>>
        BY <2>1, <1>9
      <4>2. Split!EndsAt(s, i) = IF nth[i] = 2 THEN <<i>>
                           ELSE IF i < Len(s) /\ nth[i + 1] = 2 THEN <<>> ELSE own
        BY <1>4
      <4> HIDE DEF own
      <4>3. own = <<>>
        BY <3>1, <4>1, <4>2
      <4>4. QED
        BY <4>3 DEF own
    <3>3. TokensOf[s[i]] \in Nat
      BY <1>1
    <3>4. Len([n \in 1 .. TokensOf[s[i]] |-> i]) = TokensOf[s[i]]
      BY <3>3
    <3>5. Len(<<>>) = 0
      OBVIOUS
    <3>6. QED
      BY <3>2, <3>4, <3>5
  <2>3. ASSUME NEW i \in 1 .. Len(s), i < Len(s) PROVE <<s[i], s[i + 1]>> \notin Merged
    <3>1. i + 1 \in 1 .. Len(s) /\ i + 1 > 1 /\ (i + 1) - 1 = i
      BY <1>1, <2>3
    <3>2. nth[i] = 1 /\ nth[i + 1] = 1
      BY <2>1, <3>1
    <3> DEFINE k == i + 1
    <3>3. k \in 1 .. Len(s) /\ k > 1 /\ k - 1 = i /\ nth[k] = 1
      BY <3>1, <3>2
    <3> HIDE DEF k
    <3>4. <<s[i], s[k]>> \notin Merged
      BY <3>2, <3>3, <1>3
    <3>5. QED
      BY <3>4 DEF k
  <2>4. QED
    BY <2>2, <2>3 DEF NoTokens
<1>10. ASSUME NoTokens(s), NEW i \in 1 .. Len(s) PROVE Split!EndsAt(s, i) = <<>>
  <2>1. ASSUME NEW j \in 1 .. Len(s) PROVE nth[j] # 2
    <3>1. ASSUME j > 1 PROVE <<s[j - 1], s[j]>> \notin Merged
      <4>1. j - 1 \in 1 .. Len(s) /\ j - 1 < Len(s) /\ (j - 1) + 1 = j
        BY <1>1, <3>1
      <4>2. QED
        BY <4>1, <1>10 DEF NoTokens
    <3>2. QED
      BY <3>1, <1>3
  <2>2. ~(i < Len(s) /\ nth[i + 1] = 2)
    <3>1. i < Len(s) => i + 1 \in 1 .. Len(s)
      BY <1>1
    <3>2. QED
      BY <3>1, <2>1
  <2>3. TokensOf[s[i]] = 0
    BY <1>10 DEF NoTokens
  <2>4. Split!EndsAt(s, i) = [n \in 1 .. 0 |-> i]
    BY <1>4, <2>1, <2>2, <2>3
  <2>5. QED
    BY <2>4
<1>11. QED
  BY <1>8, <1>9, <1>10

CallOK == source \in Strings /\ prefix \in Contexts /\ limit \in Limits

LEMMA CallFacts ==
  ASSUME Split!SplitAssumption, CallOK
  PROVE  /\ source \in Seq(Char) /\ Len(source) \in Nat \ {0} /\ prefix \in Seq(Char)
         /\ Len(prefix) \in Nat
         /\ Split!Utf8Length(prefix) \in Nat /\ Density \in Nat \ {0}
         /\ limit.chars \in Nat /\ limit.bytes \in Nat /\ limit.tokens \in Nat
         /\ limit.reserved \in Nat /\ limit.special \in Nat /\ limit.ids \in BOOLEAN
<1>1. source \in Seq(Char) /\ source # <<>> /\ prefix \in Seq(Char) /\ Density \in Nat \ {0}
  BY DEF Split!SplitAssumption, CallOK
<1>2. limit \in [chars : Nat, bytes : Nat, tokens : Nat, reserved : Nat, special : Nat, ids : BOOLEAN]
  BY DEF Split!SplitAssumption, CallOK
<1>3. Len(source) \in Nat \ {0} /\ Len(prefix) \in Nat
  BY <1>1, EmptySeq, LenProperties
<1>4. Split!Utf8Length(prefix) \in Nat
  BY <1>1, BytesAreNatural
<1>5. QED
  BY <1>1, <1>2, <1>3, <1>4

\* The character after the first i, with the prefix.
LEMMA CharacterFacts ==
  ASSUME Split!SplitAssumption, CallOK, NEW i \in 1 .. Len(source)
  PROVE  /\ source[i] \in Char /\ <<source[i]>> \in Seq(Char)
         /\ prefix \o <<source[i]>> \in Seq(Char)
         /\ Len(prefix \o <<source[i]>>) = Len(prefix) + 1
         /\ Split!Slice(source, i - 1, i) = <<source[i]>>
         /\ Split!Utf8Length(prefix \o <<source[i]>>)
              = Split!Utf8Length(prefix) + Split!Utf8Length(<<source[i]>>)
         /\ Split!Utf8Length(<<source[i]>>) \in Nat \ {0}
<1>1. source \in Seq(Char) /\ prefix \in Seq(Char) /\ Len(source) \in Nat
  BY CallFacts
<1>2. source[i] \in Char
  BY <1>1, ElementOfSeq
<1>3. <<source[i]>> \in Seq(Char) /\ Len(<<source[i]>>) = 1 /\ <<source[i]>>[1] = source[i]
  BY <1>2
<1>4. prefix \o <<source[i]>> \in Seq(Char) /\ Len(prefix \o <<source[i]>>) = Len(prefix) + 1
  BY <1>1, <1>3, ConcatProperties
<1>5. Split!Slice(source, i - 1, i) = <<source[i]>>
  <2>1. /\ i - 1 \in 0 .. Len(source) /\ i \in i - 1 .. Len(source) /\ i - (i - 1) = 1
        /\ (i - 1) + 1 = i
    BY <1>1
  <2>2. /\ Split!Slice(source, i - 1, i) \in Seq(Char)
        /\ Len(Split!Slice(source, i - 1, i)) = i - (i - 1)
        /\ \A n \in 1 .. i - (i - 1) : Split!Slice(source, i - 1, i)[n] = source[(i - 1) + n]
    BY <1>1, <2>1, SliceFacts
  <2>3. Len(Split!Slice(source, i - 1, i)) = 1 /\ Split!Slice(source, i - 1, i)[1] = source[i]
    <3>1. 1 \in 1 .. i - (i - 1)
      BY <2>1
    <3>2. QED
      BY <3>1, <2>1, <2>2
  <2>4. \A n \in 1 .. 1 : n = 1
    OBVIOUS
  <2> DEFINE u == Split!Slice(source, i - 1, i)
             v == <<source[i]>>
  <2>5. u \in Seq(Char) /\ v \in Seq(Char) /\ Len(u) = 1 /\ Len(v) = 1 /\ u[1] = v[1]
    BY <1>3, <2>2, <2>3
  <2> HIDE DEF u, v
  <2>6. u = v
    BY <2>4, <2>5, SeqEqual
  <2>7. QED
    BY <2>6 DEF u, v
<1>6. Split!Utf8Length(prefix \o <<source[i]>>)
        = Split!Utf8Length(prefix) + Split!Utf8Length(<<source[i]>>)
  BY <1>1, <1>3, BytesAdd
<1>7. Split!Utf8Length(<<source[i]>>) \in Nat \ {0}
  BY <1>2, BytesAreNatural
<1>8. QED
  BY <1>2, <1>3, <1>4, <1>5, <1>6, <1>7

LEMMA CountFacts ==
  ASSUME Split!SplitAssumption, CallOK, NEW s \in Seq(Char)
  PROVE  /\ Split!TokenCount(s) \in Nat
         /\ (Split!TokenCount(s) = 0 <=> NoTokens(s) /\ limit.special = 0)
<1>1. Split!Encoded(s) \in Seq(Nat) /\ (Split!Encoded(s) = <<>> <=> NoTokens(s))
  BY EncodedFacts
<1>2. Len(Split!Encoded(s)) \in Nat /\ (Split!Encoded(s) = <<>> <=> Len(Split!Encoded(s)) = 0)
  BY <1>1, EmptySeq, LenProperties
<1>3. limit.special \in Nat
  BY CallFacts
<1>4. Split!TokenCount(s) = Len(Split!Encoded(s)) + limit.special
  BY DEF Split!TokenCount
<1> DEFINE n == Len(Split!Encoded(s))
           m == limit.special
<1>5. n \in Nat /\ m \in Nat /\ Split!TokenCount(s) = n + m /\ (n = 0 <=> NoTokens(s))
  BY <1>1, <1>2, <1>3, <1>4
<1> HIDE DEF n
<1>6. n + m \in Nat /\ (n + m = 0 <=> n = 0 /\ m = 0)
  BY <1>5
<1>7. QED
  BY <1>5, <1>6

\* The first character of a slice without tokens cannot be embedded.
LEMMA TokenlessIsMisfit ==
  ASSUME Split!SplitAssumption, CallOK, limit.ids, NEW i \in 0 .. Len(source),
         NEW j \in i + 1 .. Len(source),
         Split!TokenCount(prefix \o Split!Slice(source, i, j)) = 0
  PROVE  Split!Misfit
<1> DEFINE u == Split!Slice(source, i, j)
           s == prefix \o u
           t == prefix \o <<source[i + 1]>>
<1>1. /\ source \in Seq(Char) /\ prefix \in Seq(Char) /\ Len(source) \in Nat /\ Len(prefix) \in Nat
      /\ i + 1 \in 1 .. Len(source) /\ j \in i .. Len(source) /\ j - i \in Nat /\ 1 <= j - i
  BY CallFacts
<1>2. u \in Seq(Char) /\ Len(u) = j - i /\ \A n \in 1 .. j - i : u[n] = source[i + n]
  BY <1>1, SliceFacts
<1>3. 1 \in 1 .. j - i /\ u[1] = source[i + 1]
  BY <1>1, <1>2
<1>4. <<source[i + 1]>> \in Seq(Char) /\ t \in Seq(Char) /\ Len(t) = Len(prefix) + 1
  BY <1>1, CharacterFacts
<1> HIDE DEF u
<1>5. /\ s \in Seq(Char) /\ Len(s) = Len(prefix) + (j - i)
      /\ \A n \in 1 .. Len(prefix) + (j - i) :
           s[n] = IF n <= Len(prefix) THEN prefix[n] ELSE u[n - Len(prefix)]
  <2>1. /\ s \in Seq(Char) /\ Len(s) = Len(prefix) + Len(u)
        /\ \A n \in 1 .. Len(prefix) + Len(u) :
             s[n] = IF n <= Len(prefix) THEN prefix[n] ELSE u[n - Len(prefix)]
    BY <1>1, <1>2, ConcatProperties
  <2> HIDE DEF s
  <2>2. QED
    BY <2>1, <1>2
<1>6. \A n \in 1 .. Len(prefix) + 1 :
        t[n] = IF n <= Len(prefix) THEN prefix[n] ELSE <<source[i + 1]>>[n - Len(prefix)]
  <2>1. Len(<<source[i + 1]>>) = 1
    OBVIOUS
  <2>2. QED
    BY <1>1, <1>4, <2>1, ConcatProperties
<1> HIDE DEF s, t
<1>7. \A n \in 1 .. Len(t) : n \in 1 .. Len(s) /\ t[n] = s[n]
  <2>1. ASSUME NEW n \in 1 .. Len(prefix) + 1 PROVE n \in 1 .. Len(s) /\ t[n] = s[n]
    <3>1. n \in 1 .. Len(prefix) + (j - i)
      BY <1>1
    <3>2. CASE n <= Len(prefix)
      BY <3>1, <3>2, <1>5, <1>6
    <3>3. CASE ~(n <= Len(prefix))
      <4>1. n - Len(prefix) = 1
        BY <1>1, <3>3
      <4>2. t[n] = source[i + 1]
        BY <4>1, <3>3, <1>6
      <4>3. s[n] = source[i + 1]
        BY <4>1, <3>1, <3>3, <1>3, <1>5
      <4>4. QED
        BY <3>1, <4>2, <4>3, <1>5
    <3>4. QED
      BY <3>2, <3>3
  <2>2. QED
    BY <2>1, <1>4
<1>8. NoTokens(s) /\ limit.special = 0
  BY <1>5, CountFacts DEF s, u
<1>9. NoTokens(t)
  <2>1. ASSUME NEW n \in 1 .. Len(t) PROVE TokensOf[t[n]] = 0
    BY <1>7, <1>8 DEF NoTokens
  <2>2. ASSUME NEW n \in 1 .. Len(t), n < Len(t) PROVE <<t[n], t[n + 1]>> \notin Merged
    <3>1. n + 1 \in 1 .. Len(t) /\ n < Len(s)
      BY <2>2, <1>1, <1>4, <1>5
    <3>2. t[n] = s[n] /\ t[n + 1] = s[n + 1] /\ n \in 1 .. Len(s)
      BY <3>1, <1>7
    <3>3. <<s[n], s[n + 1]>> \notin Merged
      BY <3>1, <3>2, <1>8 DEF NoTokens
    <3>4. QED
      BY <3>2, <3>3
  <2>3. QED
    BY <2>1, <2>2 DEF NoTokens
<1>10. Split!TokenCount(t) = 0
  BY <1>4, <1>8, <1>9, CountFacts
<1>11. ~Split!Valid(t)
  BY <1>10 DEF Split!Valid
<1>12. QED
  BY <1>1, <1>11 DEF Split!Misfit, t

\* A boundary is inside the slice.
LEMMA BoundaryFacts ==
  ASSUME Split!SplitAssumption, CallOK, NEW b \in Seq(Char)
  PROVE  /\ Split!TokenBoundary(b) \in Nat
         /\ (Split!TokenBoundary(b) > 0 => Split!TokenBoundary(b) < Len(b))
<1> DEFINE ends == Split!Encoded(prefix \o b)
           room == IF Split!TokenBudget < limit.special THEN 0 ELSE Split!TokenBudget - limit.special
           inside == {ends[n] - Len(prefix) : n \in
                        {n \in 1 .. Split!Least(room, Len(ends)) :
                           ends[n] > Len(prefix) /\ ends[n] < Len(prefix) + Len(b)}}
           most == CHOOSE e \in inside : \A f \in inside : f <= e
<1>1. Split!TokenBoundary(b) = IF inside = {} THEN 0 ELSE most
  BY DEF Split!TokenBoundary
<1>2. prefix \in Seq(Char) /\ Len(prefix) \in Nat /\ Len(b) \in Nat
  BY CallFacts, LenProperties
<1>3. ends \in Seq(Nat) /\ Len(ends) \in Nat /\ \A n \in 1 .. Len(ends) : ends[n] \in Nat
  <2>1. prefix \o b \in Seq(Char)
    BY <1>2, ConcatProperties
  <2>2. ends \in Seq(Nat)
    BY <2>1, EncodedFacts
  <2> HIDE DEF ends
  <2>3. QED
    BY <2>2, LenProperties, ElementOfSeq
<1>4. room \in Int
  <2>1. limit.special \in Nat /\ limit.tokens \in Nat /\ limit.reserved \in Nat
    BY CallFacts
  <2>2. QED
    BY <2>1 DEF Split!TokenBudget
<1> HIDE DEF room
<1>5. \A n \in 1 .. Split!Least(room, Len(ends)) : n \in 1 .. Len(ends)
  <2> HIDE DEF ends
  <2>1. QED
    BY <1>3, <1>4 DEF Split!Least
<1> HIDE DEF ends
<1>6. \A e \in inside : e \in Nat /\ e < Len(b)
  <2>1. ASSUME NEW n \in 1 .. Split!Least(room, Len(ends)), ends[n] > Len(prefix),
               ends[n] < Len(prefix) + Len(b)
        PROVE  ends[n] - Len(prefix) \in Nat /\ ends[n] - Len(prefix) < Len(b)
    <3>1. ends[n] \in Nat
      BY <1>3, <1>5
    <3>2. QED
      BY <3>1, <2>1, <1>2
  <2>2. QED
    BY <2>1
<1> HIDE DEF inside
<1>7. ASSUME inside # {} PROVE most \in inside
  <2> DEFINE T == {Len(b) - e : e \in inside}
  <2>1. T \subseteq Nat /\ T # {}
    BY <1>2, <1>6, <1>7
  <2>2. PICK x \in T : \A y \in T : x <= y
    <3> HIDE DEF T
    <3>1. QED
      BY <2>1, LeastElement
  <2>3. PICK e \in inside : x = Len(b) - e
    BY <2>2
  <2>4. ASSUME NEW f \in inside PROVE f <= e
    <3>1. Len(b) - e <= Len(b) - f
      BY <2>2, <2>3
    <3>2. QED
      BY <3>1, <1>2, <1>6
  <2>5. QED
    BY <2>4
<1> HIDE DEF most
<1>8. QED
  BY <1>1, <1>6, <1>7

SpanOf(a, b) == [start |-> a, end |-> b]

LEMMA SpanFacts ==
  ASSUME NEW a \in Nat, NEW b \in Nat
  PROVE  SpanOf(a, b) \in Split!Span /\ SpanOf(a, b).start = a /\ SpanOf(a, b).end = b
BY DEF SpanOf, Split!Span

LEMMA ElementsAreSpans ==
  ASSUME NEW q \in Seq(Split!Span), NEW i \in 1 .. Len(q)
  PROVE  q[i] \in Split!Span /\ q[i].start \in Nat /\ q[i].end \in Nat
<1>1. q[i] \in Split!Span
  BY ElementOfSeq
<1>2. QED
  BY <1>1 DEF Split!Span

LEMMA ChainGoesOn ==
  ASSUME NEW q \in Seq(Split!Span), NEW a \in Nat, NEW b \in Nat, a < b, Split!Chain(q, a)
  PROVE  /\ Append(q, SpanOf(a, b)) \in Seq(Split!Span) /\ Split!Chain(Append(q, SpanOf(a, b)), b)
         /\ Len(Append(q, SpanOf(a, b))) = Len(q) + 1
<1> DEFINE d == Append(q, SpanOf(a, b))
<1>1. SpanOf(a, b) \in Split!Span /\ SpanOf(a, b).start = a /\ SpanOf(a, b).end = b
  BY SpanFacts
<1>2. /\ d \in Seq(Split!Span) /\ d # <<>> /\ Len(d) = Len(q) + 1 /\ Len(q) \in Nat
      /\ \A i \in 1 .. Len(q) : d[i] = q[i]
      /\ d[Len(q) + 1] = SpanOf(a, b)
  BY <1>1, AppendProperties, LenProperties
<1> HIDE DEF d
<1>3. \A i \in 1 .. Len(q) : q[i].end \in Nat
  BY ElementsAreSpans
<1>4. d[1].start = 0
  <2>1. CASE q = <<>>
    <3>1. Len(q) = 0 /\ a = 0
      BY <2>1, EmptySeq DEF Split!Chain
    <3>2. QED
      BY <3>1, <1>1, <1>2
  <2>2. CASE q # <<>>
    <3>1. 1 \in 1 .. Len(q) /\ q[1].start = 0
      BY <2>2, EmptySeq DEF Split!Chain
    <3>2. QED
      BY <3>1, <1>2
  <2>3. QED
    BY <2>1, <2>2
<1>5. d[Len(d)].end = b
  BY <1>1, <1>2
<1>6. ASSUME NEW i \in 1 .. Len(d) PROVE d[i].start < d[i].end /\ d[i].end <= b
  <2>1. CASE i \in 1 .. Len(q)
    <3>1. q[i].start < q[i].end /\ q[i].end <= a /\ q[i].end \in Nat
      BY <2>1, <1>3 DEF Split!Chain
    <3>2. QED
      BY <3>1, <2>1, <1>2
  <2>2. CASE i = Len(q) + 1
    BY <2>2, <1>1, <1>2
  <2>3. QED
    BY <1>2, <2>1, <2>2
<1>7. ASSUME NEW i \in 1 .. Len(d) - 1 PROVE d[i].end = d[i + 1].start
  <2>1. i \in 1 .. Len(q)
    BY <1>2
  <2>2. CASE i = Len(q)
    <3>1. q # <<>>
      BY <2>1, EmptySeq
    <3>2. q[i].end = a
      BY <3>1, <2>2 DEF Split!Chain
    <3>3. QED
      BY <3>2, <2>1, <2>2, <1>1, <1>2
  <2>3. CASE i # Len(q)
    <3>1. i \in 1 .. Len(q) - 1 /\ i + 1 \in 1 .. Len(q)
      BY <2>1, <2>3, <1>2
    <3>2. q[i].end = q[i + 1].start
      BY <3>1 DEF Split!Chain
    <3>3. QED
      BY <3>1, <3>2, <2>1, <1>2
  <2>4. QED
    BY <2>2, <2>3
<1>8. Split!Chain(d, b)
  BY <1>2, <1>4, <1>5, <1>6, <1>7 DEF Split!Chain
<1>9. QED
  BY <1>2, <1>8 DEF d

\* The last span of q ends at b.
Stretched(q, b) == Split!ReplaceAt(q, Len(q), [Split!Last(q) EXCEPT !.end = b])

LEMMA ChainStretches ==
  ASSUME NEW q \in Seq(Split!Span), q # <<>>, NEW a \in Nat,
         NEW b \in Nat, a <= b, Split!Chain(q, a)
  PROVE  /\ Stretched(q, b) \in Seq(Split!Span) /\ Split!Chain(Stretched(q, b), b)
         /\ Len(Stretched(q, b)) = Len(q)
         /\ Split!Last(q).start \in Nat /\ Split!Last(q).end = a /\ Split!Last(q).start < a
         /\ \A i \in 1 .. Len(q) : \/ Stretched(q, b)[i] = q[i]
                                   \/ Stretched(q, b)[i] = SpanOf(Split!Last(q).start, b)
<1> DEFINE d == Stretched(q, b)
           e == q[Len(q)]
           l == SpanOf(e.start, b)
<1>1. Len(q) \in Nat \ {0} /\ Len(q) \in 1 .. Len(q) /\ 1 \in 1 .. Len(q)
  BY EmptySeq
<1>2. e \in Split!Span /\ e.start \in Nat /\ e.end = a /\ e.start < a
  <2>1. e \in Split!Span /\ e.start \in Nat
    BY <1>1, ElementsAreSpans
  <2>2. e.end = a /\ e.start < e.end
    BY <1>1 DEF Split!Chain
  <2>3. QED
    BY <2>1, <2>2
<1>3. l \in Split!Span /\ l.start = e.start /\ l.end = b
  BY <1>2, SpanFacts
<1>4. [e EXCEPT !.end = b] = l
  <2>1. e = SpanOf(e.start, e.end)
    BY <1>2 DEF Split!Span, SpanOf
  <2>2. QED
    BY <2>1 DEF SpanOf
<1>5. d = [q EXCEPT ![Len(q)] = l]
  BY <1>4 DEF Stretched, Split!ReplaceAt, Split!Last
<1> HIDE DEF d, l, e
<1>6. /\ d \in Seq(Split!Span) /\ Len(d) = Len(q)
      /\ \A i \in 1 .. Len(q) : d[i] = IF i = Len(q) THEN l ELSE q[i]
  BY <1>1, <1>3, <1>5, ExceptSeq
<1>7. \A i \in 1 .. Len(q) : q[i].end \in Nat
  BY ElementsAreSpans
<1>8. d # <<>>
  BY <1>1, <1>6, EmptySeq
<1>9. d[1].start = 0
  <2>1. q[1].start = 0
    BY DEF Split!Chain
  <2>2. CASE Len(q) = 1
    <3>1. d[1] = l /\ e = q[1]
      BY <2>2, <1>1, <1>6 DEF e
    <3>2. QED
      BY <3>1, <2>1, <1>3
  <2>3. CASE Len(q) # 1
    BY <2>1, <2>3, <1>1, <1>6
  <2>4. QED
    BY <2>2, <2>3
<1>10. d[Len(d)].end = b
  BY <1>1, <1>3, <1>6
<1>11. ASSUME NEW i \in 1 .. Len(d) PROVE d[i].start < d[i].end /\ d[i].end <= b
  <2>1. CASE i = Len(q)
    BY <2>1, <1>1, <1>2, <1>3, <1>6
  <2>2. CASE i # Len(q)
    <3>1. d[i] = q[i] /\ i \in 1 .. Len(q)
      BY <2>2, <1>6
    <3>2. q[i].start < q[i].end /\ q[i].end <= a /\ q[i].end \in Nat
      BY <3>1, <1>7 DEF Split!Chain
    <3>3. QED
      BY <3>1, <3>2
  <2>3. QED
    BY <2>1, <2>2
<1>12. ASSUME NEW i \in 1 .. Len(d) - 1 PROVE d[i].end = d[i + 1].start
  <2>1. i \in 1 .. Len(q) - 1 /\ i \in 1 .. Len(q) /\ i + 1 \in 1 .. Len(q) /\ i # Len(q)
    BY <1>1, <1>6
  <2>2. d[i] = q[i] /\ q[i].end = q[i + 1].start
    BY <2>1, <1>6 DEF Split!Chain
  <2>3. CASE i + 1 = Len(q)
    <3>1. d[i + 1] = l /\ e = q[i + 1]
      BY <2>1, <2>3, <1>6 DEF e
    <3>2. QED
      BY <3>1, <2>2, <1>3
  <2>4. CASE i + 1 # Len(q)
    BY <2>1, <2>2, <2>4, <1>6
  <2>5. QED
    BY <2>3, <2>4
<1>13. Split!Chain(d, b)
  BY <1>8, <1>9, <1>10, <1>11, <1>12 DEF Split!Chain
<1>14. Split!Last(q) = e
  BY DEF Split!Last, e
<1>15. \A i \in 1 .. Len(q) : d[i] = q[i] \/ d[i] = l
  BY <1>6
<1>16. QED
  BY <1>2, <1>6, <1>13, <1>14, <1>15 DEF d, l

\* The spans of a chain from 0 to the end, one after the other, are the text.
LEMMA ChainIsText ==
  ASSUME Split!SplitAssumption, CallOK, NEW q \in Seq(Split!Span), Split!Chain(q, Len(source))
  PROVE  Split!FlattenSeq([i \in DOMAIN q |-> Split!Slice(source, q[i].start, q[i].end)]) = source
<1> DEFINE w == [i \in DOMAIN q |-> Split!Slice(source, q[i].start, q[i].end)]
<1>1. source \in Seq(Char) /\ Len(source) \in Nat \ {0}
  BY CallFacts
<1>2. q # <<>>
  BY <1>1 DEF Split!Chain
<1>3. Len(q) \in Nat \ {0} /\ DOMAIN q = 1 .. Len(q) /\ 1 \in 1 .. Len(q) /\ Len(q) \in 1 .. Len(q)
  BY <1>2, EmptySeq, LenProperties
<1>4. ASSUME NEW i \in 1 .. Len(q)
      PROVE  /\ q[i].start \in 0 .. Len(source) /\ q[i].end \in q[i].start .. Len(source)
             /\ q[i].end \in 0 .. Len(source) /\ w[i] = Split!Slice(source, q[i].start, q[i].end)
             /\ w[i] \in Seq(Char)
  <2>1. q[i].start \in Nat /\ q[i].end \in Nat
    BY ElementsAreSpans
  <2>2. q[i].start < q[i].end /\ q[i].end <= Len(source)
    BY DEF Split!Chain
  <2>3. /\ q[i].start \in 0 .. Len(source) /\ q[i].end \in q[i].start .. Len(source)
        /\ q[i].end \in 0 .. Len(source)
    BY <2>1, <2>2, <1>1
  <2>4. w[i] = Split!Slice(source, q[i].start, q[i].end)
    BY <1>3
  <2>5. Split!Slice(source, q[i].start, q[i].end) \in Seq(Char)
    BY <2>3, <1>1, SliceFacts
  <2>6. QED
    BY <2>3, <2>4, <2>5
<1>5. w \in Seq(Seq(Char)) /\ Len(w) = Len(q) /\ w # <<>>
  <2>1. w = [i \in 1 .. Len(q) |-> w[i]]
    BY <1>3
  <2> HIDE DEF w
  <2>2. w \in [1 .. Len(q) -> Seq(Char)]
    BY <2>1, <1>4
  <2>3. w \in Seq(Seq(Char)) /\ Len(w) = Len(q)
    BY <2>1, <2>2, <1>3, SeqDef
  <2>4. QED
    BY <2>3, <1>3, EmptySeq
<1> HIDE DEF w
<1>6. PICK g \in [1 .. Len(w) -> Seq(Char)] :
           /\ g[1] = w[1] /\ \A i \in 2 .. Len(w) : g[i] = g[i - 1] \o w[i]
           /\ Split!FlattenSeq(w) = g[Len(w)]
  BY <1>5, Joins
<1> DEFINE T == {n \in Nat : n + 1 <= Len(q) => g[n + 1] = Split!Slice(source, 0, q[n + 1].end)}
<1>7. 0 \in T
  <2>1. g[1] = Split!Slice(source, q[1].start, q[1].end) /\ q[1].start = 0
    BY <1>2, <1>3, <1>4, <1>6 DEF Split!Chain
  <2>2. QED
    BY <2>1
<1>8. ASSUME NEW m \in Nat, m \in T PROVE m + 1 \in T
  <2> DEFINE k == (m + 1) + 1
  <2>1. SUFFICES ASSUME k <= Len(q) PROVE g[k] = Split!Slice(source, 0, q[k].end)
    OBVIOUS
  <2>2. /\ k \in 2 .. Len(w) /\ k \in 1 .. Len(q) /\ k - 1 \in 1 .. Len(q) /\ k - 1 = m + 1
        /\ m + 1 <= Len(q) /\ k - 1 \in 1 .. Len(q) - 1 /\ (k - 1) + 1 = k
    BY <2>1, <1>3, <1>5
  <2> HIDE DEF k
  <2>3. g[k - 1] = Split!Slice(source, 0, q[k - 1].end)
    BY <1>8, <2>2
  <2>4. q[k - 1].end = q[k].start
    <3>1. q[k - 1].end = q[(k - 1) + 1].start
      BY <2>2 DEF Split!Chain
    <3>2. QED
      BY <3>1, <2>2
  <2>5. g[k] = g[k - 1] \o w[k] /\ w[k] = Split!Slice(source, q[k].start, q[k].end)
    BY <1>4, <1>6, <2>2
  <2>6. /\ q[k].start \in 0 .. Len(source) /\ q[k].end \in q[k].start .. Len(source)
        /\ 0 \in 0 .. Len(source)
    BY <1>1, <1>4, <2>2
  <2>7. Split!Slice(source, 0, q[k].start) \o Split!Slice(source, q[k].start, q[k].end)
          = Split!Slice(source, 0, q[k].end)
    BY <2>6, <1>1, SliceJoins
  <2>8. QED
    BY <2>3, <2>4, <2>5, <2>7
<1>9. Nat \subseteq T
  <2> HIDE DEF T
  <2>1. QED
    BY <1>7, <1>8, AllNaturals
<1>10. g[Len(q)] = Split!Slice(source, 0, q[Len(q)].end)
  <2>1. Len(q) - 1 \in Nat /\ (Len(q) - 1) + 1 = Len(q) /\ Len(q) <= Len(q)
    BY <1>3
  <2>2. Len(q) - 1 \in T
    BY <2>1, <1>9
  <2>3. QED
    BY <2>1, <2>2
<1>11. q[Len(q)].end = Len(source)
  BY <1>2 DEF Split!Chain
<1>12. QED
  BY <1>1, <1>5, <1>6, <1>10, <1>11, SliceWhole DEF w

LEMMA BudgetFacts ==
  ASSUME Split!SplitAssumption, CallOK, ~Split!NoRoom
  PROVE  /\ Split!CharBudget \in Nat \ {0}
         /\ (limit.chars > 0 => Split!CharBudget = limit.chars - Len(prefix))
         /\ limit.bytes > 0
              => Split!ByteBudget \in Nat \ {0} /\ Split!Utf8Length(prefix) + Split!ByteBudget = limit.bytes
         /\ Split!MaxWindow \in Nat \ {0} /\ Split!MaxWindow <= Split!CharBudget
<1>1. /\ Len(source) \in Nat \ {0} /\ Len(prefix) \in Nat /\ Split!Utf8Length(prefix) \in Nat
      /\ Density \in Nat \ {0}
      /\ limit.chars \in Nat /\ limit.bytes \in Nat /\ limit.tokens \in Nat
  BY CallFacts
<1>2. /\ Split!CharBudget \in Nat \ {0}
      /\ (limit.chars > 0 => Split!CharBudget = limit.chars - Len(prefix))
  BY <1>1 DEF Split!NoRoom, Split!CharBudget
<1>3. limit.bytes > 0
        => Split!ByteBudget \in Nat \ {0} /\ Split!Utf8Length(prefix) + Split!ByteBudget = limit.bytes
  BY <1>1 DEF Split!NoRoom, Split!ByteBudget
<1> DEFINE t == IF limit.tokens > 0 THEN limit.tokens * Density ELSE Len(source)
<1>4. t \in Nat \ {0}
  <2>1. \A x, y \in Nat \ {0} : x * y \in Nat \ {0}
    OBVIOUS
  <2>2. limit.tokens > 0 => limit.tokens * Density \in Nat \ {0}
    BY <1>1, <2>1
  <2>3. QED
    BY <1>1, <2>2
<1>5. Split!MaxWindow
        = IF limit.bytes > 0 THEN Split!Least(Split!Least(Split!CharBudget, t), Split!ByteBudget)
          ELSE Split!Least(Split!CharBudget, t)
  BY DEF Split!MaxWindow
<1> HIDE DEF t
<1>6. /\ Split!Least(Split!CharBudget, t) \in Nat \ {0}
      /\ Split!Least(Split!CharBudget, t) <= Split!CharBudget
  BY <1>2, <1>4 DEF Split!Least
<1> DEFINE m == Split!Least(Split!CharBudget, t)
<1>7. limit.bytes > 0
        => Split!Least(m, Split!ByteBudget) \in Nat \ {0} /\ Split!Least(m, Split!ByteBudget) <= m
  <2>1. m \in Nat \ {0}
    BY <1>6
  <2> HIDE DEF m
  <2>2. QED
    BY <2>1, <1>3 DEF Split!Least
<1>8. Split!MaxWindow \in Nat \ {0} /\ Split!MaxWindow <= Split!CharBudget
  <2>1. /\ m \in Nat \ {0} /\ m <= Split!CharBudget
        /\ Split!MaxWindow = IF limit.bytes > 0 THEN Split!Least(m, Split!ByteBudget) ELSE m
    BY <1>5, <1>6
  <2> HIDE DEF m
  <2>2. QED
    BY <2>1, <1>2, <1>7
<1>9. QED
  BY <1>2, <1>3, <1>8

LEMMA SizeFacts ==
  ASSUME Split!SplitAssumption, CallOK, NEW b \in Seq(Char)
  PROVE  /\ prefix \o b \in Seq(Char) /\ Len(prefix \o b) = Len(prefix) + Len(b) /\ Len(b) \in Nat
         /\ Split!Utf8Length(prefix \o b) = Split!Utf8Length(prefix) + Split!Utf8Length(b)
         /\ Split!Utf8Length(b) \in Nat
<1>1. prefix \in Seq(Char)
  BY CallFacts
<1>2. QED
  BY <1>1, ConcatProperties, LenProperties, BytesAdd, BytesAreNatural

\* What the prefix leaves no room for does not fit.
LEMMA NoRoomIsMisfit ==
  ASSUME Split!SplitAssumption, CallOK, Split!NoRoom
  PROVE  Split!Misfit
<1>1. 1 \in 1 .. Len(source)
  BY CallFacts
<1> DEFINE c == <<source[1]>>
<1>2. /\ Len(prefix \o c) = Len(prefix) + 1
      /\ Split!Utf8Length(prefix \o c) = Split!Utf8Length(prefix) + Split!Utf8Length(c)
      /\ Split!Utf8Length(c) \in Nat \ {0}
  BY <1>1, CharacterFacts
<1>3. /\ Len(prefix) \in Nat /\ Split!Utf8Length(prefix) \in Nat /\ limit.chars \in Nat
      /\ limit.bytes \in Nat
  BY CallFacts
<1> HIDE DEF c
<1>4. ~Split!Sized(prefix \o c)
  BY <1>2, <1>3 DEF Split!NoRoom, Split!Sized
<1>5. ~Split!Valid(prefix \o c)
  BY <1>4 DEF Split!Valid, Split!WithinLimits
<1>6. QED
  BY <1>1, <1>5 DEF Split!Misfit, c

-----------------------------------------------------------------------------
(* The invariant, by the values of what a call has found so far.           *)

BodyOf(st, b) ==
  /\ st < Len(source) /\ st + Len(b) <= Len(source)
  /\ b = Split!Slice(source, st, st + Len(b)) /\ Split!Sized(prefix \o b)
  /\ b = <<>> => Split!Misfit

MergedUpTo(sp, pe, ne) == IF pe < Len(source) THEN pe ELSE IF ne = 1 THEN 0 ELSE sp[ne - 1].end

MergeOf(st, sp, r, pe, ne) ==
  /\ limit.ids /\ st = Len(source) /\ Split!Chain(r, MergedUpTo(sp, pe, ne))
  /\ pe < Len(source) => Split!Misfit /\ ne > 1 /\ pe < sp[ne - 1].end

CutOf(p, st, w, b, sp) ==
  /\ p \in {"slice", "fit", "merge", "done", "refused"} /\ st \in 0 .. Len(source)
  /\ b \in Seq(Char) /\ sp \in Seq(Split!Span)
  /\ p # "refused" => ~Split!NoRoom /\ w \in 1 .. Split!MaxWindow
  /\ Split!Chain(sp, st) /\ \A i \in 1 .. Len(sp) : Split!WithinLimits(prefix \o Split!Part(sp[i]))
  /\ p = "fit" => BodyOf(st, b)

ResultOf(p, st, sp, r, pe, ne) ==
  /\ r \in Seq(Split!Span) /\ pe \in 0 .. Len(source) /\ ne \in 1 .. Len(sp) + 1
  /\ p \in {"slice", "fit"} => r = <<>> /\ ne = 1 /\ pe = Len(source)
  /\ p = "merge" => MergeOf(st, sp, r, pe, ne)
  /\ \E a \in 0 .. Len(source) : Split!Chain(r, a)
  /\ p = "done" => Split!Chain(r, Len(source))
  /\ p \in {"merge", "done"} => \A i \in 1 .. Len(r) : Split!Valid(prefix \o Split!Part(r[i]))
  /\ p = "refused" => Split!Misfit

LEMMA InvByValues ==
  Split!IInv <=> /\ CallOK /\ CutOf(phase, start, window, body, spans)
                 /\ ResultOf(phase, start, spans, merged, pending, following)
BY DEF Split!IInv, Split!ValuesOK, Split!CutInv, Split!BodyInv, Split!MergeInv, Split!MergedTo,
       CallOK, CutOf, ResultOf, BodyOf, MergeOf, MergedUpTo

\* What a call goes on with has to be in order.
LEMMA InvAgain ==
  ASSUME CallOK, UNCHANGED <<source, prefix, limit>>,
         NEW p, NEW st, NEW w, NEW b, NEW sp, NEW r, NEW pe, NEW ne,
         phase' = p, start' = st, window' = w, body' = b, spans' = sp, merged' = r,
         pending' = pe, following' = ne,
         CutOf(p, st, w, b, sp), ResultOf(p, st, sp, r, pe, ne)
  PROVE  Split!IInv'
<1>1. CallOK'
  BY DEF CallOK
<1>2. /\ \A s : Split!Sized(s)' <=> Split!Sized(s)
      /\ \A s : Split!WithinLimits(s)' <=> Split!WithinLimits(s)
      /\ \A s : Split!Valid(s)' <=> Split!Valid(s)
      /\ \A s : Split!Part(s)' = Split!Part(s)
  BY DEF Split!Sized, Split!WithinLimits, Split!Valid, Split!TokenCount, Split!Part
<1>3. /\ (Split!Misfit' <=> Split!Misfit) /\ (Split!NoRoom' <=> Split!NoRoom)
      /\ Split!MaxWindow' = Split!MaxWindow
  BY DEF Split!Misfit, Split!Valid, Split!WithinLimits, Split!Sized, Split!TokenCount, Split!NoRoom,
         Split!MaxWindow, Split!CharBudget, Split!ByteBudget
<1>4. BodyOf(st, b)' <=> BodyOf(st, b)
  BY <1>3 DEF BodyOf, Split!Sized
<1>5. MergeOf(st, sp, r, pe, ne)' <=> MergeOf(st, sp, r, pe, ne)
  BY <1>3 DEF MergeOf, MergedUpTo
<1>6. CutOf(p, st, w, b, sp)'
  <2>1. \A i \in 1 .. Len(sp) : Split!WithinLimits(prefix \o Split!Part(sp[i]))'
    BY DEF CutOf, Split!WithinLimits, Split!Sized, Split!TokenCount, Split!Part
  <2>2. QED
    BY <1>3, <1>4, <2>1 DEF CutOf
<1>7. ResultOf(p, st, sp, r, pe, ne)'
  <2>1. p \in {"merge", "done"} => \A i \in 1 .. Len(r) : Split!Valid(prefix \o Split!Part(r[i]))'
    BY DEF ResultOf, Split!Valid, Split!WithinLimits, Split!Sized, Split!TokenCount, Split!Part
  <2>2. QED
    BY <1>3, <1>5, <2>1 DEF ResultOf
<1>8. /\ CutOf(phase, start, window, body, spans)'
      /\ ResultOf(phase, start, spans, merged, pending, following)'
  <2>1. CutOf(phase, start, window, body, spans)' <=> CutOf(p, st, w, b, sp)'
    BY DEF CutOf, BodyOf
  <2>2. ResultOf(phase, start, spans, merged, pending, following)' <=> ResultOf(p, st, sp, r, pe, ne)'
    BY DEF ResultOf, MergeOf, MergedUpTo
  <2>3. QED
    BY <1>6, <1>7, <2>1, <2>2
<1>9. QED
  BY <1>1, <1>8, InvByValues, PTL

TooMany(b) == limit.tokens > 0 /\ Split!TokenCount(prefix \o b) > Split!TokenBudget

\* A part of a slice that fits, fits but for its tokens.
LEMMA PartFits ==
  ASSUME Split!SplitAssumption, CallOK, NEW st \in 0 .. Len(source),
         NEW j \in st .. Len(source), NEW k \in 0 .. j - st,
         limit.chars > 0 => Len(prefix) + k <= limit.chars,
         limit.bytes > 0
           => Split!Utf8Length(prefix) + Split!Utf8Length(Split!Slice(source, st, st + k)) <= limit.bytes
  PROVE  LET b == Split!Slice(source, st, st + k)
         IN  /\ b \in Seq(Char) /\ Len(b) = k /\ st + Len(b) <= Len(source)
             /\ b = Split!Slice(source, st, st + Len(b)) /\ Split!Sized(prefix \o b)
             /\ (b = <<>> <=> k = 0)
<1> DEFINE b == Split!Slice(source, st, st + k)
<1>1. /\ source \in Seq(Char) /\ Len(source) \in Nat /\ st + k \in st .. Len(source)
      /\ (st + k) - st = k
      /\ k \in Nat
  BY CallFacts
<1>2. b \in Seq(Char) /\ Len(b) = (st + k) - st
  BY <1>1, SliceFacts
<1>3. Len(b) = k
  BY <1>1, <1>2
<1>4. b = Split!Slice(source, st, st + Len(b)) /\ st + Len(b) <= Len(source)
  BY <1>1, <1>3
<1>5. limit.bytes > 0 => Split!Utf8Length(prefix) + Split!Utf8Length(b) <= limit.bytes
  OBVIOUS
<1> HIDE DEF b
<1>6. Split!Sized(prefix \o b)
  <2>1. /\ Len(prefix \o b) = Len(prefix) + Len(b)
        /\ Split!Utf8Length(prefix \o b) = Split!Utf8Length(prefix) + Split!Utf8Length(b)
    BY <1>2, SizeFacts
  <2>2. QED
    BY <2>1, <1>3, <1>5 DEF Split!Sized
<1>7. b = <<>> <=> k = 0
  BY <1>2, <1>3, EmptySeq
<1>8. QED
  BY <1>2, <1>3, <1>4, <1>6, <1>7 DEF b

LEMMA CutsWindow ==
  ASSUME Split!SplitAssumption, CallOK, ~Split!NoRoom,
         NEW st \in 0 .. Len(source), st < Len(source), NEW w \in 1 .. Split!MaxWindow
  PROVE  LET u == Split!Slice(source, st, st + w)
             b == IF limit.bytes > 0 THEN Split!Truncated(u, Split!ByteBudget) ELSE u
         IN  b \in Seq(Char) /\ BodyOf(st, b)
<1> DEFINE j == Split!Least(st + w, Len(source))
           u == Split!Slice(source, st, st + w)
           b == IF limit.bytes > 0 THEN Split!Truncated(u, Split!ByteBudget) ELSE u
<1>1. /\ source \in Seq(Char) /\ Len(source) \in Nat /\ Len(prefix) \in Nat
      /\ Split!Utf8Length(prefix) \in Nat
      /\ limit.chars \in Nat /\ limit.bytes \in Nat
  BY CallFacts
<1>2. /\ Split!MaxWindow \in Nat /\ Split!MaxWindow <= Split!CharBudget /\ Split!CharBudget \in Nat
      /\ limit.chars > 0 => Split!CharBudget = limit.chars - Len(prefix)
      /\ limit.bytes > 0
           => Split!ByteBudget \in Nat /\ Split!Utf8Length(prefix) + Split!ByteBudget = limit.bytes
  BY BudgetFacts
<1>3. w \in Nat /\ w <= Split!CharBudget
  BY <1>2
<1>4. j \in st + 1 .. Len(source) /\ j \in st .. Len(source) /\ j - st \in 1 .. w
  BY <1>1, <1>3 DEF Split!Least
<1>5. u = Split!Slice(source, st, j)
  <2>1. CASE st + w <= Len(source)
    <3>1. j = st + w
      BY <2>1, <1>1, <1>3 DEF Split!Least
    <3>2. QED
      BY <3>1
  <2>2. CASE ~(st + w <= Len(source))
    <3>1. j = Len(source) /\ st + w \in Nat /\ Len(source) <= st + w
      BY <2>2, <1>1, <1>3 DEF Split!Least
    <3>2. Split!Slice(source, st, st + w) = Split!Slice(source, st, Len(source))
      BY <3>1, <1>1, SlicePast
    <3>3. QED
      BY <3>1, <3>2
  <2>3. QED
    BY <2>1, <2>2
<1> HIDE DEF u, j
<1>6. u \in Seq(Char) /\ Len(u) = j - st
  BY <1>1, <1>4, <1>5, SliceFacts
<1>7. \A k \in 0 .. j - st : limit.chars > 0 => Len(prefix) + k <= limit.chars
  BY <1>1, <1>2, <1>3, <1>4
<1>8. CASE limit.bytes > 0
  <2>1. PICK k \in 0 .. Len(u) :
          /\ Split!Truncated(u, Split!ByteBudget) = Split!Slice(u, 0, k)
          /\ Split!Utf8Length(Split!Slice(u, 0, k)) <= Split!ByteBudget
          /\ k < Len(u) => Split!Utf8Length(Split!Slice(u, 0, k + 1)) > Split!ByteBudget
    BY <1>2, <1>6, <1>8, TruncatedFacts
  <2>2. k \in 0 .. j - st
    BY <2>1, <1>6
  <2>3. Split!Slice(u, 0, k) = Split!Slice(source, st, st + k)
    BY <2>2, <1>1, <1>4, <1>5, SliceOfSlice
  <2>4. b = Split!Slice(source, st, st + k)
    BY <2>1, <2>3, <1>8
  <2>5. Split!Utf8Length(prefix) + Split!Utf8Length(Split!Slice(source, st, st + k)) <= limit.bytes
    <3>1. Split!Utf8Length(Split!Slice(u, 0, k)) \in Nat
      BY <1>6, BytesOfStart
    <3>2. QED
      BY <3>1, <2>1, <2>3, <1>1, <1>2, <1>8
  <2>6. /\ b \in Seq(Char) /\ st + Len(b) <= Len(source) /\ b = Split!Slice(source, st, st + Len(b))
        /\ Split!Sized(prefix \o b) /\ (b = <<>> <=> k = 0)
    <3> HIDE DEF b
    <3>1. QED
      BY <2>2, <2>4, <2>5, <1>4, <1>7, PartFits
  <2>7. ASSUME b = <<>> PROVE Split!Misfit
    <3>1. k = 0 /\ k < Len(u) /\ k + 1 = 1
      <4> HIDE DEF b
      <4>1. k = 0
        BY <2>6, <2>7
      <4>2. QED
        BY <4>1, <1>4, <1>6
    <3>2. Split!Utf8Length(Split!Slice(u, 0, 1)) > Split!ByteBudget
      BY <3>1, <2>1
    <3>3. st + 1 \in 1 .. Len(source) /\ 1 \in 0 .. j - st /\ (st + 1) - 1 = st
      BY <1>1, <1>4
    <3>4. Split!Slice(u, 0, 1) = Split!Slice(source, st, st + 1)
      BY <3>3, <1>1, <1>4, <1>5, SliceOfSlice
    <3> DEFINE i == st + 1
               c == <<source[i]>>
    <3>5. /\ Split!Slice(source, i - 1, i) = c
          /\ Split!Utf8Length(prefix \o c) = Split!Utf8Length(prefix) + Split!Utf8Length(c)
          /\ Split!Utf8Length(c) \in Nat
      BY <3>3, CharacterFacts
    <3>6. Split!Utf8Length(c) > Split!ByteBudget
      BY <3>2, <3>3, <3>4, <3>5
    <3> HIDE DEF c
    <3>7. Split!Utf8Length(prefix \o c) > limit.bytes
      BY <3>5, <3>6, <1>1, <1>2, <1>8
    <3>8. ~Split!Valid(prefix \o c)
      <4>1. Split!Utf8Length(prefix \o c) \in Nat
        BY <3>5, <1>1
      <4>2. ~(Split!Utf8Length(prefix \o c) <= limit.bytes)
        BY <4>1, <3>7, <1>1
      <4>3. QED
        BY <4>2, <1>8 DEF Split!Valid, Split!WithinLimits, Split!Sized
    <3>9. QED
      BY <3>3, <3>8 DEF Split!Misfit, c
  <2> HIDE DEF b
  <2>8. BodyOf(st, b)
    BY <2>6, <2>7 DEF BodyOf
  <2>9. QED
    BY <2>6, <2>8 DEF b, u
<1>9. CASE ~(limit.bytes > 0)
  <2> DEFINE k == j - st
  <2>1. k \in 0 .. j - st /\ st + k = j /\ k # 0
    BY <1>1, <1>4
  <2>2. b = Split!Slice(source, st, st + k)
    BY <2>1, <1>5, <1>9
  <2> HIDE DEF b, k
  <2>3. /\ b \in Seq(Char) /\ st + Len(b) <= Len(source) /\ b = Split!Slice(source, st, st + Len(b))
        /\ Split!Sized(prefix \o b) /\ (b = <<>> <=> k = 0)
    BY <2>1, <2>2, <1>4, <1>7, <1>9, PartFits
  <2>4. BodyOf(st, b)
    BY <2>1, <2>3 DEF BodyOf
  <2>5. QED
    BY <2>3, <2>4 DEF b, u
<1>10. QED
  BY <1>8, <1>9

LEMMA Shrinks ==
  ASSUME Split!SplitAssumption, CallOK, NEW st \in 0 .. Len(source), NEW b \in Seq(Char),
         BodyOf(st, b), b # <<>>, TooMany(b)
  PROVE  LET end == Split!TokenBoundary(b)
             s == Split!Slice(b, 0, IF end > 0 THEN end ELSE Len(b) \div 2)
         IN  s \in Seq(Char) /\ BodyOf(st, s)
<1> DEFINE end == Split!TokenBoundary(b)
           n == IF end > 0 THEN end ELSE Len(b) \div 2
           s == Split!Slice(b, 0, n)
<1>1. /\ source \in Seq(Char) /\ Len(source) \in Nat /\ Len(prefix) \in Nat
      /\ Split!Utf8Length(prefix) \in Nat
      /\ limit.chars \in Nat /\ limit.bytes \in Nat
  BY CallFacts
<1>2. /\ st < Len(source) /\ st + Len(b) <= Len(source) /\ b = Split!Slice(source, st, st + Len(b))
      /\ Split!Sized(prefix \o b) /\ Len(b) \in Nat \ {0}
  BY EmptySeq DEF BodyOf
<1>3. end \in Nat /\ (end > 0 => end < Len(b))
  BY BoundaryFacts
<1> HIDE DEF end
<1>4. n \in 0 .. Len(b) - 1 /\ (n = 0 => Len(b) = 1)
  <2>1. \A m \in Nat \ {0} : m \div 2 \in 0 .. m - 1 /\ (m \div 2 = 0 => m = 1)
    OBVIOUS
  <2> DEFINE l == Len(b)
             half == l \div 2
  <2>2. l \in Nat \ {0} /\ half \in 0 .. l - 1 /\ (half = 0 => l = 1)
    BY <2>1, <1>2
  <2>3. end \in Nat /\ (end > 0 => end < l) /\ n = IF end > 0 THEN end ELSE half
    BY <1>3
  <2> HIDE DEF l, half, n
  <2>4. n \in 0 .. l - 1 /\ (n = 0 => l = 1)
    BY <2>2, <2>3
  <2>5. QED
    BY <2>4 DEF l
<1> HIDE DEF n
<1> DEFINE j == st + Len(b)
<1>5. j \in st .. Len(source) /\ j - st = Len(b) /\ n \in 0 .. j - st /\ n \in 0 .. Len(b)
  BY <1>1, <1>2, <1>4
<1>6. s = Split!Slice(source, st, st + n)
  <2>1. b = Split!Slice(source, st, j)
    BY <1>2
  <2> HIDE DEF j
  <2>2. Split!Slice(Split!Slice(source, st, j), 0, n) = Split!Slice(source, st, st + n)
    BY <1>1, <1>5, SliceOfSlice
  <2>3. QED
    BY <2>1, <2>2
<1> HIDE DEF j
<1>7. /\ Len(prefix \o b) = Len(prefix) + Len(b)
      /\ Split!Utf8Length(prefix \o b) = Split!Utf8Length(prefix) + Split!Utf8Length(b)
      /\ Split!Utf8Length(b) \in Nat
  BY SizeFacts
<1>8. limit.chars > 0 => Len(prefix) + n <= limit.chars
  BY <1>1, <1>2, <1>4, <1>7 DEF Split!Sized
<1>9. limit.bytes > 0
        => Split!Utf8Length(prefix) + Split!Utf8Length(Split!Slice(source, st, st + n)) <= limit.bytes
  <2>1. /\ Split!Utf8Length(Split!Slice(b, 0, n)) <= Split!Utf8Length(b)
        /\ Split!Utf8Length(Split!Slice(b, 0, n)) \in Nat
    BY <1>5, BytesOfStart
  <2>2. Split!Utf8Length(s) <= Split!Utf8Length(b) /\ Split!Utf8Length(s) \in Nat
    BY <2>1
  <2> HIDE DEF s
  <2>3. limit.bytes > 0 => Split!Utf8Length(prefix) + Split!Utf8Length(s) <= limit.bytes
    BY <2>2, <1>1, <1>2, <1>7 DEF Split!Sized
  <2>4. QED
    BY <2>3, <1>6
<1>10. /\ s \in Seq(Char) /\ st + Len(s) <= Len(source) /\ s = Split!Slice(source, st, st + Len(s))
       /\ Split!Sized(prefix \o s) /\ (s = <<>> <=> n = 0)
  <2> HIDE DEF s
  <2>1. QED
    BY <1>5, <1>6, <1>8, <1>9, PartFits
<1>11. ASSUME n = 0 PROVE Split!Misfit
  <2>1. Len(b) = 1 /\ st + 1 \in 1 .. Len(source) /\ (st + 1) - 1 = st
    BY <1>1, <1>2, <1>4, <1>11
  <2> DEFINE i == st + 1
  <2>2. Split!Slice(source, i - 1, i) = <<source[i]>>
    BY <2>1, CharacterFacts
  <2>3. b = <<source[st + 1]>>
    BY <1>2, <2>1, <2>2
  <2>4. ~Split!Valid(prefix \o b)
    <3>1. /\ limit.tokens \in Nat /\ limit.reserved \in Nat /\ limit.tokens > 0
          /\ Split!TokenCount(prefix \o b) > limit.tokens - limit.reserved
      BY CallFacts DEF TooMany, Split!TokenBudget
    <3>2. Split!TokenCount(prefix \o b) \in Nat
      BY SizeFacts, CountFacts
    <3>3. QED
      BY <3>1, <3>2 DEF Split!Valid, Split!WithinLimits
  <2>5. QED
    BY <2>1, <2>3, <2>4 DEF Split!Misfit
<1> HIDE DEF s
<1>12. BodyOf(st, s)
  BY <1>2, <1>10, <1>11 DEF BodyOf
<1>13. QED
  BY <1>10, <1>12 DEF s, n, end

LEMMA BodyIsSpan ==
  ASSUME Split!SplitAssumption, CallOK, NEW st \in 0 .. Len(source), NEW b \in Seq(Char),
         BodyOf(st, b), b # <<>>, ~TooMany(b)
  PROVE  /\ st + Len(b) \in st + 1 .. Len(source) /\ Split!Part(SpanOf(st, st + Len(b))) = b
         /\ Split!WithinLimits(prefix \o b)
<1>1. Len(source) \in Nat /\ Len(b) \in Nat \ {0} /\ st + Len(b) <= Len(source)
  BY CallFacts, EmptySeq DEF BodyOf
<1>2. Split!Part(SpanOf(st, st + Len(b))) = b
  <2>1. SpanOf(st, st + Len(b)).start = st /\ SpanOf(st, st + Len(b)).end = st + Len(b)
    BY DEF SpanOf
  <2>2. b = Split!Slice(source, st, st + Len(b))
    BY DEF BodyOf
  <2>3. QED
    BY <2>1, <2>2 DEF Split!Part
<1>3. Split!WithinLimits(prefix \o b)
  <2>1. limit.tokens \in Nat /\ limit.reserved \in Nat
    BY CallFacts
  <2>2. Split!TokenCount(prefix \o b) \in Nat
    BY SizeFacts, CountFacts
  <2>3. Split!Sized(prefix \o b)
    BY DEF BodyOf
  <2>4. QED
    BY <2>1, <2>2, <2>3 DEF Split!WithinLimits, TooMany, Split!TokenBudget
<1>4. QED
  BY <1>1, <1>2, <1>3

\* The next window has at least a character and no more than the largest.
LEMMA NextWindow ==
  ASSUME Split!SplitAssumption, CallOK, ~Split!NoRoom, NEW b \in Seq(Char), NEW usable \in Int,
         NEW tokens \in Nat \ {0}
  PROVE  Split!Least(Split!MaxWindow, Split!Greatest(1, (Len(b) * usable) \div tokens)) \in 1 .. Split!MaxWindow
<1>1. Split!MaxWindow \in Nat \ {0}
  BY BudgetFacts
<1> DEFINE x == (Len(b) * usable) \div tokens
<1>2. x \in Int
  <2>1. \A m, n \in Int : m * n \in Int
    OBVIOUS
  <2>2. \A m \in Int, n \in Nat \ {0} : m \div n \in Int
    OBVIOUS
  <2>3. Len(b) \in Int
    BY LenProperties
  <2>4. Len(b) * usable \in Int
    BY <2>1, <2>3
  <2>5. QED
    BY <2>2, <2>4
<1> HIDE DEF x
<1>3. Split!Greatest(1, x) \in Nat \ {0}
  BY <1>2 DEF Split!Greatest
<1> DEFINE y == Split!Greatest(1, x)
<1>4. y \in Nat \ {0}
  BY <1>3
<1> HIDE DEF y
<1>5. Split!Least(Split!MaxWindow, y) \in 1 .. Split!MaxWindow
  BY <1>1, <1>4 DEF Split!Least
<1>6. QED
  BY <1>5 DEF y, x

LEMMA MergePreviousFacts ==
  ASSUME Split!SplitAssumption, CallOK, ~Split!NoRoom, merged \in Seq(Split!Span),
         NEW a \in Nat, Split!Chain(merged, a),
         NEW end \in 0 .. Len(source), a <= end
  PROVE  LET to == Split!MergePrevious(end)
         IN  \/ to = 0
             \/ /\ merged # <<>> /\ to \in a + 1 .. end
                /\ Split!Valid(prefix \o Split!Slice(source, Split!Last(merged).start, to))
<1>1. /\ source \in Seq(Char) /\ Len(source) \in Nat /\ Len(prefix) \in Nat
      /\ Split!Utf8Length(prefix) \in Nat
      /\ limit.chars \in Nat /\ limit.bytes \in Nat
  BY CallFacts
<1>2. Split!CharBudget \in Nat \ {0} /\ (limit.bytes > 0 => Split!ByteBudget \in Nat \ {0})
  BY BudgetFacts
<1>3. CASE merged = <<>>
  BY <1>3 DEF Split!MergePrevious
<1>4. CASE merged # <<>>
  <2> DEFINE from == Split!Last(merged).start
             e1 == IF limit.chars > 0 THEN Split!Least(end, from + Split!CharBudget) ELSE end
             e2 == IF limit.bytes > 0 THEN Split!Least(e1, from + Split!ByteBudget) ELSE e1
             u == Split!Slice(source, from, e2)
             m == IF limit.bytes > 0 THEN Split!Truncated(u, Split!ByteBudget) ELSE u
             to == Split!MergePrevious(end)
  <2>1. from \in Nat /\ Split!Last(merged).end = a /\ from < a
    BY <1>4, ChainStretches
  <2>2. to = IF from + Len(m) > Split!Last(merged).end /\ Split!Valid(prefix \o m) THEN from + Len(m) ELSE 0
    BY <1>4 DEF Split!MergePrevious
  <2> HIDE DEF from, to
  <2>3. e1 \in from + 1 .. end
    BY <1>1, <1>2, <2>1 DEF Split!Least
  <2> HIDE DEF e1
  <2>4. e2 \in from + 1 .. end
    BY <1>1, <1>2, <2>1, <2>3 DEF Split!Least
  <2> HIDE DEF e2
  <2>5. from \in 0 .. Len(source) /\ e2 \in from .. Len(source) /\ e2 - from \in Nat
    BY <1>1, <2>1, <2>4
  <2>6. u \in Seq(Char) /\ Len(u) = e2 - from
    BY <1>1, <2>5, SliceFacts
  <2>7. \E k \in 0 .. e2 - from : m = Split!Slice(source, from, from + k)
    <3>1. CASE limit.bytes > 0
      <4>1. Split!ByteBudget \in Nat
        BY <1>2, <3>1
      <4> HIDE DEF u
      <4>2. PICK k \in 0 .. Len(u) : Split!Truncated(u, Split!ByteBudget) = Split!Slice(u, 0, k)
        BY <4>1, <2>6, TruncatedFacts
      <4>3. k \in 0 .. e2 - from
        BY <4>2, <2>6
      <4>4. Split!Slice(u, 0, k) = Split!Slice(source, from, from + k)
        BY <4>3, <1>1, <2>5, SliceOfSlice DEF u
      <4>5. QED
        BY <3>1, <4>2, <4>3, <4>4
    <3>2. CASE ~(limit.bytes > 0)
      <4>1. e2 - from \in 0 .. e2 - from /\ from + (e2 - from) = e2
        BY <2>5
      <4>2. m = Split!Slice(source, from, from + (e2 - from))
        BY <3>2, <4>1
      <4>3. QED
        BY <4>1, <4>2
    <3>3. QED
      BY <3>1, <3>2
  <2> HIDE DEF m, u
  <2>8. PICK k \in 0 .. e2 - from : m = Split!Slice(source, from, from + k)
    BY <2>7
  <2>9. Len(m) = k /\ from + k \in from .. Len(source)
    <3>1. from + k \in from .. Len(source) /\ (from + k) - from = k
      BY <2>5
    <3>2. Len(Split!Slice(source, from, from + k)) = (from + k) - from
      BY <3>1, <1>1, <2>5, SliceFacts
    <3>3. QED
      BY <3>1, <3>2, <2>8
  <2>10. ASSUME to # 0 PROVE to \in a + 1 .. end /\ Split!Valid(prefix \o Split!Slice(source, from, to))
    <3>1. to = from + k /\ from + k > a /\ Split!Valid(prefix \o m)
      BY <2>1, <2>2, <2>9, <2>10
    <3>2. to \in a + 1 .. end
      BY <3>1, <2>1, <2>4, <2>5
    <3>3. QED
      BY <3>1, <3>2, <2>8
  <2>11. QED
    BY <1>4, <2>10 DEF to, from
<1>5. QED
  BY <1>3, <1>4

\* What is merged when the span before takes what it can.
LEMMA ExtendedFacts ==
  ASSUME Split!SplitAssumption, CallOK, merged \in Seq(Split!Span),
         NEW a \in Nat, Split!Chain(merged, a),
         \A i \in 1 .. Len(merged) : Split!Valid(prefix \o Split!Part(merged[i])),
         NEW to \in Nat,
         \/ to = 0
         \/ /\ merged # <<>> /\ to \in a + 1 .. Len(source)
            /\ Split!Valid(prefix \o Split!Slice(source, Split!Last(merged).start, to))
  PROVE  /\ Split!Extended(to) \in Seq(Split!Span)
         /\ Split!Chain(Split!Extended(to), IF to > 0 THEN to ELSE a)
         /\ \A i \in 1 .. Len(Split!Extended(to)) :
              Split!Valid(prefix \o Split!Part(Split!Extended(to)[i]))
<1>1. CASE to = 0
  BY <1>1 DEF Split!Extended
<1>2. CASE to # 0
  <2> DEFINE d == Stretched(merged, to)
  <2>1. /\ merged # <<>> /\ a <= to
        /\ Split!Valid(prefix \o Split!Slice(source, Split!Last(merged).start, to)) /\ to > 0
    BY <1>2
  <2>2. Split!Extended(to) = d
    BY <1>2 DEF Split!Extended, Stretched
  <2>3. /\ d \in Seq(Split!Span) /\ Split!Chain(d, to) /\ Len(d) = Len(merged)
        /\ Split!Last(merged).start \in Nat
        /\ \A i \in 1 .. Len(merged) : d[i] = merged[i] \/ d[i] = SpanOf(Split!Last(merged).start, to)
    BY <2>1, ChainStretches
  <2> HIDE DEF d
  <2>4. Split!Part(SpanOf(Split!Last(merged).start, to))
          = Split!Slice(source, Split!Last(merged).start, to)
    BY <2>3, SpanFacts DEF Split!Part
  <2>5. ASSUME NEW i \in 1 .. Len(d) PROVE Split!Valid(prefix \o Split!Part(d[i]))
    <3>1. CASE d[i] = merged[i]
      BY <3>1, <2>3
    <3>2. CASE d[i] = SpanOf(Split!Last(merged).start, to)
      BY <3>2, <2>1, <2>4
    <3>3. QED
      BY <3>1, <3>2, <2>3
  <2>6. QED
    BY <2>1, <2>2, <2>3, <2>5
<1>3. QED
  BY <1>1, <1>2

\* The next span begins where the one before it ends.
LEMMA SpanPlace ==
  ASSUME Split!SplitAssumption, CallOK, NEW sp \in Seq(Split!Span),
         NEW st \in 0 .. Len(source), Split!Chain(sp, st),
         NEW n \in 1 .. Len(sp)
  PROVE  /\ sp[n].start \in 0 .. Len(source) /\ sp[n].end \in sp[n].start + 1 .. Len(source)
         /\ sp[n].start = IF n = 1 THEN 0 ELSE sp[n - 1].end
         /\ Split!Part(sp[n]) = Split!Slice(source, sp[n].start, sp[n].end)
<1>1. sp[n].start \in Nat /\ sp[n].end \in Nat /\ Len(sp) \in Nat /\ Len(source) \in Nat
  BY ElementsAreSpans, CallFacts, LenProperties
<1>2. sp[n].start < sp[n].end /\ sp[n].end <= st
  BY DEF Split!Chain
<1>3. sp[n].start = IF n = 1 THEN 0 ELSE sp[n - 1].end
  <2>1. CASE n = 1
    <3>1. sp # <<>>
      BY EmptySeq
    <3>2. QED
      BY <2>1, <3>1 DEF Split!Chain
  <2>2. CASE n # 1
    <3>1. n - 1 \in 1 .. Len(sp) - 1 /\ (n - 1) + 1 = n
      BY <1>1, <2>2
    <3>2. sp[n - 1].end = sp[(n - 1) + 1].start
      BY <3>1 DEF Split!Chain
    <3>3. QED
      BY <2>2, <3>1, <3>2
  <2>3. QED
    BY <2>1, <2>2
<1>4. QED
  BY <1>1, <1>2, <1>3 DEF Split!Part

\* A run of spans without tokens goes on.
LEMMA Waits ==
  ASSUME Split!SplitAssumption, CallOK, CutOf("merge", start, window, body, spans),
         ResultOf("merge", start, spans, merged, pending, following),
         following <= Len(spans), Split!Tokenless(spans[following])
  PROVE  ResultOf("merge", start, spans, merged, Split!Least(pending, spans[following].start),
           following + 1)
<1> DEFINE s == spans[following].start
           e == spans[following].end
           p == Split!Least(pending, s)
<1>1. /\ start \in 0 .. Len(source) /\ spans \in Seq(Split!Span) /\ Split!Chain(spans, start)
      /\ following \in 1 .. Len(spans) /\ pending \in 0 .. Len(source)
      /\ MergeOf(start, spans, merged, pending, following) /\ Len(source) \in Nat
      /\ Len(spans) \in Nat
  BY CallFacts, LenProperties DEF CutOf, ResultOf
<1>2. /\ s \in 0 .. Len(source) /\ e \in s + 1 .. Len(source)
      /\ s = IF following = 1 THEN 0 ELSE spans[following - 1].end
      /\ Split!Part(spans[following]) = Split!Slice(source, s, e)
  BY <1>1, SpanPlace
<1>3. limit.ids /\ Split!TokenCount(prefix \o Split!Slice(source, s, e)) = 0
  BY <1>1, <1>2 DEF Split!Tokenless, MergeOf
<1> HIDE DEF s, e
<1>4. Split!Misfit
  BY <1>2, <1>3, TokenlessIsMisfit
<1>5. pending < Len(source) => following > 1 /\ pending < spans[following - 1].end
  BY <1>1 DEF MergeOf
<1>6. /\ p \in 0 .. Len(source) /\ p < Len(source) /\ p < e
      /\ p = MergedUpTo(spans, pending, following)
  <2>1. CASE pending < Len(source)
    <3>1. following # 1 /\ spans[following - 1].end = s /\ pending < s
      BY <1>1, <1>2, <1>5, <2>1
    <3>2. p = pending
      BY <3>1, <1>1, <1>2 DEF Split!Least
    <3>3. QED
      BY <2>1, <3>1, <3>2, <1>1, <1>2 DEF MergedUpTo
  <2>2. CASE ~(pending < Len(source))
    <3>1. p = s
      BY <2>2, <1>1, <1>2 DEF Split!Least
    <3>2. QED
      BY <2>2, <3>1, <1>1, <1>2 DEF MergedUpTo
  <2>3. QED
    BY <2>1, <2>2
<1> HIDE DEF p
<1>7. following + 1 \in 1 .. Len(spans) + 1 /\ following + 1 > 1 /\ (following + 1) - 1 = following
  BY <1>1
<1>8. MergeOf(start, spans, merged, p, following + 1)
  <2>1. MergedUpTo(spans, p, following + 1) = p
    BY <1>6 DEF MergedUpTo
  <2>2. Split!Chain(merged, p) /\ start = Len(source)
    BY <1>1, <1>6 DEF MergeOf
  <2>3. p < spans[(following + 1) - 1].end
    BY <1>6, <1>7 DEF e
  <2>4. QED
    BY <1>3, <1>4, <1>7, <2>1, <2>2, <2>3 DEF MergeOf
<1>9. QED
  BY <1>6, <1>7, <1>8 DEF ResultOf, p, s

\* A span with tokens is merged with the run before it, or the run has no place.
LEMMA Resolves ==
  ASSUME Split!SplitAssumption, CallOK, CutOf("merge", start, window, body, spans),
         ResultOf("merge", start, spans, merged, pending, following),
         following <= Len(spans), ~Split!Tokenless(spans[following])
  PROVE  LET span == spans[following]
             to == IF pending < Len(source) THEN Split!MergePrevious(span.start) ELSE 0
             from == IF pending = Len(source) THEN span.start ELSE IF to > 0 THEN to ELSE pending
         IN  IF from = span.start \/ Split!Valid(prefix \o Split!Slice(source, from, span.end))
             THEN ResultOf("merge", start, spans,
                    Append(Split!Extended(to), [start |-> from, end |-> span.end]),
                           Len(source), following + 1)
             ELSE ResultOf("refused", start, spans, merged, Len(source), following + 1)
<1> DEFINE s == spans[following].start
           e == spans[following].end
           to == IF pending < Len(source) THEN Split!MergePrevious(s) ELSE 0
           from == IF pending = Len(source) THEN s ELSE IF to > 0 THEN to ELSE pending
           a == MergedUpTo(spans, pending, following)
           r == Append(Split!Extended(to), SpanOf(from, e))
           Fits == from = s \/ Split!Valid(prefix \o Split!Slice(source, from, e))
<1>1. /\ start \in 0 .. Len(source) /\ spans \in Seq(Split!Span) /\ Split!Chain(spans, start)
      /\ following \in 1 .. Len(spans) /\ pending \in 0 .. Len(source) /\ merged \in Seq(Split!Span)
      /\ MergeOf(start, spans, merged, pending, following) /\ Len(source) \in Nat
      /\ Len(spans) \in Nat
      /\ ~Split!NoRoom /\ \A i \in 1 .. Len(merged) : Split!Valid(prefix \o Split!Part(merged[i]))
      /\ \A i \in 1 .. Len(spans) : Split!WithinLimits(prefix \o Split!Part(spans[i]))
  BY CallFacts, LenProperties DEF CutOf, ResultOf
<1>2. /\ s \in 0 .. Len(source) /\ e \in s + 1 .. Len(source)
      /\ s = IF following = 1 THEN 0 ELSE spans[following - 1].end
      /\ Split!Part(spans[following]) = Split!Slice(source, s, e)
  BY <1>1, SpanPlace
<1>3. Split!Valid(prefix \o Split!Slice(source, s, e))
  <2>1. Split!TokenCount(prefix \o Split!Slice(source, s, e)) # 0
    BY DEF Split!Tokenless
  <2>2. Split!TokenCount(prefix \o Split!Slice(source, s, e)) \in Nat
    <3>1. source \in Seq(Char)
      BY CallFacts
    <3>2. s \in 0 .. Len(source) /\ e \in s .. Len(source)
      BY <1>1, <1>2
    <3>3. Split!Slice(source, s, e) \in Seq(Char)
      BY <3>1, <3>2, SliceFacts
    <3>4. QED
      BY <3>3, SizeFacts, CountFacts
  <2>3. Split!WithinLimits(prefix \o Split!Slice(source, s, e))
    BY <1>1, <1>2
  <2>4. QED
    BY <2>1, <2>2, <2>3 DEF Split!Valid
<1> HIDE DEF s, e
<1>4. /\ pending < Len(source) => following > 1 /\ pending < spans[following - 1].end /\ Split!Misfit
      /\ Split!Chain(merged, a) /\ limit.ids /\ start = Len(source)
  BY <1>1 DEF MergeOf
<1>5. a \in 0 .. s /\ (pending = Len(source) => a = s) /\ (pending < Len(source) => a = pending)
  <2>1. CASE pending < Len(source)
    <3>1. following # 1 /\ spans[following - 1].end = s /\ pending < s
      BY <1>1, <1>2, <1>4, <2>1
    <3>2. QED
      BY <2>1, <3>1, <1>1, <1>2 DEF MergedUpTo
  <2>2. CASE ~(pending < Len(source))
    BY <2>2, <1>1, <1>2 DEF MergedUpTo
  <2>3. QED
    BY <2>1, <2>2
<1> HIDE DEF a
<1>6. /\ to \in Nat /\ to <= s
      /\ \/ to = 0
         \/ /\ merged # <<>> /\ to \in a + 1 .. Len(source)
            /\ Split!Valid(prefix \o Split!Slice(source, Split!Last(merged).start, to))
  <2>1. CASE pending < Len(source)
    <3>1. to = Split!MergePrevious(s)
      BY <2>1
    <3>2. a \in Nat /\ s \in 0 .. Len(source) /\ a <= s
      BY <1>2, <1>5
    <3>3. \/ to = 0
          \/ /\ merged # <<>> /\ to \in a + 1 .. s
             /\ Split!Valid(prefix \o Split!Slice(source, Split!Last(merged).start, to))
      <4> HIDE DEF to
      <4>1. QED
        BY <3>1, <3>2, <1>1, <1>4, MergePreviousFacts
    <3>4. a + 1 .. s \subseteq a + 1 .. Len(source) /\ \A x \in a + 1 .. s : x \in Nat /\ x <= s
      BY <3>2, <1>1
    <3>5. 0 \in Nat /\ 0 <= s
      BY <1>2
    <3> HIDE DEF to
    <3>6. QED
      BY <3>3, <3>4, <3>5
  <2>2. CASE ~(pending < Len(source))
    BY <2>2, <1>2
  <2>3. QED
    BY <2>1, <2>2
<1>7. from = (IF to > 0 THEN to ELSE a) /\ from \in 0 .. s
  <2>1. CASE pending < Len(source)
    BY <2>1, <1>1, <1>2, <1>5, <1>6
  <2>2. CASE ~(pending < Len(source))
    <3>1. pending = Len(source) /\ to = 0
      BY <2>2, <1>1
    <3>2. QED
      BY <3>1, <1>2, <1>5
  <2>3. QED
    BY <2>1, <2>2
<1>8. from # s => pending < Len(source)
  BY <1>1
<1> HIDE DEF to, from
<1>9. /\ Split!Extended(to) \in Seq(Split!Span) /\ Split!Chain(Split!Extended(to), from)
      /\ \A i \in 1 .. Len(Split!Extended(to)) :
           Split!Valid(prefix \o Split!Part(Split!Extended(to)[i]))
  <2>1. a \in Nat
    BY <1>2, <1>5
  <2>2. QED
    BY <2>1, <1>1, <1>4, <1>6, <1>7, ExtendedFacts
<1>10. from \in Nat /\ e \in Nat /\ from < e
  BY <1>2, <1>7
<1>11. r \in Seq(Split!Span) /\ Split!Chain(r, e) /\ Len(r) = Len(Split!Extended(to)) + 1
  BY <1>9, <1>10, ChainGoesOn
<1>12. following + 1 \in 1 .. Len(spans) + 1 /\ following + 1 # 1 /\ (following + 1) - 1 = following
  BY <1>1
<1>13. CASE Fits
  <2>1. Split!Part(SpanOf(from, e)) = Split!Slice(source, from, e)
    BY <1>10, SpanFacts DEF Split!Part
  <2>2. Split!Valid(prefix \o Split!Part(SpanOf(from, e)))
    BY <2>1, <1>3, <1>13
  <2>3. ASSUME NEW i \in 1 .. Len(r) PROVE Split!Valid(prefix \o Split!Part(r[i]))
    <3>1. /\ SpanOf(from, e) \in Split!Span
          /\ \A n \in 1 .. Len(Split!Extended(to)) : r[n] = Split!Extended(to)[n]
          /\ r[Len(Split!Extended(to)) + 1] = SpanOf(from, e) /\ Len(Split!Extended(to)) \in Nat
      BY <1>9, <1>10, SpanFacts, AppendProperties, LenProperties
    <3> HIDE DEF r
    <3>2. i \in 1 .. Len(Split!Extended(to)) \/ i = Len(Split!Extended(to)) + 1
      BY <3>1, <1>11
    <3>3. QED
      BY <3>1, <3>2, <2>2, <1>9
  <2> HIDE DEF r
  <2>4. MergedUpTo(spans, Len(source), following + 1) = e
    BY <1>1, <1>12 DEF MergedUpTo, e
  <2>5. MergeOf(start, spans, r, Len(source), following + 1)
    BY <2>4, <1>1, <1>4, <1>11 DEF MergeOf
  <2>6. e \in 0 .. Len(source)
    BY <1>2
  <2>7. ResultOf("merge", start, spans, r, Len(source), following + 1)
    BY <2>3, <2>5, <2>6, <1>1, <1>11, <1>12 DEF ResultOf
  <2>8. QED
    BY <2>7, <1>13 DEF r, SpanOf, from, to, s, e
<1>14. CASE ~Fits
  <2>1. Split!Misfit
    BY <1>4, <1>8, <1>14
  <2>2. \E x \in 0 .. Len(source) : Split!Chain(merged, x)
    BY DEF ResultOf
  <2>3. ResultOf("refused", start, spans, merged, Len(source), following + 1)
    BY <2>1, <2>2, <1>1, <1>12 DEF ResultOf
  <2>4. QED
    BY <2>3, <1>14 DEF from, to, s, e
<1>15. QED
  BY <1>13, <1>14

\* At the end, a run of spans without tokens has to fit into the last span.
LEMMA Finishes ==
  ASSUME Split!SplitAssumption, CallOK, CutOf("merge", start, window, body, spans),
         ResultOf("merge", start, spans, merged, pending, following), following > Len(spans)
  PROVE  IF pending = Len(source) THEN ResultOf("done", start, spans, merged, pending, following)
         ELSE LET to == Split!MergePrevious(Len(source))
              IN  IF to = Len(source)
                  THEN ResultOf("done", start, spans, Split!Extended(to), pending, following)
                  ELSE ResultOf("refused", start, spans, merged, pending, following)
<1>1. /\ start \in 0 .. Len(source) /\ spans \in Seq(Split!Span) /\ Split!Chain(spans, start)
      /\ following \in 1 .. Len(spans) + 1 /\ pending \in 0 .. Len(source)
      /\ merged \in Seq(Split!Span)
      /\ MergeOf(start, spans, merged, pending, following) /\ Len(source) \in Nat \ {0}
      /\ Len(spans) \in Nat
      /\ ~Split!NoRoom /\ \A i \in 1 .. Len(merged) : Split!Valid(prefix \o Split!Part(merged[i]))
  BY CallFacts, LenProperties DEF CutOf, ResultOf
<1>2. /\ Split!Chain(merged, MergedUpTo(spans, pending, following)) /\ start = Len(source)
      /\ pending < Len(source) => Split!Misfit
  BY <1>1 DEF MergeOf
<1>3. CASE pending = Len(source)
  <2>1. spans # <<>> /\ following = Len(spans) + 1 /\ following # 1 /\ following - 1 = Len(spans)
    <3>1. spans # <<>>
      BY <1>1, <1>2 DEF Split!Chain
    <3>2. QED
      BY <3>1, <1>1, EmptySeq
  <2>2. spans[Len(spans)].end = Len(source)
    BY <2>1, <1>1, <1>2 DEF Split!Chain
  <2>3. MergedUpTo(spans, pending, following) = Len(source)
    BY <2>1, <2>2, <1>1, <1>3 DEF MergedUpTo
  <2>4. Split!Chain(merged, Len(source)) /\ Len(source) \in 0 .. Len(source)
    BY <2>3, <1>1, <1>2
  <2>5. ResultOf("done", start, spans, merged, pending, following)
    BY <2>4, <1>1 DEF ResultOf
  <2>6. QED
    BY <2>5, <1>3
<1>4. CASE pending # Len(source)
  <2> DEFINE to == Split!MergePrevious(Len(source))
  <2>1. /\ pending < Len(source) /\ pending \in Nat /\ pending <= Len(source)
        /\ Len(source) \in 0 .. Len(source)
        /\ Split!Chain(merged, pending) /\ Split!Misfit
    BY <1>1, <1>2, <1>4 DEF MergedUpTo
  <2>2. CASE to = Len(source)
    <3>1. \/ to = 0
          \/ /\ merged # <<>> /\ to \in pending + 1 .. Len(source)
             /\ Split!Valid(prefix \o Split!Slice(source, Split!Last(merged).start, to))
      BY <2>1, <1>1, MergePreviousFacts
    <3>2. to \in Nat /\ to > 0
      BY <2>2, <1>1
    <3> HIDE DEF to
    <3>3. /\ Split!Extended(to) \in Seq(Split!Span)
          /\ Split!Chain(Split!Extended(to), IF to > 0 THEN to ELSE pending)
          /\ \A i \in 1 .. Len(Split!Extended(to)) :
               Split!Valid(prefix \o Split!Part(Split!Extended(to)[i]))
      BY <3>1, <3>2, <2>1, <1>1, ExtendedFacts
    <3>4. Split!Chain(Split!Extended(to), Len(source))
      BY <3>2, <3>3, <2>2
    <3>5. ResultOf("done", start, spans, Split!Extended(to), pending, following)
      BY <3>3, <3>4, <2>1, <1>1 DEF ResultOf
    <3>6. QED
      BY <3>5, <2>2, <1>4 DEF to
  <2>3. CASE to # Len(source)
    <3>1. \E x \in 0 .. Len(source) : Split!Chain(merged, x)
      BY DEF ResultOf
    <3>2. ResultOf("refused", start, spans, merged, pending, following)
      BY <3>1, <2>1, <1>1 DEF ResultOf
    <3>3. QED
      BY <3>2, <2>3, <1>4
  <2>4. QED
    BY <2>2, <2>3
<1>5. QED
  BY <1>3, <1>4

\* What IInv says before a step.
LEMMA InvParts ==
  ASSUME Split!IInv
  PROVE  /\ CallOK /\ CutOf(phase, start, window, body, spans)
         /\ ResultOf(phase, start, spans, merged, pending, following)
         /\ start \in 0 .. Len(source) /\ body \in Seq(Char) /\ spans \in Seq(Split!Span)
         /\ phase # "refused" => ~Split!NoRoom /\ window \in 1 .. Split!MaxWindow
         /\ Split!Chain(spans, start)
         /\ \A i \in 1 .. Len(spans) : Split!WithinLimits(prefix \o Split!Part(spans[i]))
         /\ phase = "fit" => BodyOf(start, body)
         /\ phase \in {"slice", "fit"} => merged = <<>> /\ following = 1 /\ pending = Len(source)
<1>1. /\ CallOK /\ CutOf(phase, start, window, body, spans)
      /\ ResultOf(phase, start, spans, merged, pending, following)
  BY InvByValues
<1>2. QED
  BY <1>1 DEF CutOf, ResultOf

\* A call that still cuts has merged nothing.
LEMMA NothingMerged ==
  ASSUME Split!SplitAssumption, CallOK, NEW p \in {"slice", "fit", "refused"}, NEW st,
         NEW sp \in Seq(Split!Span),
         p = "refused" => Split!Misfit
  PROVE  ResultOf(p, st, sp, <<>>, Len(source), 1)
<1>1. Len(source) \in Nat /\ Len(sp) \in Nat
  BY CallFacts, LenProperties
<1>2. <<>> \in Seq(Split!Span) /\ Split!Chain(<<>>, 0)
  <2>1. <<>> \in Seq(Split!Span) /\ Len(<<>>) = 0
    BY EmptySeq
  <2>2. QED
    BY <2>1 DEF Split!Chain
<1>3. 1 \in 1 .. Len(sp) + 1 /\ Len(source) \in 0 .. Len(source) /\ 0 \in 0 .. Len(source)
  BY <1>1
<1>4. QED
  BY <1>2, <1>3 DEF ResultOf

LEMMA SplitBegins ==
  ASSUME Split!SplitAssumption, Split!Init
  PROVE  Split!IInv
<1>1. CallOK /\ Len(source) \in Nat \ {0}
  <2>1. CallOK
    BY DEF Split!Init, CallOK
  <2>2. QED
    BY <2>1, CallFacts
<1>2. <<>> \in Seq(Split!Span) /\ <<>> \in Seq(Char) /\ Len(<<>>) = 0 /\ Split!Chain(<<>>, 0)
  <2>1. <<>> \in Seq(Split!Span) /\ <<>> \in Seq(Char) /\ Len(<<>>) = 0
    BY EmptySeq
  <2>2. QED
    BY <2>1 DEF Split!Chain
<1>3. CASE Split!NoRoom
  <2>1. phase = "refused"
    BY <1>3 DEF Split!Init
  <2>2. Split!Misfit
    BY <1>1, <1>3, NoRoomIsMisfit
  <2>3. CutOf("refused", start, window, body, spans)
    BY <1>1, <1>2 DEF Split!Init, CutOf
  <2>4. ResultOf("refused", start, spans, <<>>, Len(source), 1)
    BY <2>2, <1>1, <1>2, NothingMerged DEF Split!Init
  <2>5. QED
    BY <2>1, <2>3, <2>4, <1>1, InvByValues DEF Split!Init
<1>4. CASE ~Split!NoRoom
  <2>1. phase = "slice"
    BY <1>4 DEF Split!Init
  <2>2. Split!MaxWindow \in 1 .. Split!MaxWindow
    BY <1>1, <1>4, BudgetFacts
  <2>3. CutOf("slice", start, window, body, spans)
    BY <2>2, <1>1, <1>2, <1>4 DEF Split!Init, CutOf
  <2>4. ResultOf("slice", start, spans, <<>>, Len(source), 1)
    BY <1>1, <1>2, NothingMerged DEF Split!Init
  <2>5. QED
    BY <2>1, <2>3, <2>4, <1>1, InvByValues DEF Split!Init
<1>5. QED
  BY <1>3, <1>4

LEMMA CutWindowKeeps ==
  ASSUME Split!SplitAssumption, Split!IInv, Split!CutWindow
  PROVE  Split!IInv'
<1>1. /\ phase = "slice" /\ start < Len(source) /\ phase' = "fit"
      /\ UNCHANGED <<source, prefix, limit>>
      /\ UNCHANGED <<start, window, spans, merged, pending, following>>
  BY DEF Split!CutWindow
<1>2. PICK b : b = IF limit.bytes > 0
                   THEN Split!Truncated(Split!Slice(source, start, start + window), Split!ByteBudget)
                   ELSE Split!Slice(source, start, start + window)
  OBVIOUS
<1>3. body' = b
  BY <1>2 DEF Split!CutWindow
<1>4. CallOK /\ start \in 0 .. Len(source) /\ ~Split!NoRoom /\ window \in 1 .. Split!MaxWindow
  BY <1>1, InvParts
<1>5. b \in Seq(Char) /\ BodyOf(start, b)
  BY <1>1, <1>2, <1>4, CutsWindow
<1>6. CutOf("fit", start, window, b, spans)
  BY <1>1, <1>5, InvParts DEF CutOf
<1>7. ResultOf("fit", start, spans, merged, pending, following)
  BY <1>1, InvParts, NothingMerged
<1>8. PICK st, w, sp, r, pe, ne : /\ st = start /\ w = window /\ sp = spans /\ r = merged
                                  /\ pe = pending /\ ne = following
  OBVIOUS
<1>9. QED
  BY <1>1, <1>3, <1>4, <1>6, <1>7, <1>8, InvAgain

LEMMA ShrinkKeeps ==
  ASSUME Split!SplitAssumption, Split!IInv, Split!Shrink
  PROVE  Split!IInv'
<1>1. /\ phase = "fit" /\ body # <<>> /\ TooMany(body)
      /\ UNCHANGED <<source, prefix, limit>>
      /\ UNCHANGED <<phase, start, window, spans, merged, pending, following>>
  BY DEF Split!Shrink, Split!TooManyTokens, TooMany
<1>2. PICK b : b = Split!Slice(body, 0, IF Split!TokenBoundary(body) > 0
                                        THEN Split!TokenBoundary(body) ELSE Len(body) \div 2)
  OBVIOUS
<1>3. body' = b
  BY <1>2 DEF Split!Shrink
<1>4. CallOK /\ start \in 0 .. Len(source) /\ body \in Seq(Char) /\ BodyOf(start, body)
  BY <1>1, InvParts
<1>5. b \in Seq(Char) /\ BodyOf(start, b)
  BY <1>1, <1>2, <1>4, Shrinks
<1>6. CutOf("fit", start, window, b, spans)
  BY <1>1, <1>5, InvParts DEF CutOf
<1>7. ResultOf("fit", start, spans, merged, pending, following)
  BY <1>1, InvParts, NothingMerged
<1>8. PICK st, w, sp, r, pe, ne : /\ st = start /\ w = window /\ sp = spans /\ r = merged
                                  /\ pe = pending /\ ne = following
  OBVIOUS
<1>9. phase' = "fit"
  BY <1>1
<1>10. QED
  BY <1>1, <1>3, <1>4, <1>6, <1>7, <1>8, <1>9, InvAgain

LEMMA EmitKeeps ==
  ASSUME Split!SplitAssumption, Split!IInv, Split!Emit
  PROVE  Split!IInv'
<1>1. /\ phase = "fit" /\ body # <<>> /\ ~TooMany(body) /\ phase' = "slice"
      /\ start' = start + Len(body) /\ spans' = Append(spans, SpanOf(start, start + Len(body)))
      /\ UNCHANGED <<source, prefix, limit>> /\ UNCHANGED <<body, merged, pending, following>>
  BY DEF Split!Emit, Split!TooManyTokens, TooMany, SpanOf
<1>2. /\ CallOK /\ start \in 0 .. Len(source) /\ body \in Seq(Char) /\ BodyOf(start, body)
      /\ spans \in Seq(Split!Span)
      /\ Split!Chain(spans, start)
      /\ \A i \in 1 .. Len(spans) : Split!WithinLimits(prefix \o Split!Part(spans[i]))
      /\ ~Split!NoRoom /\ window \in 1 .. Split!MaxWindow
  BY <1>1, InvParts
<1>3. window' \in 1 .. Split!MaxWindow
  <2>1. CASE limit.tokens > 0
    <3>1. PICK alone, here : /\ alone = Split!TokenCount(prefix)
                             /\ here = Split!TokenCount(prefix \o body)
      OBVIOUS
    <3>2. alone \in Nat /\ here \in Nat /\ Split!TokenBudget \in Int
      <4>1. /\ prefix \in Seq(Char) /\ prefix \o body \in Seq(Char) /\ limit.tokens \in Nat
            /\ limit.reserved \in Nat
        BY <1>2, CallFacts, SizeFacts
      <4>2. Split!TokenCount(prefix) \in Nat /\ Split!TokenCount(prefix \o body) \in Nat
        BY <1>2, <4>1, CountFacts
      <4>3. Split!TokenBudget \in Int
        BY <4>1 DEF Split!TokenBudget
      <4>4. QED
        BY <4>2, <4>3, <3>1
    <3>3. PICK tokens, usable : /\ tokens = IF here > alone THEN here - alone ELSE 1
                                /\ usable = IF Split!TokenBudget > alone THEN Split!TokenBudget - alone ELSE 1
      OBVIOUS
    <3>4. tokens \in Nat \ {0} /\ usable \in Int
      BY <3>2, <3>3
    <3>5. window' = Split!Least(Split!MaxWindow, Split!Greatest(1, (Len(body) * usable) \div tokens))
      BY <2>1, <3>1, <3>3 DEF Split!Emit
    <3>6. QED
      BY <3>4, <3>5, <1>2, NextWindow
  <2>2. CASE ~(limit.tokens > 0)
    BY <2>2, <1>2 DEF Split!Emit
  <2>3. QED
    BY <2>1, <2>2
<1>4. /\ start + Len(body) \in start + 1 .. Len(source)
      /\ Split!Part(SpanOf(start, start + Len(body))) = body
      /\ Split!WithinLimits(prefix \o body)
  BY <1>1, <1>2, BodyIsSpan
<1>5. PICK s, q, w : s = start + Len(body) /\ q = Append(spans, SpanOf(start, s)) /\ w = window'
  OBVIOUS
<1>6. start \in Nat /\ s \in Nat /\ start < s /\ s \in 0 .. Len(source)
  <2>1. Len(source) \in Nat
    BY <1>2, CallFacts
  <2>2. QED
    BY <2>1, <1>2, <1>4, <1>5
<1>7. q \in Seq(Split!Span) /\ Split!Chain(q, s) /\ Len(q) = Len(spans) + 1
  BY <1>2, <1>5, <1>6, ChainGoesOn
<1>8. \A i \in 1 .. Len(q) : Split!WithinLimits(prefix \o Split!Part(q[i]))
  <2>1. /\ \A i \in 1 .. Len(spans) : q[i] = spans[i]
        /\ q[Len(spans) + 1] = SpanOf(start, s) /\ Len(spans) \in Nat
    BY <1>2, <1>5, <1>6, SpanFacts, AppendProperties, LenProperties
  <2>2. Split!WithinLimits(prefix \o Split!Part(SpanOf(start, s)))
    BY <1>4, <1>5
  <2>3. ASSUME NEW i \in 1 .. Len(q) PROVE Split!WithinLimits(prefix \o Split!Part(q[i]))
    <3>1. i \in 1 .. Len(spans) \/ i = Len(spans) + 1
      BY <2>1, <1>7
    <3>2. QED
      BY <3>1, <2>1, <2>2, <1>2
  <2>4. QED
    BY <2>3
<1>9. CutOf("slice", s, w, body, q)
  BY <1>2, <1>3, <1>5, <1>6, <1>7, <1>8 DEF CutOf
<1>10. ResultOf("slice", s, q, merged, pending, following)
  BY <1>1, <1>2, <1>7, InvParts, NothingMerged
<1>11. start' = s /\ spans' = q /\ window' = w
  BY <1>1, <1>5
<1>12. PICK b, r, pe, ne : b = body /\ r = merged /\ pe = pending /\ ne = following
  OBVIOUS
<1>13. QED
  BY <1>1, <1>2, <1>9, <1>10, <1>11, <1>12, InvAgain

LEMMA RefuseKeeps ==
  ASSUME Split!SplitAssumption, Split!IInv, Split!Refuse
  PROVE  Split!IInv'
<1>1. /\ phase = "fit" /\ body = <<>> /\ phase' = "refused" /\ UNCHANGED <<source, prefix, limit>>
      /\ UNCHANGED <<start, window, body, spans, merged, pending, following>>
  BY DEF Split!Refuse, Split!splitting
<1>2. /\ CallOK /\ BodyOf(start, body) /\ CutOf(phase, start, window, body, spans)
      /\ spans \in Seq(Split!Span)
  BY <1>1, InvParts
<1>3. Split!Misfit
  BY <1>1, <1>2 DEF BodyOf
<1>4. CutOf("refused", start, window, body, spans)
  BY <1>2 DEF CutOf
<1>5. ResultOf("refused", start, spans, merged, pending, following)
  BY <1>1, <1>2, <1>3, InvParts, NothingMerged
<1>6. PICK st, w, b, sp, r, pe, ne : /\ st = start /\ w = window /\ b = body /\ sp = spans
                                     /\ r = merged
                                     /\ pe = pending /\ ne = following
  OBVIOUS
<1>7. QED
  BY <1>1, <1>2, <1>4, <1>5, <1>6, InvAgain

LEMMA FinishKeeps ==
  ASSUME Split!SplitAssumption, Split!IInv, Split!Finish
  PROVE  Split!IInv'
<1>1. /\ phase = "slice" /\ start = Len(source) /\ UNCHANGED <<source, prefix, limit>>
      /\ UNCHANGED <<start, window, body, spans, pending, following>>
  BY DEF Split!Finish, Split!splitting
<1>2. /\ CallOK /\ CutOf(phase, start, window, body, spans) /\ spans \in Seq(Split!Span)
      /\ Split!Chain(spans, start)
      /\ \A i \in 1 .. Len(spans) : Split!WithinLimits(prefix \o Split!Part(spans[i]))
      /\ ~Split!NoRoom /\ window \in 1 .. Split!MaxWindow /\ merged = <<>> /\ following = 1
      /\ pending = Len(source)
  BY <1>1, InvParts
<1>3. /\ Len(source) \in Nat /\ Len(source) \in 0 .. Len(source) /\ 0 \in 0 .. Len(source)
      /\ limit.ids \in BOOLEAN
      /\ 1 \in 1 .. Len(spans) + 1
  BY <1>2, CallFacts, LenProperties
<1>4. PICK st, w, b, sp, pe, ne : /\ st = start /\ w = window /\ b = body /\ sp = spans
                                  /\ pe = pending /\ ne = following
  OBVIOUS
<1>5. CASE limit.ids
  <2>1. phase' = "merge" /\ merged' = <<>>
    BY <1>2, <1>5 DEF Split!Finish
  <2>2. CutOf("merge", start, window, body, spans)
    BY <1>1, <1>2 DEF CutOf
  <2>3. <<>> \in Seq(Split!Span) /\ Split!Chain(<<>>, 0) /\ Len(<<>>) = 0
    <3>1. <<>> \in Seq(Split!Span) /\ Len(<<>>) = 0
      BY EmptySeq
    <3>2. QED
      BY <3>1 DEF Split!Chain
  <2>4. MergeOf(start, spans, <<>>, pending, following)
    BY <2>3, <1>1, <1>2, <1>3, <1>5 DEF MergeOf, MergedUpTo
  <2>5. ResultOf("merge", start, spans, <<>>, pending, following)
    BY <2>3, <2>4, <1>2, <1>3 DEF ResultOf
  <2>6. QED
    BY <2>1, <2>2, <2>5, <1>1, <1>2, <1>4, InvAgain
<1>6. CASE ~limit.ids
  <2>1. phase' = "done" /\ merged' = spans
    BY <1>6 DEF Split!Finish
  <2>2. CutOf("done", start, window, body, spans)
    BY <1>1, <1>2 DEF CutOf
  <2>3. \A i \in 1 .. Len(spans) : Split!Valid(prefix \o Split!Part(spans[i]))
    BY <1>2, <1>6 DEF Split!Valid
  <2>4. Split!Chain(spans, Len(source))
    BY <1>1, <1>2
  <2>5. ResultOf("done", start, spans, spans, pending, following)
    BY <2>3, <2>4, <1>2, <1>3 DEF ResultOf
  <2>6. merged' = sp /\ ResultOf("done", st, sp, sp, pe, ne)
    BY <2>1, <2>5, <1>4
  <2>7. QED
    BY <2>1, <2>2, <2>6, <1>1, <1>2, <1>4, InvAgain
<1>7. QED
  BY <1>5, <1>6

LEMMA WaitKeeps ==
  ASSUME Split!SplitAssumption, Split!IInv, Split!Wait
  PROVE  Split!IInv'
<1>1. /\ phase = "merge" /\ following <= Len(spans) /\ Split!Tokenless(spans[following])
      /\ UNCHANGED <<source, prefix, limit>>
      /\ UNCHANGED <<phase, start, window, body, spans, merged>>
  BY DEF Split!Wait, Split!splitting
<1>2. /\ CallOK /\ CutOf("merge", start, window, body, spans)
      /\ ResultOf("merge", start, spans, merged, pending, following)
  BY <1>1, InvParts
<1>3. ResultOf("merge", start, spans, merged, Split!Least(pending, spans[following].start),
        following + 1)
  BY <1>1, <1>2, Waits
<1>4. PICK st, w, b, sp, r, pe, ne : /\ st = start /\ w = window /\ b = body /\ sp = spans
                                     /\ r = merged
                                     /\ pe = Split!Least(pending, spans[following].start)
                                     /\ ne = following + 1
  OBVIOUS
<1>5. pending' = pe /\ following' = ne /\ phase' = "merge"
  BY <1>1, <1>4 DEF Split!Wait
<1>6. QED
  BY <1>1, <1>2, <1>3, <1>4, <1>5, InvAgain

LEMMA ResolveKeeps ==
  ASSUME Split!SplitAssumption, Split!IInv, Split!Resolve
  PROVE  Split!IInv'
<1>1. /\ phase = "merge" /\ following <= Len(spans) /\ ~Split!Tokenless(spans[following])
      /\ UNCHANGED <<source, prefix, limit>>
      /\ UNCHANGED <<start, window, body, spans>> /\ pending' = Len(source)
      /\ following' = following + 1
  BY DEF Split!Resolve, Split!splitting
<1>2. /\ CallOK /\ CutOf("merge", start, window, body, spans)
      /\ ResultOf("merge", start, spans, merged, pending, following)
  BY <1>1, InvParts
<1>3. PICK s, e : s = spans[following].start /\ e = spans[following].end
  OBVIOUS
<1>4. PICK to : to = IF pending < Len(source) THEN Split!MergePrevious(s) ELSE 0
  OBVIOUS
<1>5. PICK from : from = IF pending = Len(source) THEN s ELSE IF to > 0 THEN to ELSE pending
  OBVIOUS
<1>6. IF from = s \/ Split!Valid(prefix \o Split!Slice(source, from, e))
      THEN ResultOf("merge", start, spans, Append(Split!Extended(to), [start |-> from, end |-> e]),
             Len(source), following + 1)
      ELSE ResultOf("refused", start, spans, merged, Len(source), following + 1)
  BY <1>1, <1>2, <1>3, <1>4, <1>5, Resolves
<1>7. IF from = s \/ Split!Valid(prefix \o Split!Slice(source, from, e))
      THEN merged' = Append(Split!Extended(to), [start |-> from, end |-> e]) /\ UNCHANGED phase
      ELSE phase' = "refused" /\ UNCHANGED merged
  BY <1>3, <1>4, <1>5 DEF Split!Resolve
<1>8. PICK st, w, b, sp, r, pe, ne : /\ st = start /\ w = window /\ b = body /\ sp = spans
                                     /\ r = merged'
                                     /\ pe = Len(source) /\ ne = following + 1
  OBVIOUS
<1>9. pending' = pe /\ following' = ne /\ merged' = r
  BY <1>1, <1>8
<1>10. CASE from = s \/ Split!Valid(prefix \o Split!Slice(source, from, e))
  <2>1. phase' = "merge" /\ ResultOf("merge", st, sp, r, pe, ne)
    BY <1>1, <1>6, <1>7, <1>8, <1>10
  <2>2. CutOf("merge", st, w, b, sp)
    BY <1>2, <1>8
  <2>3. QED
    BY <2>1, <2>2, <1>1, <1>2, <1>8, <1>9, InvAgain
<1>11. CASE ~(from = s \/ Split!Valid(prefix \o Split!Slice(source, from, e)))
  <2>1. phase' = "refused" /\ ResultOf("refused", st, sp, r, pe, ne)
    BY <1>6, <1>7, <1>8, <1>11
  <2>2. CutOf("refused", st, w, b, sp)
    BY <1>2, <1>8 DEF CutOf
  <2>3. QED
    BY <2>1, <2>2, <1>1, <1>2, <1>8, <1>9, InvAgain
<1>12. QED
  BY <1>10, <1>11

LEMMA FinishMergeKeeps ==
  ASSUME Split!SplitAssumption, Split!IInv, Split!FinishMerge
  PROVE  Split!IInv'
<1>1. /\ phase = "merge" /\ following > Len(spans) /\ UNCHANGED <<source, prefix, limit>>
      /\ UNCHANGED <<start, window, body, spans, pending, following>>
  BY DEF Split!FinishMerge, Split!splitting
<1>2. /\ CallOK /\ CutOf("merge", start, window, body, spans)
      /\ ResultOf("merge", start, spans, merged, pending, following)
  BY <1>1, InvParts
<1>3. PICK to : to = Split!MergePrevious(Len(source))
  OBVIOUS
<1>4. IF pending = Len(source) THEN ResultOf("done", start, spans, merged, pending, following)
      ELSE IF to = Len(source)
           THEN ResultOf("done", start, spans, Split!Extended(to), pending, following)
      ELSE ResultOf("refused", start, spans, merged, pending, following)
  BY <1>1, <1>2, <1>3, Finishes
<1>5. IF pending = Len(source) THEN phase' = "done" /\ UNCHANGED merged
      ELSE IF to = Len(source) THEN phase' = "done" /\ merged' = Split!Extended(to)
      ELSE phase' = "refused" /\ UNCHANGED merged
  BY <1>3 DEF Split!FinishMerge
<1>6. PICK st, w, b, sp, r, pe, ne : /\ st = start /\ w = window /\ b = body /\ sp = spans
                                     /\ r = merged'
                                     /\ pe = pending /\ ne = following
  OBVIOUS
<1>7. \E p \in {"done", "refused"} : phase' = p /\ ResultOf(p, st, sp, r, pe, ne)
  BY <1>4, <1>5, <1>6
<1>8. PICK p \in {"done", "refused"} : phase' = p /\ ResultOf(p, st, sp, r, pe, ne)
  BY <1>7
<1>9. CutOf(p, st, w, b, sp)
  BY <1>2, <1>6 DEF CutOf
<1>10. QED
  BY <1>1, <1>2, <1>6, <1>8, <1>9, InvAgain

LEMMA SplitStep ==
  ASSUME Split!SplitAssumption, Split!IInv, [Split!Next]_Split!vars
  PROVE  Split!IInv'
<1>1. CASE Split!CutWindow
  BY <1>1, CutWindowKeeps
<1>2. CASE Split!Shrink
  BY <1>2, ShrinkKeeps
<1>3. CASE Split!Emit
  BY <1>3, EmitKeeps
<1>4. CASE Split!Refuse
  BY <1>4, RefuseKeeps
<1>5. CASE Split!Finish
  BY <1>5, FinishKeeps
<1>6. CASE Split!Wait
  BY <1>6, WaitKeeps
<1>7. CASE Split!Resolve
  BY <1>7, ResolveKeeps
<1>8. CASE Split!FinishMerge
  BY <1>8, FinishMergeKeeps
<1>9. CASE UNCHANGED Split!vars
  <2>1. /\ CallOK /\ CutOf(phase, start, window, body, spans)
        /\ ResultOf(phase, start, spans, merged, pending, following)
    BY InvParts
  <2>2. PICK p, st, w, b, sp, r, pe, ne : /\ p = phase /\ st = start /\ w = window /\ b = body
                                          /\ sp = spans
                                          /\ r = merged /\ pe = pending /\ ne = following
    OBVIOUS
  <2>3. QED
    BY <1>9, <2>1, <2>2, InvAgain DEF Split!vars
<1>10. QED
  BY <1>1, <1>2, <1>3, <1>4, <1>5, <1>6, <1>7, <1>8, <1>9 DEF Split!Next

LEMMA SpansFit ==
  ASSUME Split!SplitAssumption, Split!IInv
  PROVE  Split!TypeOK /\ Split!Partition /\ Split!EveryInputFits /\ Split!OnlyMisfitsAreRefused
<1>1. /\ CallOK /\ ResultOf(phase, start, spans, merged, pending, following)
      /\ start \in 0 .. Len(source) /\ body \in Seq(Char) /\ spans \in Seq(Split!Span)
      /\ phase # "refused" => ~Split!NoRoom /\ window \in 1 .. Split!MaxWindow
      /\ Split!Chain(spans, start) /\ Len(source) \in Nat
      /\ phase \in {"slice", "fit", "merge", "done", "refused"}
  <2>1. CallOK /\ CutOf(phase, start, window, body, spans)
    BY InvParts
  <2>2. QED
    BY <2>1, InvParts, CallFacts DEF CutOf
<1>2. /\ merged \in Seq(Split!Span) /\ pending \in 0 .. Len(source)
      /\ following \in 1 .. Len(spans) + 1
      /\ phase = "done" => Split!Chain(merged, Len(source))
      /\ phase = "done" => \A i \in 1 .. Len(merged) : Split!Valid(prefix \o Split!Part(merged[i]))
      /\ phase = "refused" => Split!Misfit
  BY <1>1 DEF ResultOf
<1>3. PICK a \in 0 .. Len(source) : Split!Chain(merged, a)
  BY <1>1 DEF ResultOf
<1>4. DOMAIN spans = 1 .. Len(spans) /\ DOMAIN merged = 1 .. Len(merged)
  BY <1>1, <1>2, LenProperties
<1>5. ASSUME NEW q \in Seq(Split!Span), NEW x \in 0 .. Len(source), Split!Chain(q, x),
             NEW s \in Split!ToSet(q)
      PROVE  s.start < s.end /\ s.end <= Len(source)
  <2>1. PICK i \in 1 .. Len(q) : s = q[i]
    BY LenProperties DEF Split!ToSet
  <2>2. q[i].start < q[i].end /\ q[i].end <= x
    BY <1>5 DEF Split!Chain
  <2>3. q[i].end \in Nat
    BY ElementsAreSpans
  <2>4. QED
    BY <2>1, <2>2, <2>3, <1>1
<1>6. Split!TypeOK
  <2>1. \A s \in Split!ToSet(spans) \cup Split!ToSet(merged) : s.start < s.end /\ s.end <= Len(source)
    BY <1>1, <1>2, <1>3, <1>5
  <2>2. QED
    BY <2>1, <1>1, <1>2 DEF Split!TypeOK
<1>7. Split!Partition
  <2>1. ASSUME phase = "done"
        PROVE  /\ Split!FlattenSeq([i \in DOMAIN merged |->
                    Split!Slice(source, merged[i].start, merged[i].end)]) = source
               /\ \A i \in 1 .. Len(merged) - 1 : merged[i].end = merged[i + 1].start
    <3>1. Split!Chain(merged, Len(source))
      BY <2>1, <1>2
    <3>2. QED
      BY <3>1, <1>1, <1>2, ChainIsText DEF Split!Chain
  <2>2. QED
    BY <2>1 DEF Split!Partition
<1>8. Split!EveryInputFits
  <2>1. ASSUME phase = "done", NEW s \in Split!ToSet(merged)
        PROVE  Split!Valid(prefix \o Split!Slice(source, s.start, s.end))
    <3>1. PICK i \in 1 .. Len(merged) : s = merged[i]
      BY <1>4 DEF Split!ToSet
    <3>2. QED
      BY <3>1, <2>1, <1>2 DEF Split!Part
  <2>2. QED
    BY <2>1 DEF Split!EveryInputFits
<1>9. Split!OnlyMisfitsAreRefused
  BY <1>2 DEF Split!OnlyMisfitsAreRefused
<1>10. QED
  BY <1>6, <1>7, <1>8, <1>9

(* For any characters, prefixes, limits and tokens of single characters    *)
(* and pairs: the spans that split_text returns are the complete text, one *)
(* after the other, each fits the limits together with the prefix and has  *)
(* a token if token ids are sent, and a text that is refused has a         *)
(* character that cannot be embedded alone.                                *)
THEOREM SplitSafety ==
  ASSUME Split!SplitAssumption
  PROVE  Split!Spec => []SplitsFit
<1>1. Split!Init => Split!IInv
  BY SplitBegins
<1>2. Split!IInv /\ [Split!Next]_Split!vars => Split!IInv'
  BY SplitStep
<1>3. Split!IInv => SplitsFit
  BY SpansFit DEF SplitsFit
<1>4. QED
  BY <1>1, <1>2, <1>3, PTL DEF Split!Spec
=============================================================================
