------------------------------ MODULE FileLock ------------------------------
(***************************************************************************)
(* file_lock and async_file_lock of utils/locking.py: tasks of several     *)
(* processes lock one name, exclusively or shared, with a timeout, while   *)
(* processes fork and die.                                                 *)
(*                                                                         *)
(* A flock belongs to an open file description, named after the task that  *)
(* opened it; fork shares descriptions, and the last close drops a lock.   *)
(* The sections under _fork_condition are single steps; _before_fork gives *)
(* it up while it waits and holds it from then on until the fork is done.  *)
(* The threads of the parent and the coroutines of its loop do not run in  *)
(* a child; a child has tasks of its own.                                  *)
(***************************************************************************)
EXTENDS Naturals, FiniteSets

CONSTANTS Proc, Task,
          HomeOf,       \* the process that runs a task
          Shared,       \* tasks that ask for a shared lock
          Async,        \* tasks of async_file_lock, which can be cancelled
          First,        \* the processes that run from the beginning
          MaxInode      \* bound: inodes that the name of the lock file has had

FileLockAssumption ==
  /\ HomeOf \in [Task -> Proc]
  /\ Shared \subseteq Task /\ Async \subseteq Task /\ First \subseteq Proc
  /\ MaxInode \in Nat \ {0}

VARIABLES
  life,        \* unborn, booting (in _after_fork_child), alive or dead
  fork,        \* _fork_state.forking: no, waiting for the opens, or forking
  opens,       \* _fork_state.active_opens, as the tasks that it counts
  registered,  \* _held_lock_fds of each process, as tasks
  name,        \* the inode that the path names
  inode,       \* the inode that a description is of
  refs,        \* the processes that have a descriptor of it
  locked,      \* it holds the flock
  pc,          \* where each call stands
  acquired, cancelled    \* locals of the call, and its put-off cancellation

kernel == <<name, inode, refs, locked>>
forks == <<life, fork, opens, registered>>
vars == <<forks, kernel, pc, acquired, cancelled>>

Owning == {"try", "sleep", "hold", "close"}        \* its descriptor is registered
Place == {"idle", "gate", "open", "register", "over"} \cup Owning

Init ==
  /\ life = [p \in Proc |-> IF p \in First THEN "alive" ELSE "unborn"]
  /\ fork = [p \in Proc |-> "no"]
  /\ opens = [p \in Proc |-> {}] /\ registered = [p \in Proc |-> {}]
  /\ name = 1
  /\ inode = [t \in Task |-> 1] /\ refs = [t \in Task |-> {}]
  /\ locked = [t \in Task |-> FALSE]
  /\ pc = [t \in Task |-> "idle"]
  /\ acquired = [t \in Task |-> FALSE] /\ cancelled = [t \in Task |-> FALSE]

Runs(t) == life[HomeOf[t]] = "alive"
At(t, p) == Runs(t) /\ pc[t] = p
Goto(t, p) == pc' = [pc EXCEPT ![t] = p]

\* _fork_condition can be taken.
Free(p) == fork[p] # "forking"

\* Process p closes the descriptors of ts; the last close drops the lock.
Closed(p, ts) ==
  /\ refs' = [t \in Task |-> IF t \in ts THEN refs[t] \ {p} ELSE refs[t]]
  /\ locked' = [t \in Task |-> locked[t] /\ refs'[t] # {}]

-----------------------------------------------------------------------------
Call(t) ==
  /\ At(t, "idle") /\ refs[t] = {}
  /\ Goto(t, "gate")
  /\ UNCHANGED <<forks, kernel, acquired, cancelled>>

\* Mutant of EnterOpen: an open is counted, but does not wait for a fork.
EnterOpenAnyway(t) ==
  /\ At(t, "gate") /\ Free(HomeOf[t])
  /\ opens' = [opens EXCEPT ![HomeOf[t]] = @ \cup {t}]
  /\ Goto(t, "open")
  /\ UNCHANGED <<life, fork, registered, kernel, acquired, cancelled>>

(* _open_lock_fd waits while a fork is pending, then counts itself.        *)
EnterOpen(t) ==
  /\ At(t, "gate") /\ fork[HomeOf[t]] = "no"
  /\ opens' = [opens EXCEPT ![HomeOf[t]] = @ \cup {t}]
  /\ Goto(t, "open")
  /\ UNCHANGED <<life, fork, registered, kernel, acquired, cancelled>>

Open(t) ==
  /\ At(t, "open")
  /\ \/ /\ refs' = [refs EXCEPT ![t] = {HomeOf[t]}]
        /\ inode' = [inode EXCEPT ![t] = name]
     \/ UNCHANGED <<refs, inode>>
  /\ Goto(t, "register")
  /\ UNCHANGED <<forks, name, locked, acquired, cancelled>>

\* Mutant of LeaveOpen: an open that fails is counted for ever.
LeaveOpenOnSuccess(t) ==
  LET p == HomeOf[t] IN
  /\ At(t, "register") /\ Free(p)
  /\ opens' = [opens EXCEPT ![p] = IF refs[t] = {} THEN @ ELSE @ \ {t}]
  /\ IF refs[t] = {} THEN Goto(t, "over") /\ UNCHANGED registered
     ELSE /\ registered' = [registered EXCEPT ![p] = @ \cup {t}]
          /\ Goto(t, IF cancelled[t] THEN "close" ELSE "try")
  /\ UNCHANGED <<life, fork, kernel, acquired, cancelled>>

(* The finally of _open_lock_fd.  A call whose open failed is over; one    *)
(* that was cancelled in the meantime closes what it got.                  *)
LeaveOpen(t) ==
  LET p == HomeOf[t] IN
  /\ At(t, "register") /\ Free(p)
  /\ opens' = [opens EXCEPT ![p] = @ \ {t}]
  /\ IF refs[t] = {} THEN Goto(t, "over") /\ UNCHANGED registered
     ELSE /\ registered' = [registered EXCEPT ![p] = @ \cup {t}]
          /\ Goto(t, IF cancelled[t] THEN "close" ELSE "try")
  /\ UNCHANGED <<life, fork, kernel, acquired, cancelled>>

\* flock: another description of the same file stands in the way.
Blocked(t) ==
  \E u \in Task \ {t} : locked[u] /\ inode[u] = inode[t] /\ ~({t, u} \subseteq Shared)

(* One attempt, by the worker thread of _try_lock or by file_lock itself.  *)
(* A cancellation that came while it ran is raised with what it got.       *)
Try(t) ==
  /\ At(t, "try")
  /\ IF Blocked(t)
     THEN /\ Goto(t, IF cancelled[t] THEN "close" ELSE "sleep")
          /\ UNCHANGED <<locked, acquired>>
     ELSE /\ locked' = [locked EXCEPT ![t] = TRUE]
          /\ acquired' = [acquired EXCEPT ![t] = TRUE]
          /\ Goto(t, IF cancelled[t] THEN "close" ELSE "hold")
  /\ UNCHANGED <<forks, name, inode, refs, cancelled>>

\* An attempt that fails when the time is up.
Timeout(t) ==
  /\ At(t, "try") /\ Blocked(t)
  /\ Goto(t, "close")
  /\ UNCHANGED <<forks, kernel, acquired, cancelled>>

Wake(t) ==
  /\ At(t, "sleep")
  /\ Goto(t, "try")
  /\ UNCHANGED <<forks, kernel, acquired, cancelled>>

Leave(t) ==
  /\ At(t, "hold")
  /\ Goto(t, "close")
  /\ UNCHANGED <<forks, kernel, acquired, cancelled>>

\* Mutant of Cancel: a worker that runs is left alone with the descriptor.
CancelNow(t) ==
  /\ t \in Async /\ Runs(t) /\ pc[t] \in {"gate", "open", "register", "try", "sleep", "hold"}
  /\ ~cancelled[t]
  /\ IF pc[t] \in {"sleep", "hold"} THEN Goto(t, "close") /\ UNCHANGED cancelled
     ELSE Goto(t, "over") /\ UNCHANGED cancelled
  /\ UNCHANGED <<forks, kernel, acquired>>

(* _run_worker_uninterrupted puts a cancellation off until its worker,     *)
(* which opens or locks the file, is done.                                 *)
Cancel(t) ==
  /\ t \in Async /\ Runs(t) /\ pc[t] \in {"gate", "open", "register", "try", "sleep", "hold"}
  /\ ~cancelled[t]
  /\ IF pc[t] \in {"sleep", "hold"} THEN Goto(t, "close") /\ UNCHANGED cancelled
     ELSE cancelled' = [cancelled EXCEPT ![t] = TRUE] /\ UNCHANGED pc
  /\ UNCHANGED <<forks, kernel, acquired>>

\* Mutant of Close: the descriptor is closed, and the lock left to the kernel.
CloseOnly(t) ==
  LET p == HomeOf[t] IN
  /\ At(t, "close") /\ Free(p)
  /\ Closed(p, {t})
  /\ registered' = [registered EXCEPT ![p] = @ \ {t}]
  /\ Goto(t, "over")
  /\ UNCHANGED <<life, fork, opens, name, inode, acquired, cancelled>>

(* _close_owned_lock: LOCK_UN drops the lock for a child that shares it.   *)
Close(t) ==
  LET p == HomeOf[t] IN
  /\ At(t, "close") /\ Free(p)
  /\ refs' = [refs EXCEPT ![t] = @ \ {p}]
  /\ locked' = [locked EXCEPT ![t] = @ /\ ~acquired[t] /\ refs'[t] # {}]
  /\ registered' = [registered EXCEPT ![p] = @ \ {t}]
  /\ Goto(t, "over")
  /\ UNCHANGED <<life, fork, opens, name, inode, acquired, cancelled>>

\* The call has returned or raised; the task may make another one.
Return(t) ==
  /\ At(t, "over")
  /\ Goto(t, "idle")
  /\ acquired' = [acquired EXCEPT ![t] = FALSE]
  /\ cancelled' = [cancelled EXCEPT ![t] = FALSE]
  /\ UNCHANGED <<forks, kernel>>

\* Mutant of Sweep: a lock file that nobody seems to lock is deleted.
SweepUnlocked ==
  /\ \A t \in Task : ~(locked[t] /\ inode[t] = name)
  /\ name < MaxInode /\ name' = name + 1
  /\ UNCHANGED <<forks, inode, refs, locked, pc, acquired, cancelled>>

\* _break_stale_lock, cleanup and cleanup_stale_locks keep the file.
Sweep == name' = name /\ UNCHANGED <<forks, inode, refs, locked, pc, acquired, cancelled>>

-----------------------------------------------------------------------------
(* _before_fork announces the fork, and goes on when no open is under way. *)
BeforeFork(p) ==
  /\ life[p] = "alive" /\ fork[p] = "no"
  /\ \E q \in Proc : life[q] = "unborn"
  /\ fork' = [fork EXCEPT ![p] = IF opens[p] = {} THEN "forking" ELSE "waiting"]
  /\ UNCHANGED <<life, opens, registered, kernel, pc, acquired, cancelled>>

OpensDone(p) ==
  /\ life[p] = "alive" /\ fork[p] = "waiting" /\ opens[p] = {}
  /\ fork' = [fork EXCEPT ![p] = "forking"]
  /\ UNCHANGED <<life, opens, registered, kernel, pc, acquired, cancelled>>

(* The fork, and _after_fork_parent.  The child's hook is a step of its    *)
(* own.                                                                    *)
Fork(p, q) ==
  /\ life[p] = "alive" /\ fork[p] = "forking" /\ life[q] = "unborn"
  /\ life' = [life EXCEPT ![q] = "booting"]
  /\ fork' = [fork EXCEPT ![p] = "no"]
  /\ refs' = [t \in Task |-> IF p \in refs[t] THEN refs[t] \cup {q} ELSE refs[t]]
  /\ registered' = [registered EXCEPT ![q] = registered[p]]
  /\ UNCHANGED <<opens, name, inode, locked, pc, acquired, cancelled>>

\* No child is left to create.
ForkFails(p) ==
  /\ life[p] = "alive" /\ fork[p] # "no" /\ \A q \in Proc : life[q] # "unborn"
  /\ fork' = [fork EXCEPT ![p] = "no"]
  /\ UNCHANGED <<life, opens, registered, kernel, pc, acquired, cancelled>>

(* _after_fork_child closes the registered duplicates, without LOCK_UN.    *)
AfterForkChild(q) ==
  /\ life[q] = "booting"
  /\ Closed(q, registered[q])
  /\ registered' = [registered EXCEPT ![q] = {}]
  /\ life' = [life EXCEPT ![q] = "alive"]
  /\ UNCHANGED <<fork, opens, name, inode, pc, acquired, cancelled>>

Die(p) ==
  /\ life[p] \in {"booting", "alive"}
  /\ life' = [life EXCEPT ![p] = "dead"]
  /\ fork' = [fork EXCEPT ![p] = "no"]
  /\ opens' = [opens EXCEPT ![p] = {}] /\ registered' = [registered EXCEPT ![p] = {}]
  /\ Closed(p, Task)
  /\ UNCHANGED <<name, inode, pc, acquired, cancelled>>

Step(t) ==
  \/ EnterOpen(t) \/ Open(t) \/ LeaveOpen(t) \/ Try(t) \/ Timeout(t) \/ Wake(t)
  \/ Leave(t) \/ Close(t) \/ Return(t)

Next ==
  \/ \E t \in Task : Call(t) \/ Step(t) \/ Cancel(t)
  \/ \E p \in Proc :
       \/ BeforeFork(p) \/ OpensDone(p) \/ ForkFails(p) \/ AfterForkChild(p) \/ Die(p)
       \/ \E q \in Proc : Fork(p, q)
  \/ Sweep

(* Threads and event loops run, bodies end, and attempts that fail again   *)
(* and again run out of time; forks go on when they can.                   *)
Fairness ==
  /\ \A t \in Task : WF_vars(Step(t)) /\ SF_vars(Timeout(t))
  /\ \A p \in Proc :
       WF_vars(OpensDone(p)) /\ WF_vars(\E q \in Proc : Fork(p, q)) /\ WF_vars(ForkFails(p))
         /\ WF_vars(AfterForkChild(p))

Spec == Init /\ [][Next]_vars
FairSpec == Spec /\ Fairness

-----------------------------------------------------------------------------
(* Locks, descriptors and calls are well formed; active_opens counts the   *)
(* opens that are under way, no more.                                      *)
TypeOK ==
  /\ life \in [Proc -> {"unborn", "booting", "alive", "dead"}]
  /\ fork \in [Proc -> {"no", "waiting", "forking"}]
  /\ opens \in [Proc -> SUBSET Task] /\ registered \in [Proc -> SUBSET Task]
  /\ name \in 1 .. MaxInode /\ inode \in [Task -> 1 .. MaxInode]
  /\ refs \in [Task -> SUBSET Proc] /\ locked \in [Task -> BOOLEAN]
  /\ pc \in [Task -> Place]
  /\ acquired \in [Task -> BOOLEAN] /\ cancelled \in [Task -> BOOLEAN]
  /\ \A t \in Task : locked[t] => refs[t] # {}
  /\ \A p \in Proc : \A t \in opens[p] : pc[t] \in {"open", "register"}

(* "Exclusive access": no two tasks, of one process or of several, are in  *)
(* the bodies of conflicting locks of one name, whoever forks, dies, or    *)
(* sweeps lock files in the meantime.                                      *)
Exclusion ==
  \A t, u \in Task : At(t, "hold") /\ At(u, "hold") /\ t # u => {t, u} \subseteq Shared

(* Nothing is left behind: a descriptor is open in the process whose call  *)
(* it belongs to, while that call runs, and elsewhere only in a child that *)
(* has not run its hook; so a lock ends with its call or its process.      *)
NothingLeftBehind ==
  \A t \in Task, p \in Proc : p \in refs[t] =>
    IF p = HomeOf[t] THEN pc[t] \in {"register"} \cup Owning
    ELSE life[p] = "booting"

(* A call that has ended does not keep its lock through a child that was   *)
(* forked while it held it (_close_owned_lock unlocks before it closes).   *)
ReleasedAtOnce == \A t \in Task : pc[t] \in {"idle", "over"} /\ Runs(t) => ~locked[t]

(* No two tasks, of one process or of several, are in the bodies of        *)
(* conflicting locks of one name, and a call that has ended, however it    *)
(* did, keeps no descriptor and no lock, not even through a child.         *)
FileLocksHold == TypeOK /\ Exclusion /\ NothingLeftBehind /\ ReleasedAtOnce

(* Every call comes to an end: forks that are announced again and again,   *)
(* waiting locks and cancellations do not keep it for ever.                *)
CallsEnd == \A t \in Task : At(t, "gate") ~> pc[t] = "over" \/ ~Runs(t)

(* A fork that waits for opens gets its turn, however many follow.         *)
ForksGoOn == \A p \in Proc : fork[p] = "waiting" ~> fork[p] # "waiting"

-----------------------------------------------------------------------------
\* What the proofs need besides.

\* The file is never replaced, and flock admits what is compatible.
FlockInv ==
  /\ name = 1 /\ \A t \in Task : inode[t] = 1
  /\ \A t, u \in Task : locked[t] /\ locked[u] /\ t # u => {t, u} \subseteq Shared

\* A fork finds every descriptor of its process registered, and so does the hook of the child.
ForkInv ==
  /\ \A p \in Proc :
       /\ fork[p] = "forking" => opens[p] = {}
       /\ \A t \in opens[p] : HomeOf[t] = p
  /\ \A t \in Task, p \in Proc : p \in refs[t] =>
       IF p = HomeOf[t] THEN Runs(t) /\ t \in opens[p] \cup registered[p]
       ELSE t \in registered[p]

\* A call opens, registers and locks its descriptor in this order.
CallOK(t) ==
  /\ life[HomeOf[t]] \in {"unborn", "booting"} => pc[t] = "idle" /\ refs[t] = {}
  /\ Runs(t) =>
       /\ pc[t] \in {"gate", "open"} => refs[t] = {}
       /\ pc[t] \in {"open", "register"} => t \in opens[HomeOf[t]]
       /\ pc[t] = "register" => refs[t] = {} \/ HomeOf[t] \in refs[t]
       /\ pc[t] \in Owning => HomeOf[t] \in refs[t]
       /\ pc[t] = "hold" => locked[t]
       /\ locked[t] => acquired[t] /\ pc[t] \in {"hold", "close"}

IInv == TypeOK /\ FlockInv /\ ForkInv /\ NothingLeftBehind /\ \A t \in Task : CallOK(t)
=============================================================================
