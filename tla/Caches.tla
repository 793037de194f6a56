------------------------------- MODULE Caches -------------------------------
(***************************************************************************)
(* The caches of a process and its singletons: the vocabulary caches, and  *)
(* beside them, each with state of its own, the in-memory cache and the    *)
(* singletons of threads and of tasks.                                     *)
(***************************************************************************)
EXTENDS VocabCache

CONSTANTS Key, MaxSize, Batch, Lifetime, Prefix, LastTime
VARIABLES data, clock, served, used, later

Memory == INSTANCE TTLCache WITH Ttl <- Lifetime, MaxTime <- LastTime

CONSTANTS Caller, Instance
VARIABLES instance, mutex, phase, seen, given, dropped

Threads == INSTANCE SyncSingleton
  WITH Thread <- Caller, lock <- mutex, pc <- phase, got <- given

CONSTANTS Task, LoopOf, Product, MaxRetries, Delay
VARIABLES single, error, age, holder, stage, attempt, got, healthy, unclosed

Tasks == INSTANCE AsyncSingleton
  WITH Instance <- Product, instance <- single, pc <- stage, open <- unclosed

-----------------------------------------------------------------------------
(* The in-memory cache is never larger than max_size, evicts what was      *)
(* inserted or read longest ago, whatever is set again meanwhile, and      *)
(* returns nothing that was not set or read within the time to live.       *)
MemoryIsInOrder ==
  /\ [](Memory!TypeOK /\ Memory!WithinSize /\ Memory!UnreadAtFront)
  /\ Memory!ServedInTime

(* All threads get the same instance until it is reset, and never none.    *)
ThreadsShareOne == Threads!ThreadsShareOne

(* All tasks of an event loop get the same instance until it is closed, at *)
(* most one was made and not cleaned up, and while an error is recent no   *)
(* factory is started.                                                     *)
TasksShareOne == Tasks!TasksShareOne
=============================================================================
