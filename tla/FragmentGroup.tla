--------------------------- MODULE FragmentGroup ---------------------------
(***************************************************************************)
(* upsert_fragment_group of storage/embedding_fragments.py and             *)
(* replace_fragment_group of storage/fragment_recovery.py: writers replace *)
(* the points of one source under the caller's lock.  A recovery journal   *)
(* is saved first, a failure is compensated by writing the previous points *)
(* back, and a compensation that fails as well leaves the journal.         *)
(*                                                                         *)
(* One source and its ids are modelled; a point's payload and vectors are  *)
(* the version they were made from.  The caller's lock is flock's, which a *)
(* dead process gives up.  The Qdrant server executes the requests of a    *)
(* collection in the order it got them (WriteOrdering.STRONG): one that    *)
(* the client gave up, or whose client died, still takes its turn.         *)
(***************************************************************************)
EXTENDS Sequences, Naturals

CONSTANTS Writer,      \* calls of upsert_fragment_group
          Id,          \* point ids
          Version,     \* contents of the source
          IdsOf,       \* the ids of a version's points: the canonical one, its fragments
          Writes,      \* the version that a writer stores
          Initial,     \* the versions that may be stored in the beginning
          Absent,      \* no point is stored under an id
          Keep,        \* a request leaves an id alone
          NoWriter     \* nobody has the lock

ASSUME FragmentAssumption ==
  /\ IdsOf \in [Version -> SUBSET Id]
  /\ Writes \in [Writer -> Version]
  /\ \A w \in Writer : IdsOf[Writes[w]] # {}
  /\ Initial \subseteq Version
  /\ Absent \notin Version /\ Keep \notin Version /\ Absent # Keep
  /\ NoWriter \notin Writer

Cell == Version \cup {Absent}
Request == [Id -> Cell \cup {Keep}]    \* what a request writes and deletes
Nothing == [i \in Id |-> Keep]

VARIABLES
  store,      \* the collection
  late,       \* requests that nobody waits for and the server has not executed
  lock,       \* the writer in the caller's critical section
  pc,         \* where each writer stands
  previous,   \* the points that upsert_fragment_group found
  todo,       \* the ids that the current series of requests has not answered for
  request,    \* the request a writer waits for
  cancelled,  \* a CancelledError that _settle has put off
  journal,    \* the file _save_journal makes; it holds `previous`
  outcome,    \* how the call ended for its caller
  told,       \* on_commit has run
  committed,  \* history: the version whose on_commit ran last
  orderly     \* history: no late request was left when `previous` was read

vars == <<store, late, lock, pc, previous, todo, request, cancelled, journal,
          outcome, told, committed, orderly>>

Replacing == {"upsert", "prune"}
Compensating == {"restore", "retract"}
Places == {"idle", "read", "open", "save", "abandon", "forget", "cleanup", "done"}
            \cup Replacing \cup Compensating

\* The collection when version v and nothing else is stored.
Group(v) == [i \in Id |-> IF i \in IdsOf[v] THEN v ELSE Absent]

PreviousIds(w) == {i \in Id : previous[w][i] # Absent}
NewIds(w) == IdsOf[Writes[w]]

\* Mutant of Executed: the ids that a request leaves alone are not skipped.
ExecutedOnAll(r, part) == [i \in Id |-> IF i \in part THEN r[i] ELSE store[i]]

\* The requested change of the ids in `part` takes effect.
Executed(r, part) ==
  [i \in Id |-> IF i \in part /\ r[i] # Keep THEN r[i] ELSE store[i]]

Init ==
  /\ committed \in Initial
  /\ store = Group(committed)
  /\ late = <<>>
  /\ lock = NoWriter
  /\ pc = [w \in Writer |-> "idle"]
  /\ previous = [w \in Writer |-> [i \in Id |-> Absent]]
  /\ todo = [w \in Writer |-> {}]
  /\ request = [w \in Writer |-> Nothing]
  /\ cancelled = [w \in Writer |-> FALSE]
  /\ journal = [w \in Writer |-> "none"]
  /\ outcome = [w \in Writer |-> "none"]
  /\ told = [w \in Writer |-> FALSE]
  /\ orderly = [w \in Writer |-> FALSE]

Goto(w, place) == pc' = [pc EXCEPT ![w] = place]

\* The call returns or raises and the caller leaves its critical section.
End(w, result) ==
  /\ Goto(w, "done")
  /\ outcome' = [outcome EXCEPT ![w] = result]
  /\ lock' = NoWriter

-----------------------------------------------------------------------------
Acquire(w) ==
  /\ pc[w] = "idle"
  /\ lock = NoWriter
  /\ lock' = w
  /\ Goto(w, "read")
  /\ UNCHANGED <<store, late, previous, todo, request, cancelled, journal, outcome,
                 told, committed, orderly>>

(* retrieve and scroll find every point of the source.                     *)
CollectPrevious(w) ==
  /\ pc[w] = "read"
  /\ previous' = [previous EXCEPT ![w] = store]
  /\ orderly' = [orderly EXCEPT ![w] = late = <<>>]
  /\ Goto(w, "open")
  /\ UNCHANGED <<store, late, lock, todo, request, cancelled, journal, outcome, told,
                 committed>>

(* A read fails, an id collides (ValueError) or the call is cancelled.     *)
ReadError(w) ==
  /\ pc[w] = "read"
  /\ End(w, "raised")
  /\ UNCHANGED <<store, late, previous, todo, request, cancelled, journal, told,
                 committed, orderly>>

\* Mutant of OpenJournal: nobody waits for the thread that saves the journal.
OpenJournalOnly(w) ==
  /\ pc[w] = "open"
  /\ journal' = [journal EXCEPT ![w] = "torn"]
  /\ Goto(w, "upsert")
  /\ todo' = [todo EXCEPT ![w] = NewIds(w)]
  /\ UNCHANGED <<store, late, lock, previous, request, cancelled, outcome, told,
                 committed, orderly>>

(* _save_journal, in a worker thread: create the file, write and fsync.    *)
OpenJournal(w) ==
  /\ pc[w] = "open"
  /\ journal' = [journal EXCEPT ![w] = "torn"]
  /\ Goto(w, "save")
  /\ UNCHANGED <<store, late, lock, previous, todo, request, cancelled, outcome, told,
                 committed, orderly>>

SaveJournal(w) ==
  /\ pc[w] = "save"
  /\ journal' = [journal EXCEPT ![w] = "durable"]
  /\ Goto(w, IF cancelled[w] THEN "abandon" ELSE "upsert")
  /\ todo' = [todo EXCEPT ![w] = NewIds(w)]
  /\ UNCHANGED <<store, late, lock, previous, request, cancelled, outcome, told,
                 committed, orderly>>

(* The unlink that follows the error may fail, too.                        *)
JournalError(w) ==
  /\ pc[w] \in {"open", "save"}
  /\ \E left \in {"none", journal[w]} : journal' = [journal EXCEPT ![w] = left]
  /\ End(w, "raised")
  /\ UNCHANGED <<store, late, previous, todo, request, cancelled, told, committed,
                 orderly>>

-----------------------------------------------------------------------------
(* _upsert_copy_points and _delete_ids: one bounded request after another. *)
Cells(w, i) ==
  CASE pc[w] = "upsert" -> Writes[w]
    [] pc[w] = "restore" -> previous[w][i]
    [] OTHER -> Absent

Send(w) ==
  /\ pc[w] \in Replacing \cup Compensating
  /\ request[w] = Nothing
  /\ \E batch \in SUBSET todo[w] \ {{}} :
       request' = [request EXCEPT ![w] =
                     [i \in Id |-> IF i \in batch THEN Cells(w, i) ELSE Keep]]
  /\ UNCHANGED <<store, late, lock, pc, previous, todo, cancelled, journal, outcome,
                 told, committed, orderly>>

(* wait=True: the reply comes when the request has been executed.          *)
Answer(w) ==
  /\ request[w] # Nothing
  /\ late = <<>>
  /\ store' = Executed(request[w], Id)
  /\ todo' = [todo EXCEPT ![w] = {i \in @ : request[w][i] = Keep}]
  /\ request' = [request EXCEPT ![w] = Nothing]
  /\ UNCHANGED <<late, lock, pc, previous, cancelled, journal, outcome, told, committed,
                 orderly>>

\* Mutant of RequestRaises: an error of rollback() is swallowed.
RequestRaisesQuietly(w) ==
  /\ request' = [request EXCEPT ![w] = Nothing]
  /\ todo' = [todo EXCEPT ![w] = IF pc[w] \in Replacing THEN PreviousIds(w) ELSE {}]
  /\ Goto(w, IF pc[w] \in Replacing THEN "restore" ELSE "forget")
  /\ UNCHANGED <<lock, outcome>>

(* What an exception of a request leads to: replace() is compensated, and  *)
(* rollback() ends in FragmentGroupRecoveryError.                          *)
RequestRaises(w) ==
  /\ request' = [request EXCEPT ![w] = Nothing]
  /\ IF pc[w] \in Replacing
       THEN /\ Goto(w, "restore")
            /\ todo' = [todo EXCEPT ![w] = PreviousIds(w)]
            /\ UNCHANGED <<lock, outcome>>
       ELSE /\ End(w, "recovery")
            /\ UNCHANGED todo

\* The server fails after a part of the request.
Fail(w) ==
  /\ request[w] # Nothing
  /\ late = <<>>
  /\ \E part \in SUBSET Id : store' = Executed(request[w], part)
  /\ RequestRaises(w)
  /\ UNCHANGED <<late, previous, cancelled, journal, told, committed, orderly>>

\* The server never gets the request, or the client could not build it.
Refuse(w) ==
  /\ request[w] # Nothing
  /\ RequestRaises(w)
  /\ UNCHANGED <<store, late, previous, cancelled, journal, told, committed, orderly>>

\* The client stops waiting for the reply.
Timeout(w) ==
  /\ request[w] # Nothing
  /\ late' = Append(late, request[w])
  /\ RequestRaises(w)
  /\ UNCHANGED <<store, previous, cancelled, journal, told, committed, orderly>>

\* A request that nobody waits for any more is executed, or a part of it.
ExecuteLate ==
  /\ late # <<>>
  /\ \E part \in SUBSET Id : store' = Executed(Head(late), part)
  /\ late' = Tail(late)
  /\ UNCHANGED <<lock, pc, previous, todo, request, cancelled, journal, outcome, told,
                 committed, orderly>>

-----------------------------------------------------------------------------
PhaseDone(w, place) == pc[w] = place /\ request[w] = Nothing /\ todo[w] = {}

\* Mutant of Upserted: the points that the new version does not have stay.
UpsertedOnly(w) ==
  /\ PhaseDone(w, "upsert")
  /\ Goto(w, "prune")
  /\ UNCHANGED <<store, late, lock, previous, todo, request, cancelled, journal, outcome,
                 told, committed, orderly>>

Upserted(w) ==
  /\ PhaseDone(w, "upsert")
  /\ Goto(w, "prune")
  /\ todo' = [todo EXCEPT ![w] = PreviousIds(w) \ NewIds(w)]
  /\ UNCHANGED <<store, late, lock, previous, request, cancelled, journal, outcome, told,
                 committed, orderly>>

(* replace() is done: on_commit runs, unless a cancellation was put off,   *)
(* which undoes everything.                                                *)
Commit(w) ==
  /\ PhaseDone(w, "prune")
  /\ ~cancelled[w]
  /\ Goto(w, "cleanup")
  /\ told' = [told EXCEPT ![w] = TRUE]
  /\ committed' = Writes[w]
  /\ UNCHANGED <<store, late, lock, previous, todo, request, cancelled, journal, outcome,
                 orderly>>

\* Mutant of UndoCancelled: the new group stays, and on_commit does not run.
ForgetCancelled(w) ==
  /\ PhaseDone(w, "prune")
  /\ cancelled[w]
  /\ Goto(w, "forget")
  /\ UNCHANGED <<store, late, lock, previous, todo, request, cancelled, journal, outcome,
                 told, committed, orderly>>

\* Mutant of UndoCancelled: the replacement is tried again.
RetryCancelled(w) ==
  /\ PhaseDone(w, "prune")
  /\ cancelled[w]
  /\ Goto(w, "upsert")
  /\ todo' = [todo EXCEPT ![w] = NewIds(w)]
  /\ UNCHANGED <<store, late, lock, previous, request, cancelled, journal, outcome, told,
                 committed, orderly>>

UndoCancelled(w) ==
  /\ PhaseDone(w, "prune")
  /\ cancelled[w]
  /\ Goto(w, "restore")
  /\ todo' = [todo EXCEPT ![w] = PreviousIds(w)]
  /\ UNCHANGED <<store, late, lock, previous, request, cancelled, journal, outcome, told,
                 committed, orderly>>

Restored(w) ==
  /\ PhaseDone(w, "restore")
  /\ Goto(w, "retract")
  /\ todo' = [todo EXCEPT ![w] = NewIds(w) \ PreviousIds(w)]
  /\ UNCHANGED <<store, late, lock, previous, request, cancelled, journal, outcome, told,
                 committed, orderly>>

Retracted(w) ==
  /\ PhaseDone(w, "retract")
  /\ Goto(w, "forget")
  /\ UNCHANGED <<store, late, lock, previous, todo, request, cancelled, journal, outcome,
                 told, committed, orderly>>

(* _remove_journal, in a worker thread; an OSError is only logged.         *)
RemoveJournal(w) ==
  /\ pc[w] \in {"abandon", "forget", "cleanup"}
  /\ \E left \in {"none", "durable"} : journal' = [journal EXCEPT ![w] = left]
  /\ End(w, IF pc[w] = "cleanup" /\ ~cancelled[w] THEN "returned" ELSE "raised")
  /\ UNCHANGED <<store, late, previous, todo, request, cancelled, told, committed,
                 orderly>>

\* Mutant of Cancel: the exception leaves the call at once.
CancelNow(w) ==
  /\ pc[w] \in {"open", "save", "cleanup"} \cup Replacing
  /\ End(w, "raised")
  /\ request' = [request EXCEPT ![w] = Nothing]
  /\ late' = IF request[w] = Nothing THEN late ELSE Append(late, request[w])
  /\ UNCHANGED <<store, previous, todo, cancelled, journal, told, committed, orderly>>

(* The caller's task is cancelled while _settle waits: the exception is    *)
(* put off until the worker or the requests have finished.  In rollback    *)
(* and in the cleanup after it the original exception wins.                *)
Cancel(w) ==
  /\ pc[w] \in {"open", "save", "cleanup"} \cup Replacing
  /\ ~cancelled[w]
  /\ cancelled' = [cancelled EXCEPT ![w] = TRUE]
  /\ UNCHANGED <<store, late, lock, pc, previous, todo, request, journal, outcome, told,
                 committed, orderly>>

(* The process dies; the server has the request that was under way.        *)
Kill(w) ==
  /\ lock = w
  /\ End(w, "killed")
  /\ request' = [request EXCEPT ![w] = Nothing]
  /\ late' = IF request[w] = Nothing THEN late ELSE Append(late, request[w])
  /\ UNCHANGED <<store, previous, todo, cancelled, journal, told, committed, orderly>>

-----------------------------------------------------------------------------
Progress(w) ==
  \/ CollectPrevious(w) \/ OpenJournal(w) \/ SaveJournal(w) \/ Send(w) \/ Answer(w)
  \/ Upserted(w) \/ Commit(w) \/ UndoCancelled(w) \/ Restored(w) \/ Retracted(w)
  \/ RemoveJournal(w)

Trouble(w) ==
  \/ ReadError(w) \/ JournalError(w) \/ Fail(w) \/ Refuse(w) \/ Timeout(w)
  \/ Cancel(w) \/ Kill(w)

Next ==
  \/ \E w \in Writer : Acquire(w) \/ Progress(w) \/ Trouble(w)
  \/ ExecuteLate

Spec == Init /\ [][Next]_vars

(* The event loop and its worker threads run, and the server executes what *)
(* it has: nobody has to start, fail, cancel or die.                       *)
FairSpec == Spec /\ WF_vars(ExecuteLate) /\ \A w \in Writer : WF_vars(Progress(w))

-----------------------------------------------------------------------------
TypeOK ==
  /\ store \in [Id -> Cell]
  /\ late \in Seq(Request)
  /\ lock \in Writer \cup {NoWriter}
  /\ pc \in [Writer -> Places]
  /\ previous \in [Writer -> [Id -> Cell]]
  /\ todo \in [Writer -> SUBSET Id]
  /\ request \in [Writer -> Request]
  /\ cancelled \in [Writer -> BOOLEAN]
  /\ journal \in [Writer -> {"none", "torn", "durable"}]
  /\ outcome \in [Writer -> {"none", "returned", "raised", "recovery", "killed"}]
  /\ told \in [Writer -> BOOLEAN]
  /\ committed \in Version
  /\ orderly \in [Writer -> BOOLEAN]

\* Calls that failed to compensate or died, and left their journal.
Unresolved ==
  {w \in Writer : outcome[w] \in {"recovery", "killed"} /\ journal[w] = "durable"}

Mutating == {w \in Writer : pc[w] \in Replacing \cup Compensating \cup {"forget"}}

(* "Every failure leaves the prior group in place (or journaled for        *)
(* recovery)": outside a replacement the collection holds the version that *)
(* was committed last, whole and alone, unless a call that failed to       *)
(* compensate, or whose process died, left its journal.                    *)
WholeOrJournaled ==
  Mutating = {} /\ store # Group(committed) => Unresolved # {}

(* "The journal survives rollback failure or process death": while a       *)
(* replacement is under way and every earlier call was resolved, the       *)
(* journal on the disk holds the version to go back to.                    *)
JournalIsPrior ==
  \A w \in Mutating :
    /\ journal[w] = "durable"
    /\ Unresolved = {} => previous[w] = Group(committed)

(* _settle: "Finish in-flight workers or mutations before releasing the    *)
(* caller's lock".  With every call resolved, only the writer that has the *)
(* lock has a request on its way to the server.                            *)
NothingInFlight ==
  Unresolved = {} =>
    /\ \A w \in Writer : request[w] # Nothing => lock = w
    /\ late # <<>> => lock # NoWriter /\ pc[lock] \in Compensating

(* "on_commit runs exactly when the new group is stored": whatever the     *)
(* call raises, on_commit tells the caller which group is in the           *)
(* collection at the moment the lock is released.                          *)
Ends(w) == outcome[w] = "none" /\ outcome'[w] \in {"returned", "raised"}

OnCommitTellsTheGroup ==
  [][\A w \in Writer : Ends(w) /\ orderly[w] =>
        store = IF told[w] THEN Group(Writes[w]) ELSE previous[w]]_vars

(* Even after a call that left requests behind, a replacement that reports *)
(* success has stored every one of its points, and nothing of the points   *)
(* that it found beside them.                                              *)
SuccessIsStored ==
  [][\A w \in Writer : Ends(w) /\ told[w] =>
        /\ \A i \in NewIds(w) : store[i] = Writes[w]
        /\ \A i \in PreviousIds(w) \ NewIds(w) : store[i] = Absent]_vars

(* A call that has the lock ends, whatever fails and however often it is   *)
(* cancelled, and so the lock is given up.                                 *)
EveryCallEnds == \A w \in Writer : lock = w ~> lock # w

(* There is a journal to go back by while points change, and nobody but    *)
(* the holder of the lock has requests on their way.                       *)
JournalIsInOrder == TypeOK /\ JournalIsPrior /\ NothingInFlight

(* A call that ends has told its caller what is stored.                    *)
OutcomeIsTold == OnCommitTellsTheGroup /\ SuccessIsStored

-----------------------------------------------------------------------------
(* The strengthening that makes the safety properties inductive.           *)
Untouched == {"open", "save", "abandon"}
Ours(w) == NewIds(w) \cup PreviousIds(w)
Inside(r, ids) == \A i \in Id : r[i] # Keep => i \in ids

\* The lock, the control points, the journal and the outcome agree.
ControlInv ==
  \A w \in Writer :
    /\ lock = w <=> pc[w] \notin {"idle", "done"}
    /\ outcome[w] = "none" <=> pc[w] # "done"
    /\ pc[w] \in Replacing \cup Compensating \cup {"abandon", "forget", "cleanup"} =>
         journal[w] = "durable"
    /\ pc[w] \in {"idle", "read", "open"} => journal[w] = "none"
    /\ pc[w] = "save" => journal[w] = "torn"
    /\ outcome[w] = "recovery" => journal[w] = "durable"
    /\ request[w] # Nothing => pc[w] \in Replacing \cup Compensating
    /\ \A i \in Id : request[w][i] # Keep => i \in todo[w] /\ request[w][i] = Cells(w, i)
    /\ pc[w] # "done" => (told[w] <=> pc[w] = "cleanup")
    /\ pc[w] = "cleanup" => committed = Writes[w]
    /\ pc[w] \in {"idle", "read"} => ~orderly[w]

\* What the requests of the lock's holder that were answered have achieved.
\* An answer comes after everything the server had got before.
SeriesInv ==
  \A w \in Writer :
    /\ todo[w] \subseteq Ours(w) \/ pc[w] \in {"idle", "read", "open", "save", "done"}
    /\ pc[w] = "upsert" =>
         /\ late # <<>> => todo[w] = NewIds(w)
         /\ \A i \in NewIds(w) \ todo[w] : store[i] = Writes[w]
    /\ pc[w] \in {"prune", "cleanup"} =>
         /\ late = <<>>
         /\ \A i \in NewIds(w) : store[i] = Writes[w] /\ i \notin todo[w]
         /\ \A i \in PreviousIds(w) \ (NewIds(w) \cup todo[w]) : store[i] = Absent
    /\ pc[w] = "cleanup" => todo[w] = {}
    /\ pc[w] = "restore" =>
         /\ todo[w] \subseteq PreviousIds(w)
         /\ late # <<>> => todo[w] = PreviousIds(w)
         /\ \A i \in PreviousIds(w) \ todo[w] : store[i] = previous[w][i]
    /\ pc[w] \in {"retract", "forget"} =>
         /\ todo[w] \subseteq NewIds(w) \ PreviousIds(w)
         /\ late # <<>> => todo[w] = NewIds(w) /\ pc[w] = "retract" /\ PreviousIds(w) = {}
         /\ \A i \in PreviousIds(w) : store[i] = previous[w][i]
         /\ \A i \in NewIds(w) \ (PreviousIds(w) \cup todo[w]) : store[i] = Absent
    /\ pc[w] = "forget" => todo[w] = {}

\* A holder that found no late request has only its own points to answer for.
OrderlyInv ==
  \A w \in Writer : orderly[w] /\ pc[w] \notin {"idle", "read", "done"} =>
    /\ \A i \in Id \ Ours(w) : store[i] = Absent
    /\ \A k \in 1 .. Len(late) : Inside(late[k], Ours(w))
    /\ pc[w] \in Untouched => late = <<>> /\ store = previous[w]
    /\ pc[w] \in Replacing => late = <<>>

\* While every call was resolved, the version committed last can be restored.
ResolvedInv ==
  Unresolved = {} =>
    /\ (\A w \in Writer : pc[w] \in {"idle", "read", "done"}) =>
         late = <<>> /\ store = Group(committed)
    /\ \A w \in Writer : pc[w] \notin {"idle", "read", "done"} =>
         /\ orderly[w]
         /\ pc[w] # "cleanup" => previous[w] = Group(committed)

IInv == TypeOK /\ ControlInv /\ SeriesInv /\ OrderlyInv /\ ResolvedInv
=============================================================================
