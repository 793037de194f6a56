---------------------------- MODULE GlossaryIndex ----------------------------
(***************************************************************************)
(* GlossaryToolHelper (glossary/tools.py) over GlossaryIndexer             *)
(* (glossary/indexer.py): each tool changes the store, the vocabulary and  *)
(* the points of an entry one after the other, under the lock of the       *)
(* collection, and may fail or be cancelled at any of them.                *)
(*                                                                         *)
(* An entry is its text. The transactions of the store are those of        *)
(* GlossaryStore under its lock, and a group of points is replaced in one  *)
(* step (FragmentGroup).                                                   *)
(***************************************************************************)
EXTENDS Naturals, FiniteSets

CONSTANTS Client, Id, Text,
          MaxFaults,   \* bound: failures
          None

GlossaryIndexAssumption == None \notin Client /\ None \notin Text /\ MaxFaults \in Nat

VARIABLES
  store,      \* the text of each entry, or None
  points,     \* the text that the points of each entry were made of
  vocabulary, \* the entries that the glossary's contribution counts
  lock,       \* the client that holds the lock of the collection
  op,
  stale,      \* history: entries of which a tool has failed since they were indexed
  faults

vars == <<store, points, vocabulary, lock, op, stale, faults>>

Contents == [Id -> Text \cup {None}]
Idle == [kind |-> "idle"]
Operation ==
  {Idle} \cup [kind : {"add", "update"}, step : {"wait", "store", "register", "put"},
              id : Id, text : Text]
    \cup [kind : {"delete"}, step : {"wait", "unindex", "remove"}, id : Id, text : {None}]
    \cup [kind : {"all"}, step : {"wait", "collect", "all"}, snapshot : Contents, left : SUBSET Id]

Nothing == [i \in Id |-> None]
Entries == {i \in Id : store[i] # None}

Init ==
  /\ store = Nothing /\ points = Nothing /\ vocabulary = Nothing
  /\ lock = None /\ op = [c \in Client |-> Idle] /\ stale = {} /\ faults = 0

-----------------------------------------------------------------------------
At(c, step) == lock = c /\ op[c].step = step
Goto(c, step) == op' = [op EXCEPT ![c].step = step] /\ UNCHANGED lock

\* The tool returns, and i is indexed.
Return(c, I) ==
  /\ op' = [op EXCEPT ![c] = Idle] /\ lock' = None /\ stale' = stale \ I

Begin(c, o) ==
  /\ op[c] = Idle /\ op' = [op EXCEPT ![c] = o]
  /\ UNCHANGED <<store, points, vocabulary, lock, stale, faults>>

Add(c) ==
  \E i \in Id, x \in Text :
    /\ i \notin Entries /\ points[i] = None
    /\ \A d \in Client : op[d].kind = "add" => op[d].id # i
    /\ Begin(c, [kind |-> "add", step |-> "wait", id |-> i, text |-> x])

\* update_entry and delete_entry find the entry before they wait for the lock.
Update(c) ==
  \E i \in Entries, x \in Text :
    Begin(c, [kind |-> "update", step |-> "wait", id |-> i, text |-> x])

Delete(c) ==
  \E i \in Entries : Begin(c, [kind |-> "delete", step |-> "wait", id |-> i, text |-> None])

IndexAll(c) == Begin(c, [kind |-> "all", step |-> "wait", snapshot |-> store, left |-> Entries])

\* Mutant of Acquire: another client may hold the lock.
AcquireAnyway(c) ==
  /\ op[c] # Idle /\ op[c].step = "wait"
  /\ lock' = c
  /\ op' = [op EXCEPT ![c].step = CASE op[c].kind = "delete" -> "unindex"
                                    [] op[c].kind = "all" -> "collect"
                                    [] OTHER -> "store"]
  /\ UNCHANGED <<store, points, vocabulary, stale, faults>>

\* The lock of the collection is taken.
Acquire(c) ==
  /\ op[c] # Idle /\ op[c].step = "wait" /\ lock = None
  /\ lock' = c
  /\ op' = [op EXCEPT ![c].step = CASE op[c].kind = "delete" -> "unindex"
                                    [] op[c].kind = "all" -> "collect"
                                    [] OTHER -> "store"]
  /\ UNCHANGED <<store, points, vocabulary, stale, faults>>

\* The store is changed. An entry that is gone is not updated.
Write(c) ==
  /\ At(c, "store") /\ UNCHANGED <<points, vocabulary, faults>>
  /\ IF op[c].kind = "add" \/ op[c].id \in Entries
     THEN /\ store' = [store EXCEPT ![op[c].id] = op[c].text]
          /\ Goto(c, "register") /\ UNCHANGED stale
     ELSE Return(c, {}) /\ UNCHANGED store

\* Mutant of Register: the entry alone is registered.
RegisterOne(c) ==
  /\ At(c, "register") /\ Goto(c, "put")
  /\ vocabulary' = [Nothing EXCEPT ![op[c].id] = store[op[c].id]]
  /\ UNCHANGED <<store, points, stale, faults>>

\* _index_entry: the tokens of all entries become the contribution.
Register(c) ==
  /\ At(c, "register") /\ Goto(c, "put")
  /\ vocabulary' = store /\ UNCHANGED <<store, points, stale, faults>>

\* The points of the entry are embedded and replaced.
Put(c) ==
  /\ At(c, "put")
  /\ points' = [points EXCEPT ![op[c].id] = store[op[c].id]]
  /\ Return(c, {op[c].id}) /\ UNCHANGED <<store, vocabulary, faults>>

\* Mutant of Unindex: the points are left behind.
UnindexLeaves(c) ==
  /\ At(c, "unindex") /\ Goto(c, "remove")
  /\ UNCHANGED <<store, points, vocabulary, stale, faults>>

\* delete_entry: the points go first, and the entry next.
Unindex(c) ==
  /\ At(c, "unindex") /\ Goto(c, "remove")
  /\ points' = [points EXCEPT ![op[c].id] = None]
  /\ UNCHANGED <<store, vocabulary, stale, faults>>

Remove(c) ==
  /\ At(c, "remove")
  /\ store' = [store EXCEPT ![op[c].id] = None]
  /\ Return(c, {op[c].id}) /\ UNCHANGED <<points, vocabulary, faults>>

\* Mutant of Collect: the entries were read before the lock was had.
CollectEarly(c) ==
  /\ At(c, "collect") /\ UNCHANGED <<store, points, faults>>
  /\ IF Entries = {} THEN Return(c, {}) /\ UNCHANGED vocabulary
     ELSE /\ vocabulary' = store /\ UNCHANGED <<lock, stale>>
          /\ op' = [op EXCEPT ![c].step = "all"]

\* _index_all: the entries are read and registered, if there are any.
Collect(c) ==
  /\ At(c, "collect") /\ UNCHANGED <<store, points, faults>>
  /\ IF Entries = {} THEN Return(c, {}) /\ UNCHANGED vocabulary
     ELSE /\ vocabulary' = store /\ UNCHANGED <<lock, stale>>
          /\ op' = [op EXCEPT ![c].step = "all", ![c].snapshot = store, ![c].left = Entries]

PutNext(c) ==
  /\ At(c, "all")
  /\ \E i \in op[c].left :
       /\ points' = [points EXCEPT ![i] = op[c].snapshot[i]]
       /\ op' = [op EXCEPT ![c].left = @ \ {i}]
  /\ UNCHANGED <<store, vocabulary, lock, stale, faults>>

EndAll(c) ==
  /\ At(c, "all") /\ op[c].left = {}
  /\ Return(c, Id) /\ UNCHANGED <<store, points, vocabulary, faults>>

\* The step under way fails or is cancelled: nothing that was done is undone.
Fail(c) ==
  /\ lock = c /\ faults < MaxFaults
  /\ faults' = faults + 1 /\ lock' = None /\ op' = [op EXCEPT ![c] = Idle]
  /\ stale' = stale \cup IF op[c].kind = "all" THEN {} ELSE {op[c].id}
  /\ UNCHANGED <<store, points, vocabulary>>

Next == \E c \in Client :
  \/ Add(c) \/ Update(c) \/ Delete(c) \/ IndexAll(c) \/ Acquire(c)
  \/ Write(c) \/ Register(c) \/ Put(c) \/ Unindex(c) \/ Remove(c)
  \/ Collect(c) \/ PutNext(c) \/ EndAll(c) \/ Fail(c)

Spec == Init /\ [][Next]_vars

-----------------------------------------------------------------------------
TypeOK ==
  /\ store \in Contents /\ points \in Contents /\ vocabulary \in Contents
  /\ lock \in Client \cup {None} /\ op \in [Client -> Operation]
  /\ \A c \in Client : lock = c <=> op[c] # Idle /\ op[c].step # "wait"
  /\ stale \subseteq Id /\ faults \in 0 .. MaxFaults

(* No point is left of an entry that is deleted, whichever step of a       *)
(* deletion fails.                                                         *)
NoOrphanPoints == lock = None => \A i \in Id : store[i] = None => points[i] = None

(* The points of an entry are those of its text, unless a tool has failed  *)
(* on it since: neither another client nor a tool that found the entry     *)
(* before it waited brings an old text back.                               *)
StaleOnlyAfterFailure == lock = None => \A i \in Id \ stale : points[i] = store[i]

(* The vocabulary counts every entry with its text, unless a tool has      *)
(* failed on it since.                                                     *)
VocabularyCounts == lock = None => \A i \in Entries \ stale : vocabulary[i] = store[i]

(* index_all repairs what failures have left: when it returns, the points  *)
(* and the vocabulary are those of the store.                              *)
IndexAllRepairs ==
  \A c \in Client : lock = c /\ op[c].step = "all" /\ op[c].left = {} =>
    points = store /\ vocabulary = store

(* "always re-registers all vocabulary to ensure IDF is accurate": without *)
(* failures the vocabulary counts the entries of the store, and no others. *)
VocabularyExact == lock = None /\ faults = 0 => vocabulary = store

(* No point is left of an entry that is deleted; points and vocabulary are *)
(* those of the entries but for failures, which index_all repairs.         *)
GlossaryIsIndexed ==
  /\ TypeOK /\ NoOrphanPoints /\ StaleOnlyAfterFailure
  /\ VocabularyCounts /\ IndexAllRepairs

-----------------------------------------------------------------------------
\* What the proofs need besides: what the holder of the lock has changed so far.

\* The points, or the vocabulary, of i are still to be written.
Unwritten(i) == \E c \in Client : lock = c /\ op[c].step \in {"register", "put", "remove"} /\ op[c].id = i
Uncounted(i) == \E c \in Client : lock = c /\ op[c].step = "register" /\ op[c].id = i

StepOK(c) ==
  /\ op[c].step = "put" => vocabulary = store
  /\ op[c].step = "remove" => points[op[c].id] = None
  /\ op[c].step = "all" => /\ op[c].snapshot = store /\ vocabulary = store
                           /\ \A i \in Id \ op[c].left : points[i] = store[i]

IInv ==
  /\ TypeOK
  /\ \A i \in Id : store[i] = None => points[i] = None
  /\ \A i \in Id \ stale : ~Unwritten(i) => points[i] = store[i]
  /\ \A i \in Entries \ stale : ~Uncounted(i) => vocabulary[i] = store[i]
  /\ \A c \in Client : lock = c => StepOK(c)
=============================================================================
