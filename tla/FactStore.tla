------------------------------ MODULE FactStore ------------------------------
(***************************************************************************)
(* FactStore (facts/database.py) with the marks of SourceIntegrityManager  *)
(* (facts/integrity.py): threads and processes that share one database,    *)
(* each with a connection of its own.                                      *)
(*                                                                         *)
(* The first statement that writes takes the write lock, which is held     *)
(* until the commit: a transaction is one step. Statements that read see   *)
(* the last commit, except on a connection in a transaction, where the     *)
(* first one of them fixes what all see. A write fails if the lock is not  *)
(* had in time, or if others have committed since.                         *)
(***************************************************************************)
EXTENDS Naturals, FiniteSets

CONSTANTS Client,
          Id,           \* the ids that uuid4 can return
          Spo,          \* subjects, predicates and objects, up to their case
          Date,         \* a set of numbers
          Doc,          \* what sources refer to
          TypeOf,       \* the source type of each
          Selectors,    \* the arguments of update_source_status: [type, doc]
          MaxTimeouts,  \* bound: clients and operations whose wait for the lock times out
          None, Blank,  \* an argument that is not given, and an empty one
          Begun         \* a transaction that has not read yet

FactStoreAssumption == None # Begun /\ MaxTimeouts \in Nat

VARIABLES
  db,         \* the last commit: facts, their adjacency rows and sources
  txn,        \* of each connection: None, Begun, or what its transaction sees
  op,         \* the operation under way of each client
  gone,       \* history: the ids of facts that were deleted
  timeouts,   \* history: who has waited for the lock in vain, and to do what
  used        \* history: the selector of the last mark

vars == <<db, txn, op, gone, timeouts, used>>

Idle == [kind |-> "idle"]
Writes == {"create", "update", "delete", "source", "mark"}
Roles == {"subject", "object"}
Status == {"active", "modified", "deleted"}

\* The arguments of update, which leaves the other dates alone.
Updates == UNION {[X -> Date \cup {None}] : X \in {{"from"}, {"to"}, {"from", "to"}}}

Fact == [spo : Spo, from : Date \cup {None}, to : Date \cup {None}]
Database ==
  [facts : UNION {[I -> Fact] : I \in SUBSET Id}, adjacency : SUBSET (Id \X Roles),
   sources : SUBSET [fact : Id, doc : Doc, status : Status]]
Operation ==
  {Idle} \cup [kind : {"create"}, spo : Spo, doc : Doc \cup {None}]
    \cup [kind : {"update"}, id : Id, new : Updates]
    \cup [kind : {"source"}, id : Id, doc : Doc] \cup [kind : {"read"}, id : Id]
    \cup [kind : {"iter"}, left : SUBSET Id, seen : SUBSET Id, kept : SUBSET Id]

Init ==
  /\ db = [facts |-> [i \in {} |-> 0], adjacency |-> {}, sources |-> {}]
  /\ txn = [c \in Client |-> None] /\ op = [c \in Client |-> Idle]
  /\ gone = {} /\ timeouts = {} /\ used = None

-----------------------------------------------------------------------------
Ids(d) == DOMAIN d.facts
View(c) == IF txn[c] \in {None, Begun} THEN db ELSE txn[c]

\* A statement that reads.
Reads(c) == txn' = IF txn[c] = Begun THEN [txn EXCEPT ![c] = db] ELSE txn

Ready(c, kind) == op[c].kind = kind
Goto(c, o) == op' = [op EXCEPT ![c] = o]

\* A transaction that writes and commits d; an iteration knows what is still there.
Commit(c, d) ==
  /\ txn[c] \in {None, Begun, db}
  /\ db' = d /\ txn' = [txn EXCEPT ![c] = None]
  /\ gone' = gone \cup (Ids(db) \ Ids(d))
  /\ op' = [e \in Client |->
       IF e = c THEN Idle
       ELSE IF op[e].kind = "iter" THEN [op[e] EXCEPT !.kept = @ \cap Ids(d)] ELSE op[e]]
  /\ UNCHANGED timeouts

\* The lock is not had.
Locked(c, kind) ==
  /\ \/ txn[c] \notin {None, Begun, db} /\ UNCHANGED timeouts
     \/ /\ timeouts' = timeouts \cup {<<c, kind>>}
        /\ Cardinality(timeouts') <= MaxTimeouts
  /\ Goto(c, Idle) /\ UNCHANGED <<db, gone>> /\ used' = None

\* Mutant of LockedRollsBack: the transaction is left as it is.
LockedLeavesOpen(c, kind) ==
  Locked(c, kind) /\ txn' = [txn EXCEPT ![c] = IF @ = None THEN Begun ELSE @]

\* OperationalError, for which the transaction is rolled back.
LockedRollsBack(c, kind) == Locked(c, kind) /\ txn' = [txn EXCEPT ![c] = None]

\* The same where nothing rolls back: the implicit BEGIN stays in effect.
LockedStaysOpen(c, kind) ==
  Locked(c, kind) /\ txn' = [txn EXCEPT ![c] = IF @ = None THEN Begun ELSE @]

\* IntegrityError: the lock was had, and a constraint is not met.
Refused(c) ==
  /\ txn[c] \in {None, Begun, db}
  /\ txn' = [txn EXCEPT ![c] = None] /\ Goto(c, Idle)
  /\ UNCHANGED <<db, gone, timeouts>> /\ used' = None

-----------------------------------------------------------------------------
HasSpo(d, s) == \E i \in Ids(d) : d.facts[i].spo = s
Source(i, k) == [fact |-> i, doc |-> k, status |-> "active"]

\* Bound: ids that creates under way do not need.
IdsLeft ==
  Cardinality(Id \ (gone \cup Ids(db))) > Cardinality({c \in Client : Ready(c, "create")})

\* create looks for the same fact first.
CreateCheck(c, s, k) ==
  /\ Ready(c, "idle") /\ ~HasSpo(View(c), s) /\ IdsLeft
  /\ Reads(c) /\ Goto(c, [kind |-> "create", spo |-> s, doc |-> k])
  /\ UNCHANGED <<db, gone, timeouts>> /\ used' = None

Inserted(i, s, k) ==
  [facts |-> [j \in Ids(db) \cup {i} |->
                IF j = i THEN [spo |-> s, from |-> None, to |-> None] ELSE db.facts[j]],
   adjacency |-> db.adjacency \cup {<<i, r>> : r \in Roles},
   sources |-> db.sources \cup {Source(i, k) : x \in {k} \ {None}}]

\* Mutant of CreateWrite: the column of the hash is not unique.
CreateAgain(c) ==
  /\ Ready(c, "create") /\ used' = None
  /\ \E i \in Id \ (gone \cup Ids(db)) : Commit(c, Inserted(i, op[c].spo, op[c].doc))

CreateWrite(c) ==
  /\ Ready(c, "create")
  /\ \/ /\ ~HasSpo(db, op[c].spo) /\ used' = None
        /\ \E i \in Id \ (gone \cup Ids(db)) : Commit(c, Inserted(i, op[c].spo, op[c].doc))
     \/ HasSpo(db, op[c].spo) /\ Refused(c)
     \/ LockedRollsBack(c, "create")

\* The dates of a fact and of an update, of which the latter leaves some alone.
Changed(f, new) == [x \in DOMAIN f |-> IF x \in DOMAIN new THEN new[x] ELSE f[x]]
Ordered(f) == None \notin {f.from, f.to} => f.from <= f.to

\* update reads the fact and looks at the dates that result.
UpdateRead(c, i, new) ==
  /\ Ready(c, "idle") /\ i \in Ids(View(c)) /\ Ordered(Changed(View(c).facts[i], new))
  /\ Reads(c) /\ Goto(c, [kind |-> "update", id |-> i, new |-> new])
  /\ UNCHANGED <<db, gone, timeouts>> /\ used' = None

\* Mutant of UpdateWrite: a fact that is not there is inserted.
UpdateInserts(c) ==
  /\ Ready(c, "update") /\ used' = None
  /\ LET i == op[c].id
         f == IF i \in Ids(db) THEN db.facts[i]
              ELSE [spo |-> CHOOSE s \in Spo : TRUE, from |-> None, to |-> None]
     IN Commit(c, [db EXCEPT !.facts = [j \in Ids(db) \cup {i} |->
                    IF j = i THEN Changed(f, op[c].new) ELSE db.facts[j]]])

\* Its UPDATE has no effect on a fact that has been deleted since.
UpdateWrite(c) ==
  /\ Ready(c, "update")
  /\ \/ /\ used' = None
        /\ Commit(c, [db EXCEPT !.facts = [j \in Ids(db) |->
                       IF j = op[c].id THEN Changed(@[j], op[c].new) ELSE @[j]]])
     \/ LockedStaysOpen(c, "update")

\* Without the rows that refer to a fact that is not there (ON DELETE CASCADE).
Cascaded(d) ==
  [d EXCEPT !.adjacency = {a \in @ : a[1] \in Ids(d)}, !.sources = {s \in @ : s.fact \in Ids(d)}]

\* Mutant of Delete: foreign keys are not enforced.
DeleteRowOnly(c, i) ==
  /\ Ready(c, "idle") /\ used' = None
  /\ Commit(c, [db EXCEPT !.facts = [j \in Ids(db) \ {i} |-> @[j]],
                          !.adjacency = {a \in @ : a[1] # i}])

Delete(c, i) ==
  /\ Ready(c, "idle")
  /\ \/ Commit(c, Cascaded([db EXCEPT !.facts = [j \in Ids(db) \ {i} |-> @[j]]])) /\ used' = None
     \/ LockedRollsBack(c, "delete")

\* add_source reads the fact, which may be gone when the source is inserted.
SourceRead(c, i, k) ==
  /\ Ready(c, "idle") /\ i \in Ids(View(c))
  /\ Reads(c) /\ Goto(c, [kind |-> "source", id |-> i, doc |-> k])
  /\ UNCHANGED <<db, gone, timeouts>> /\ used' = None

SourceWrite(c) ==
  /\ Ready(c, "source")
  /\ \/ /\ op[c].id \in Ids(db) /\ used' = None
        /\ Commit(c, [db EXCEPT !.sources = @ \cup {Source(op[c].id, op[c].doc)}])
     \/ op[c].id \notin Ids(db) /\ Refused(c)
     \/ LockedRollsBack(c, "source")

\* The conditions of update_source_status: an empty id or hash adds none.
Selected(s, sel) ==
  /\ sel.type \in {None, TypeOf[s.doc]}
  /\ sel.doc \in {None, Blank, s.doc}

\* update_source_status for sources that were modified or deleted, or verified again.
\* Without a selector it returns before it looks at the database.
Mark(c, sel, status) ==
  /\ Ready(c, "idle") /\ sel # [type |-> None, doc |-> None]
  /\ \/ /\ used' = sel
        /\ Commit(c, [db EXCEPT !.sources = {IF Selected(s, sel) THEN [s EXCEPT !.status = status]
                                              ELSE s : s \in @}])
     \/ LockedStaysOpen(c, "mark")

\* The selectors of mark_note_deleted and the like, and of revalidate_sources.
Integrity(c) ==
  \E sel \in Selectors : \E status \in Status :
    /\ status \in {"modified", "deleted"} => sel.doc # None
    /\ Mark(c, sel, status)

\* read finds the row of a fact, and looks for its sources next.
ReadRow(c, i) ==
  /\ Ready(c, "idle") /\ i \in Ids(View(c))
  /\ Reads(c) /\ Goto(c, [kind |-> "read", id |-> i])
  /\ UNCHANGED <<db, gone, timeouts>> /\ used' = None

ReadSources(c) ==
  /\ Ready(c, "read") /\ Reads(c) /\ Goto(c, Idle)
  /\ UNCHANGED <<db, gone, timeouts>> /\ used' = None

\* Any other query, and a read, an update or a create that ends at its first look.
Query(c) ==
  /\ Ready(c, "idle") /\ Reads(c) /\ UNCHANGED <<db, op, gone, timeouts>> /\ used' = None

\* iter_all takes the ids first.
IterBegin(c) ==
  /\ Ready(c, "idle") /\ Reads(c)
  /\ LET I == Ids(View(c)) IN Goto(c, [kind |-> "iter", left |-> I, seen |-> {}, kept |-> I])
  /\ UNCHANGED <<db, gone, timeouts>> /\ used' = None

\* Mutant of IterNext: a fact that has been deleted ends the iteration.
IterNextStops(c, i) ==
  /\ Ready(c, "iter") /\ i \in op[c].left
  /\ IF i \in Ids(View(c))
     THEN Goto(c, [op[c] EXCEPT !.left = @ \ {i}, !.seen = @ \cup {i}])
     ELSE Goto(c, [op[c] EXCEPT !.left = {}])
  /\ Reads(c) /\ UNCHANGED <<db, gone, timeouts>> /\ used' = None

\* It passes over facts that have been deleted since.
IterNext(c, i) ==
  /\ Ready(c, "iter") /\ i \in op[c].left
  /\ Goto(c, [op[c] EXCEPT !.left = @ \ {i}, !.seen = @ \cup ({i} \cap Ids(View(c)))])
  /\ Reads(c) /\ UNCHANGED <<db, gone, timeouts>> /\ used' = None

IterEnd(c) ==
  /\ Ready(c, "iter") /\ op[c].left = {} /\ Goto(c, Idle)
  /\ UNCHANGED <<db, txn, gone, timeouts>> /\ used' = None

Next == \E c \in Client :
  \/ \E s \in Spo : \E k \in Doc \cup {None} : CreateCheck(c, s, k)
  \/ CreateWrite(c) \/ UpdateWrite(c) \/ SourceWrite(c)
  \/ \E i \in Id : \/ \E new \in Updates : UpdateRead(c, i, new)
                   \/ \E k \in Doc : SourceRead(c, i, k)
                   \/ Delete(c, i) \/ ReadRow(c, i) \/ IterNext(c, i)
  \/ Integrity(c) \/ ReadSources(c) \/ Query(c) \/ IterBegin(c) \/ IterEnd(c)

Spec == Init /\ [][Next]_vars

-----------------------------------------------------------------------------
TypeOK ==
  /\ db \in Database /\ txn \in [Client -> Database \cup {None, Begun}]
  /\ op \in [Client -> Operation] /\ gone \subseteq Id
  /\ timeouts \subseteq Client \X Writes

(* However many look for a fact and then create it, there is one fact of   *)
(* each subject, predicate and object.                                     *)
NoDuplicateFacts ==
  \A i, j \in Ids(db) : db.facts[i].spo = db.facts[j].spo => i = j

(* The rows that searches join agree: every fact has its two rows of       *)
(* adjacency, and no row and no source refers to a fact that is not there, *)
(* whatever is deleted between the look at a fact and the write.           *)
RowsAgree ==
  /\ db.adjacency = Ids(db) \X Roles
  /\ \A s \in db.sources : s.fact \in Ids(db)

(* A fact that was deleted does not come back.                             *)
DeletedStaysDeleted == gone \cap Ids(db) = {}

(* An operation leaves no transaction behind in which later ones would see *)
(* the past, unless it is an update or a mark that waited in vain.         *)
NoTransactionLeft ==
  \A c \in Client : timeouts \cap ({c} \X {"update", "mark"}) = {} => txn[c] = None

(* An iteration has passed by every fact that was there all the time, also *)
(* if others were deleted meanwhile.                                       *)
IterationIsComplete ==
  \A c \in Client : op[c].kind = "iter" /\ op[c].left = {} => op[c].kept \subseteq op[c].seen

(* "An inverted validity interval is never meaningful": the dates of every *)
(* fact are in order.                                                      *)
DatesInOrder == \A i \in Ids(db) : Ordered(db.facts[i])

(* There is one fact of each subject, predicate and object, which agrees   *)
(* with its rows of adjacency and its sources and does not come back when  *)
(* it was deleted; an iteration passes by every fact that is there all the *)
(* time; and only on the connection of a client whose update or mark has   *)
(* waited in vain is a transaction left open that sees the past.           *)
FactsAgree ==
  /\ TypeOK /\ NoDuplicateFacts /\ RowsAgree /\ DeletedStaysDeleted /\ IterationIsComplete
  /\ NoTransactionLeft

(* "FactNotFoundError: If fact not found": no read that begins after a     *)
(* fact was deleted returns it.                                            *)
DeletedIsNotFound ==
  [][\A c \in Client : op[c].kind = "idle" /\ op'[c].kind = "read" => op'[c].id \notin gone]_vars

(* "Refuse an unscoped update": a mark whose arguments name nothing        *)
(* changes nothing.                                                        *)
UnscopedIsRefused ==
  [][used' # None /\ used'.type = None /\ used'.doc \in {None, Blank} =>
       db' = db]_vars

-----------------------------------------------------------------------------
\* What the proofs need besides: what is committed, and what an iteration knows.

Sound(d) ==
  /\ d \in Database
  /\ \A i, j \in Ids(d) : d.facts[i].spo = d.facts[j].spo => i = j
  /\ d.adjacency = Ids(d) \X Roles
  /\ \A s \in d.sources : s.fact \in Ids(d)

IterOK(c) == op[c].kind = "iter" =>
  /\ op[c].kept \subseteq op[c].left \cup op[c].seen
  /\ op[c].kept \subseteq Ids(View(c))

IInv ==
  /\ TypeOK /\ Sound(db) /\ DeletedStaysDeleted
  /\ \A c \in Client : IterOK(c)
=============================================================================
