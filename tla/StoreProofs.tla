----------------------------- MODULE StoreProofs -----------------------------
(* Theorems about the stores. FactStore: for any number of clients, facts  *)
(* and documents, and any wait for the write lock that times out.          *)
(* GlossaryStore: for any number of clients and entries, whether or not    *)
(* clients hold the lock. FactGraph: for any facts, entities, depth and    *)
(* limit.                                                                  *)
EXTENDS Stores, Induction, FiniteSetTheorems, SequenceTheorems

-----------------------------------------------------------------------------
(* What a database holds.                                                  *)

LEMMA DatabaseFacts ==
  ASSUME NEW d \in Database
  PROVE  /\ Ids(d) \subseteq Id /\ d.facts \in [Ids(d) -> Fact]
         /\ d.sources \subseteq [fact : Id, doc : Doc, status : Status]
<1>1. PICK I \in SUBSET Id : d.facts \in [I -> Fact]
  BY DEF Database
<1>2. I = Ids(d)
  BY <1>1 DEF Ids
<1>3. QED
  BY <1>1, <1>2 DEF Database

LEMMA ReplacedParts ==
  ASSUME NEW d \in Database
  PROVE  /\ \A f : [d EXCEPT !.facts = f] = [facts |-> f, adjacency |-> d.adjacency, sources |-> d.sources]
         /\ \A S : [d EXCEPT !.sources = S] = [facts |-> d.facts, adjacency |-> d.adjacency, sources |-> S]
BY DEF Database

LEMMA MakesDatabase ==
  ASSUME NEW I \in SUBSET Id, NEW f \in [I -> Fact], NEW A \in SUBSET (Id \X Roles),
         NEW S \in SUBSET [fact : Id, doc : Doc, status : Status]
  PROVE  LET d == [facts |-> f, adjacency |-> A, sources |-> S]
         IN  d \in Database /\ Ids(d) = I
BY DEF Database, Ids

\* A read sees a whole database, and changes nothing of what its client sees.
LEMMA ReadsFacts ==
  ASSUME TypeOK, NEW c \in Client, Reads(c), UNCHANGED db
  PROVE  /\ txn' \in [Client -> Database \cup {None, Begun}]
         /\ View(c) \in Database
         /\ \A e \in Client : View(e)' = View(e)
BY DEF TypeOK, Reads, View

-----------------------------------------------------------------------------
(* The kinds of step.                                                      *)

\* A client goes on with what it saw.
LEMMA GoesOn ==
  ASSUME IInv, NEW c \in Client, UNCHANGED <<db, gone>>, timeouts' \subseteq Client \X Writes,
         txn' \in [Client -> Database \cup {None, Begun}], \A e \in Client \ {c} : View(e)' = View(e),
         NEW o \in Operation, Goto(c, o),
         o.kind = "iter" => o.kept \subseteq o.left \cup o.seen /\ o.kept \subseteq Ids(View(c)')
  PROVE  IInv'
<1>1. op' \in [Client -> Operation] /\ op'[c] = o /\ \A e \in Client \ {c} : op'[e] = op[e]
  BY DEF IInv, TypeOK, Goto
<1>2. TypeOK'
  BY <1>1 DEF IInv, TypeOK
<1>3. Sound(db)' /\ DeletedStaysDeleted'
  BY DEF IInv, Sound, DeletedStaysDeleted, Ids
<1>4. ASSUME NEW e \in Client PROVE IterOK(e)'
  <2>1. CASE e = c
    BY <1>1, <2>1 DEF IterOK
  <2>2. CASE e # c
    BY <1>1, <2>2 DEF IInv, IterOK
  <2>3. QED
    BY <2>1, <2>2
<1>5. QED
  BY <1>2, <1>3, <1>4 DEF IInv

LEMMA ReadsOn ==
  ASSUME IInv, NEW c \in Client, UNCHANGED <<db, gone, timeouts>>, Reads(c),
         NEW o \in Operation, Goto(c, o),
         o.kind = "iter" => o.kept \subseteq o.left \cup o.seen /\ o.kept \subseteq Ids(View(c))
  PROVE  IInv'
BY GoesOn, ReadsFacts DEF IInv, TypeOK

LEMMA LockedStep ==
  ASSUME IInv, NEW c \in Client, NEW kind \in Writes, Locked(c, kind),
         txn' = [txn EXCEPT ![c] = None] \/ txn' = [txn EXCEPT ![c] = IF @ = None THEN Begun ELSE @]
  PROVE  IInv'
<1>1. Idle \in Operation /\ Idle.kind = "idle"
  BY DEF Operation, Idle
<1>2. UNCHANGED <<db, gone>> /\ Goto(c, Idle) /\ timeouts' \subseteq Client \X Writes
  BY DEF Locked, IInv, TypeOK
<1>3. txn' \in [Client -> Database \cup {None, Begun}] /\ \A e \in Client \ {c} : View(e)' = View(e)
  BY <1>2 DEF IInv, TypeOK, View
<1>4. QED
  BY <1>1, <1>2, <1>3, GoesOn

LEMMA RefusedStep ==
  ASSUME IInv, NEW c \in Client, Refused(c) PROVE IInv'
<1>1. Idle \in Operation /\ Idle.kind = "idle"
  BY DEF Operation, Idle
<1>2. UNCHANGED <<db, gone, timeouts>> /\ Goto(c, Idle)
  BY DEF Refused
<1>3. txn' \in [Client -> Database \cup {None, Begun}] /\ \A e \in Client \ {c} : View(e)' = View(e)
  BY <1>2 DEF Refused, IInv, TypeOK, View
<1>4. QED
  BY <1>1, <1>2, <1>3, GoesOn DEF IInv, TypeOK

\* What is committed is sound and has no fact that was deleted.
LEMMA CommitStep ==
  ASSUME IInv, NEW c \in Client, NEW d, Sound(d), Ids(d) \cap gone = {}, Commit(c, d)
  PROVE  IInv'
<1>1. /\ TypeOK /\ Sound(db) /\ d \in Database /\ db' = d
      /\ txn' = [txn EXCEPT ![c] = None] /\ UNCHANGED timeouts
      /\ gone' = gone \cup (Ids(db) \ Ids(d))
  BY DEF IInv, Commit, Sound
<1>2. /\ op' \in [Client -> Operation] /\ op'[c].kind = "idle"
      /\ \A e \in Client \ {c} : op[e].kind # "iter" => op'[e] = op[e]
      /\ \A e \in Client \ {c} : op[e].kind = "iter" =>
           op'[e] = [op[e] EXCEPT !.kept = @ \cap Ids(d)] /\ op'[e].kept = op[e].kept \cap Ids(d)
  <2>1. op' = [e \in Client |->
                 IF e = c THEN Idle
                 ELSE IF op[e].kind = "iter" THEN [op[e] EXCEPT !.kept = @ \cap Ids(d)] ELSE op[e]]
    BY DEF Commit
  <2>2. Idle \in Operation /\ Idle.kind = "idle"
    BY DEF Operation, Idle
  <2>3. ASSUME NEW o \in Operation, o.kind = "iter"
        PROVE  /\ [o EXCEPT !.kept = @ \cap Ids(d)] \in Operation
               /\ [o EXCEPT !.kept = @ \cap Ids(d)].kept = o.kept \cap Ids(d)
    <3>1. o \in [kind : {"iter"}, left : SUBSET Id, seen : SUBSET Id, kept : SUBSET Id]
      BY <2>3 DEF Operation, Idle
    <3>2. QED
      BY <3>1 DEF Operation
  <2>4. op \in [Client -> Operation]
    BY <1>1 DEF TypeOK
  <2>5. QED
    BY <2>1, <2>2, <2>3, <2>4
<1>3. TypeOK'
  <2>1. Ids(db) \subseteq Id
    BY <1>1, DatabaseFacts DEF TypeOK
  <2>2. QED
    BY <1>1, <1>2, <2>1 DEF TypeOK
<1>4. Sound(db)' /\ DeletedStaysDeleted'
  BY <1>1 DEF Sound, DeletedStaysDeleted, Ids
<1>5. ASSUME NEW e \in Client, op'[e].kind = "iter"
      PROVE  /\ op'[e].kept \subseteq op'[e].left \cup op'[e].seen
             /\ op'[e].kept \subseteq Ids(View(e)')
  <2>1. e # c /\ op[e].kind = "iter" /\ op[e] \in Operation
    BY <1>1, <1>2, <1>5 DEF TypeOK, Operation, Idle
  <2>2. op[e] \in [kind : {"iter"}, left : SUBSET Id, seen : SUBSET Id, kept : SUBSET Id]
    BY <2>1 DEF Operation, Idle
  <2>3. op'[e].kept = op[e].kept \cap Ids(d) /\ op'[e].left = op[e].left /\ op'[e].seen = op[e].seen
    BY <1>2, <2>1, <2>2
  <2>4. op[e].kept \subseteq op[e].left \cup op[e].seen /\ op[e].kept \subseteq Ids(View(e))
    BY <2>1 DEF IInv, IterOK
  <2>5. View(e)' = d \/ View(e)' = View(e)
    BY <1>1, <2>1 DEF View, TypeOK
  <2>6. QED
    BY <2>3, <2>4, <2>5
<1>6. QED
  BY <1>3, <1>4, <1>5 DEF IInv, IterOK

-----------------------------------------------------------------------------
(* The operations.                                                         *)

\* What an operation under way has with it.
LEMMA OperationFacts ==
  ASSUME TypeOK, NEW c \in Client
  PROVE  /\ op[c].kind = "create" => op[c].spo \in Spo /\ op[c].doc \in Doc \cup {None}
         /\ op[c].kind = "update" => op[c].id \in Id /\ op[c].new \in Updates
         /\ op[c].kind = "source" => op[c].id \in Id /\ op[c].doc \in Doc
         /\ op[c].kind = "iter" =>
              op[c] \in [kind : {"iter"}, left : SUBSET Id, seen : SUBSET Id, kept : SUBSET Id]
BY DEF TypeOK, Operation, Idle

\* A new fact has the subject, predicate and object of no other.
LEMMA InsertedIsSound ==
  ASSUME IInv, NEW s \in Spo, NEW k \in Doc \cup {None}, NEW i \in Id \ (gone \cup Ids(db)),
         ~HasSpo(db, s)
  PROVE  Sound(Inserted(i, s, k)) /\ Ids(Inserted(i, s, k)) \cap gone = {}
<1> DEFINE I == Ids(db) \cup {i}
           f == [j \in I |-> IF j = i THEN [spo |-> s, from |-> None, to |-> None] ELSE db.facts[j]]
           A == db.adjacency \cup {<<i, r>> : r \in Roles}
           S == db.sources \cup {Source(i, k) : x \in {k} \ {None}}
           d == Inserted(i, s, k)
<1>1. /\ Ids(db) \subseteq Id /\ db.facts \in [Ids(db) -> Fact]
      /\ db.sources \subseteq [fact : Id, doc : Doc, status : Status]
      /\ db.adjacency = Ids(db) \X Roles /\ \A r \in db.sources : r.fact \in Ids(db)
      /\ \A j, l \in Ids(db) : db.facts[j].spo = db.facts[l].spo => j = l
      /\ Ids(db) \cap gone = {}
  BY DatabaseFacts DEF IInv, Sound, DeletedStaysDeleted
<1>2. I \in SUBSET Id /\ f \in [I -> Fact]
  BY <1>1 DEF Fact
<1>3. A = I \X Roles
  BY <1>1
<1>4. S \in SUBSET [fact : Id, doc : Doc, status : Status] /\ \A r \in S : r.fact \in I
  BY <1>1 DEF Source, Status
<1>5. d = [facts |-> f, adjacency |-> A, sources |-> S]
  BY DEF Inserted
<1>6. A \in SUBSET (Id \X Roles)
  BY <1>2, <1>3
<1>7. d.facts = f /\ d.adjacency = A /\ d.sources = S
  BY <1>5
<1>8. \A j, l \in I : f[j].spo = f[l].spo => j = l
  BY <1>1 DEF HasSpo
<1> HIDE DEF I, f, A, S, d
<1>9. d \in Database /\ Ids(d) = I
  BY <1>2, <1>4, <1>5, <1>6, MakesDatabase
<1>10. Sound(d)
  BY <1>3, <1>4, <1>7, <1>8, <1>9 DEF Sound
<1>11. QED
  BY <1>1, <1>9, <1>10 DEF I, d

LEMMA CreateStep ==
  ASSUME IInv, NEW c \in Client, CreateWrite(c) PROVE IInv'
<1>1. op[c].spo \in Spo /\ op[c].doc \in Doc \cup {None}
  BY OperationFacts DEF IInv, CreateWrite, Ready
<1>2. ASSUME ~HasSpo(db, op[c].spo), NEW i \in Id \ (gone \cup Ids(db)),
             Commit(c, Inserted(i, op[c].spo, op[c].doc))
      PROVE  IInv'
  BY <1>1, <1>2, InsertedIsSound, CommitStep
<1>3. ASSUME LockedRollsBack(c, "create") PROVE IInv'
  BY <1>3, LockedStep DEF LockedRollsBack, Writes
<1>4. QED
  BY <1>2, <1>3, RefusedStep DEF CreateWrite

\* Dates change, and nothing else does.
LEMMA ChangedFacts ==
  ASSUME NEW f \in Fact, NEW new \in Updates
  PROVE  Changed(f, new) \in Fact /\ Changed(f, new).spo = f.spo
<1>1. DOMAIN f = {"spo", "from", "to"} /\ f.spo \in Spo /\ {f.from, f.to} \subseteq Date \cup {None}
  BY DEF Fact
<1>2. DOMAIN new \subseteq {"from", "to"} /\ \A x \in DOMAIN new : new[x] \in Date \cup {None}
  BY DEF Updates
<1> DEFINE g == Changed(f, new)
<1>3. /\ g = [x \in {"spo", "from", "to"} |-> IF x \in DOMAIN new THEN new[x] ELSE f[x]]
  BY <1>1 DEF Changed
<1>4. /\ DOMAIN g = {"spo", "from", "to"} /\ g.spo = f.spo
      /\ g.from \in Date \cup {None} /\ g.to \in Date \cup {None}
  BY <1>1, <1>2, <1>3
<1>5. g = [spo |-> g.spo, from |-> g.from, to |-> g.to]
  BY <1>3, <1>4
<1>6. QED
  BY <1>1, <1>4, <1>5 DEF Fact

LEMMA UpdateStep ==
  ASSUME IInv, NEW c \in Client, UpdateWrite(c) PROVE IInv'
<1> DEFINE f == [j \in Ids(db) |-> IF j = op[c].id THEN Changed(db.facts[j], op[c].new) ELSE db.facts[j]]
           d == [db EXCEPT !.facts = [j \in Ids(db) |->
                   IF j = op[c].id THEN Changed(@[j], op[c].new) ELSE @[j]]]
<1>1. /\ db \in Database /\ Ids(db) \subseteq Id /\ db.facts \in [Ids(db) -> Fact]
      /\ db.sources \subseteq [fact : Id, doc : Doc, status : Status]
      /\ db.adjacency = Ids(db) \X Roles /\ \A r \in db.sources : r.fact \in Ids(db)
      /\ \A j, l \in Ids(db) : db.facts[j].spo = db.facts[l].spo => j = l
      /\ Ids(db) \cap gone = {}
  BY DatabaseFacts DEF IInv, Sound, DeletedStaysDeleted
<1>2. op[c].new \in Updates
  BY OperationFacts DEF IInv, UpdateWrite, Ready
<1>3. ASSUME Commit(c, d) PROVE IInv'
  <2>1. f \in [Ids(db) -> Fact] /\ \A j \in Ids(db) : f[j].spo = db.facts[j].spo
    BY <1>1, <1>2, ChangedFacts
  <2>2. d = [facts |-> f, adjacency |-> db.adjacency, sources |-> db.sources]
    BY <1>1, ReplacedParts
  <2>3. d.facts = f /\ d.adjacency = db.adjacency /\ d.sources = db.sources
    BY <2>2
  <2> HIDE DEF f, d
  <2>4. d \in Database /\ Ids(d) = Ids(db)
    BY <1>1, <2>1, <2>2, MakesDatabase
  <2>5. Sound(d) /\ Ids(d) \cap gone = {}
    BY <1>1, <2>1, <2>3, <2>4 DEF Sound
  <2>6. QED
    BY <1>3, <2>5, CommitStep
<1>4. ASSUME LockedStaysOpen(c, "update") PROVE IInv'
  BY <1>4, LockedStep DEF LockedStaysOpen, Writes
<1>5. QED
  BY <1>3, <1>4 DEF UpdateWrite

\* A fact goes with the rows that refer to it.
LEMMA DeleteStep ==
  ASSUME IInv, NEW c \in Client, NEW i \in Id, Delete(c, i) PROVE IInv'
<1> DEFINE I == Ids(db) \ {i}
           f == [j \in I |-> db.facts[j]]
           A == {a \in db.adjacency : a[1] \in I}
           S == {s \in db.sources : s.fact \in I}
           e == [db EXCEPT !.facts = [j \in Ids(db) \ {i} |-> @[j]]]
           d == Cascaded(e)
<1>1. /\ db \in Database /\ Ids(db) \subseteq Id /\ db.facts \in [Ids(db) -> Fact]
      /\ db.sources \subseteq [fact : Id, doc : Doc, status : Status]
      /\ db.adjacency = Ids(db) \X Roles /\ \A r \in db.sources : r.fact \in Ids(db)
      /\ \A j, l \in Ids(db) : db.facts[j].spo = db.facts[l].spo => j = l
      /\ Ids(db) \cap gone = {}
  BY DatabaseFacts DEF IInv, Sound, DeletedStaysDeleted
<1>2. ASSUME Commit(c, d) PROVE IInv'
  <2>1. e = [facts |-> f, adjacency |-> db.adjacency, sources |-> db.sources]
    BY <1>1, ReplacedParts
  <2>2. Ids(e) = I
    BY <2>1 DEF Ids
  <2>3. d = [facts |-> f, adjacency |-> A, sources |-> S]
    <3>1. d = [e EXCEPT !.adjacency = {a \in @ : a[1] \in I}, !.sources = {s \in @ : s.fact \in I}]
      BY <2>2 DEF Cascaded
    <3>2. QED
      BY <2>1, <3>1
  <2>4. A = I \X Roles /\ \A s \in S : s.fact \in I
    BY <1>1
  <2>5. /\ I \in SUBSET Id /\ f \in [I -> Fact] /\ A \in SUBSET (Id \X Roles)
        /\ S \in SUBSET [fact : Id, doc : Doc, status : Status]
    BY <1>1, <2>4
  <2>6. d.facts = f /\ d.adjacency = A /\ d.sources = S
    BY <2>3
  <2>7. \A j, l \in I : f[j].spo = f[l].spo => j = l
    BY <1>1
  <2>8. I \cap gone = {}
    BY <1>1
  <2> HIDE DEF I, f, A, S, d
  <2>9. d \in Database /\ Ids(d) = I
    BY <2>3, <2>5, MakesDatabase
  <2>10. Sound(d) /\ Ids(d) \cap gone = {}
    BY <2>4, <2>6, <2>7, <2>8, <2>9 DEF Sound
  <2>11. QED
    BY <1>2, <2>10, CommitStep
<1>3. ASSUME LockedRollsBack(c, "delete") PROVE IInv'
  BY <1>3, LockedStep DEF LockedRollsBack, Writes
<1>4. QED
  BY <1>2, <1>3 DEF Delete

\* The sources change, each for one of the same fact.
LEMMA SourcesChange ==
  ASSUME IInv, NEW c \in Client, NEW S \in SUBSET [fact : Id, doc : Doc, status : Status],
         \A s \in S : s.fact \in Ids(db), Commit(c, [db EXCEPT !.sources = S])
  PROVE  IInv'
<1> DEFINE d == [db EXCEPT !.sources = S]
<1>1. /\ db \in Database /\ Ids(db) \subseteq Id /\ db.facts \in [Ids(db) -> Fact]
      /\ db.adjacency = Ids(db) \X Roles
      /\ \A j, l \in Ids(db) : db.facts[j].spo = db.facts[l].spo => j = l
      /\ Ids(db) \cap gone = {}
  BY DatabaseFacts DEF IInv, Sound, DeletedStaysDeleted
<1>2. d = [facts |-> db.facts, adjacency |-> db.adjacency, sources |-> S]
  BY <1>1, ReplacedParts
<1>3. d.facts = db.facts /\ d.adjacency = db.adjacency /\ d.sources = S
  BY <1>2
<1>4. db.adjacency \in SUBSET (Id \X Roles)
  BY <1>1
<1> HIDE DEF d
<1>5. d \in Database /\ Ids(d) = Ids(db)
  BY <1>1, <1>2, <1>4, MakesDatabase
<1>6. Sound(d) /\ Ids(d) \cap gone = {}
  BY <1>1, <1>3, <1>5 DEF Sound
<1>7. QED
  BY <1>6, CommitStep DEF d

LEMMA SourceStep ==
  ASSUME IInv, NEW c \in Client, SourceWrite(c) PROVE IInv'
<1>1. /\ db.sources \subseteq [fact : Id, doc : Doc, status : Status]
      /\ \A r \in db.sources : r.fact \in Ids(db)
  BY DatabaseFacts DEF IInv, Sound
<1>2. op[c].id \in Id /\ op[c].doc \in Doc
  BY OperationFacts DEF IInv, SourceWrite, Ready
<1>3. ASSUME op[c].id \in Ids(db),
             Commit(c, [db EXCEPT !.sources = @ \cup {Source(op[c].id, op[c].doc)}])
      PROVE  IInv'
  <2> DEFINE S == db.sources \cup {Source(op[c].id, op[c].doc)}
  <2>1. /\ S \in SUBSET [fact : Id, doc : Doc, status : Status] /\ \A s \in S : s.fact \in Ids(db)
    BY <1>1, <1>2, <1>3 DEF Source, Status
  <2>2. Commit(c, [db EXCEPT !.sources = S])
    BY <1>3
  <2> HIDE DEF S
  <2>3. QED
    BY <2>1, <2>2, SourcesChange
<1>4. ASSUME LockedRollsBack(c, "source") PROVE IInv'
  BY <1>4, LockedStep DEF LockedRollsBack, Writes
<1>5. QED
  BY <1>3, <1>4, RefusedStep DEF SourceWrite

LEMMA MarkStep ==
  ASSUME IInv, NEW c \in Client, NEW sel, NEW status \in Status, Mark(c, sel, status) PROVE IInv'
<1>1. /\ db.sources \subseteq [fact : Id, doc : Doc, status : Status]
      /\ \A r \in db.sources : r.fact \in Ids(db)
  BY DatabaseFacts DEF IInv, Sound
<1> DEFINE S == {IF Selected(s, sel) THEN [s EXCEPT !.status = status] ELSE s : s \in db.sources}
<1>2. ASSUME Commit(c, [db EXCEPT !.sources = {IF Selected(s, sel) THEN [s EXCEPT !.status = status]
                                               ELSE s : s \in @}])
      PROVE  IInv'
  <2>1. ASSUME NEW s \in db.sources
        PROVE  LET r == IF Selected(s, sel) THEN [s EXCEPT !.status = status] ELSE s
               IN  r \in [fact : Id, doc : Doc, status : Status] /\ r.fact \in Ids(db)
    BY <1>1
  <2>2. S \in SUBSET [fact : Id, doc : Doc, status : Status] /\ \A s \in S : s.fact \in Ids(db)
    BY <2>1
  <2>3. Commit(c, [db EXCEPT !.sources = S])
    BY <1>2
  <2> HIDE DEF S
  <2>4. QED
    BY <2>2, <2>3, SourcesChange
<1>3. ASSUME LockedStaysOpen(c, "mark") PROVE IInv'
  BY <1>3, LockedStep DEF LockedStaysOpen, Writes
<1>4. QED
  BY <1>2, <1>3 DEF Mark

-----------------------------------------------------------------------------
(* Reads and iterations.                                                   *)

LEMMA ViewFacts ==
  ASSUME IInv, NEW c \in Client
  PROVE  Ids(View(c)) \subseteq Id
BY DatabaseFacts DEF IInv, TypeOK, View

LEMMA LookStep ==
  ASSUME IInv, NEW c \in Client,
         \/ \E s \in Spo : \E k \in Doc \cup {None} : CreateCheck(c, s, k)
         \/ \E i \in Id : \E new \in Updates : UpdateRead(c, i, new)
         \/ \E i \in Id : \E k \in Doc : SourceRead(c, i, k)
         \/ \E i \in Id : ReadRow(c, i)
         \/ ReadSources(c)
  PROVE  IInv'
<1>1. ASSUME NEW s \in Spo, NEW k \in Doc \cup {None}, CreateCheck(c, s, k) PROVE IInv'
  <2>1. [kind |-> "create", spo |-> s, doc |-> k] \in Operation
    BY DEF Operation
  <2>2. QED
    BY <1>1, <2>1, ReadsOn DEF CreateCheck
<1>2. ASSUME NEW i \in Id, NEW new \in Updates, UpdateRead(c, i, new) PROVE IInv'
  <2>1. [kind |-> "update", id |-> i, new |-> new] \in Operation
    BY DEF Operation
  <2>2. QED
    BY <1>2, <2>1, ReadsOn DEF UpdateRead
<1>3. ASSUME NEW i \in Id, NEW k \in Doc, SourceRead(c, i, k) PROVE IInv'
  <2>1. [kind |-> "source", id |-> i, doc |-> k] \in Operation
    BY DEF Operation
  <2>2. QED
    BY <1>3, <2>1, ReadsOn DEF SourceRead
<1>4. ASSUME NEW i \in Id, ReadRow(c, i) PROVE IInv'
  <2>1. [kind |-> "read", id |-> i] \in Operation
    BY DEF Operation
  <2>2. QED
    BY <1>4, <2>1, ReadsOn DEF ReadRow
<1>5. ASSUME ReadSources(c) PROVE IInv'
  <2>1. Idle \in Operation /\ Idle.kind = "idle"
    BY DEF Operation, Idle
  <2>2. QED
    BY <1>5, <2>1, ReadsOn DEF ReadSources
<1>6. QED
  BY <1>1, <1>2, <1>3, <1>4, <1>5

LEMMA QueryStep ==
  ASSUME IInv, NEW c \in Client, Query(c) PROVE IInv'
<1>1. Reads(c) /\ UNCHANGED <<db, op, gone, timeouts>>
  BY DEF Query
<1>2. txn' \in [Client -> Database \cup {None, Begun}] /\ \A e \in Client : View(e)' = View(e)
  BY <1>1, ReadsFacts DEF IInv
<1>3. TypeOK' /\ Sound(db)' /\ DeletedStaysDeleted'
  BY <1>1, <1>2 DEF IInv, TypeOK, Sound, DeletedStaysDeleted, Ids
<1>4. \A e \in Client : IterOK(e)'
  BY <1>1, <1>2 DEF IInv, IterOK
<1>5. QED
  BY <1>3, <1>4 DEF IInv

LEMMA IterStep ==
  ASSUME IInv, NEW c \in Client, IterBegin(c) \/ (\E i \in Id : IterNext(c, i)) \/ IterEnd(c)
  PROVE  IInv'
<1>1. ASSUME IterBegin(c) PROVE IInv'
  <2> DEFINE I == Ids(View(c))
             o == [kind |-> "iter", left |-> I, seen |-> {}, kept |-> I]
  <2>1. o \in Operation /\ o.kept = I /\ o.left = I
    BY ViewFacts DEF Operation
  <2>2. Goto(c, o) /\ Reads(c) /\ UNCHANGED <<db, gone, timeouts>>
    BY <1>1 DEF IterBegin
  <2> HIDE DEF o
  <2>3. QED
    BY <2>1, <2>2, ReadsOn
<1>2. ASSUME NEW i \in Id, IterNext(c, i) PROVE IInv'
  <2> DEFINE o == [op[c] EXCEPT !.left = @ \ {i}, !.seen = @ \cup ({i} \cap Ids(View(c)))]
  <2>1. op[c] \in [kind : {"iter"}, left : SUBSET Id, seen : SUBSET Id, kept : SUBSET Id]
    BY <1>2, OperationFacts DEF IInv, IterNext, Ready
  <2>2. /\ o.left = op[c].left \ {i} /\ o.kept = op[c].kept
        /\ o.seen = op[c].seen \cup ({i} \cap Ids(View(c)))
    BY <2>1
  <2>3. o \in [kind : {"iter"}, left : SUBSET Id, seen : SUBSET Id, kept : SUBSET Id]
    BY <2>1
  <2>4. op[c].kept \subseteq op[c].left \cup op[c].seen /\ op[c].kept \subseteq Ids(View(c))
    BY <2>1 DEF IInv, IterOK
  <2>5. Goto(c, o) /\ Reads(c) /\ UNCHANGED <<db, gone, timeouts>>
    BY <1>2 DEF IterNext
  <2> HIDE DEF o
  <2>6. o \in Operation
    BY <2>3 DEF Operation
  <2>7. o.kept \subseteq o.left \cup o.seen /\ o.kept \subseteq Ids(View(c))
    BY <2>2, <2>4
  <2>8. QED
    BY <2>5, <2>6, <2>7, ReadsOn
<1>3. ASSUME IterEnd(c) PROVE IInv'
  <2>1. Idle \in Operation /\ Idle.kind = "idle"
    BY DEF Operation, Idle
  <2>2. UNCHANGED <<db, txn, gone, timeouts>> /\ Goto(c, Idle)
    BY <1>3 DEF IterEnd
  <2>3. txn' \in [Client -> Database \cup {None, Begun}] /\ timeouts' \subseteq Client \X Writes
        /\ \A e \in Client : View(e)' = View(e)
    BY <2>2 DEF IInv, TypeOK, View
  <2>4. QED
    BY <2>1, <2>2, <2>3, GoesOn
<1>4. QED
  BY <1>1, <1>2, <1>3

-----------------------------------------------------------------------------
(* The inductive invariant.                                                *)

LEMMA InitIInv == Init => IInv
<1> SUFFICES ASSUME Init PROVE IInv
  OBVIOUS
<1> DEFINE f == [i \in {} |-> 0]
<1>1. db = [facts |-> f, adjacency |-> {}, sources |-> {}] /\ f \in [{} -> Fact]
  BY DEF Init
<1>2. db.facts = f /\ db.adjacency = {} /\ db.sources = {}
  BY <1>1
<1> HIDE DEF f
<1>3. db \in Database /\ Ids(db) = {}
  BY <1>1, MakesDatabase
<1>4. Sound(db) /\ DeletedStaysDeleted
  BY <1>2, <1>3 DEF Sound, DeletedStaysDeleted
<1>5. op \in [Client -> Operation] /\ \A c \in Client : op[c].kind = "idle"
  BY DEF Init, Operation, Idle
<1>6. TypeOK
  BY <1>3, <1>5 DEF Init, TypeOK
<1>7. QED
  BY <1>4, <1>5, <1>6 DEF IInv, IterOK

LEMMA StutterIInv == IInv /\ UNCHANGED vars => IInv'
BY DEF vars, IInv, TypeOK, Sound, DeletedStaysDeleted, IterOK, View, Ids

LEMMA StepIInv == IInv /\ [Next]_vars => IInv'
<1> SUFFICES ASSUME IInv, Next PROVE IInv'
  BY StutterIInv
<1>1. ASSUME NEW c \in Client, Integrity(c) PROVE IInv'
  BY <1>1, MarkStep DEF Integrity
<1>2. QED
  BY <1>1, CreateStep, UpdateStep, DeleteStep, SourceStep, LookStep, QueryStep, IterStep DEF Next

(* The database is sound in every state, and an iteration knows what was   *)
(* there all the time.                                                     *)
THEOREM Inductive == Spec => []IInv
  BY InitIInv, StepIInv, PTL DEF Spec

-----------------------------------------------------------------------------
(* Only on the connection of a client whose update or mark of sources has  *)
(* waited for the lock in vain, which are the two that do not roll back,   *)
(* is a transaction left open in which later operations see the past.      *)
THEOREM TransactionSafety ==
  ASSUME FactStoreAssumption
  PROVE  Spec => []NoTransactionLeft
<1>1. Init => NoTransactionLeft
  BY DEF Init, NoTransactionLeft
<1> DEFINE Late(c) == timeouts \cap ({c} \X {"update", "mark"}) # {}
<1>2. IInv /\ NoTransactionLeft /\ [Next]_vars => NoTransactionLeft'
  <2> SUFFICES ASSUME IInv, NoTransactionLeft, Next PROVE NoTransactionLeft'
    BY DEF vars, NoTransactionLeft
  <2>1. /\ txn \in [Client -> Database \cup {None, Begun}] /\ None # Begun
        /\ \A c \in Client : Late(c) \/ txn[c] = None
    BY DEF IInv, TypeOK, NoTransactionLeft, FactStoreAssumption
  <2>2. ASSUME NEW c \in Client, timeouts \subseteq timeouts',
               Reads(c) \/ txn' = [txn EXCEPT ![c] = None] \/ txn' = txn
        PROVE  NoTransactionLeft'
    <3>1. \A e \in Client : Late(e) => Late(e)'
      BY <2>2
    <3>2. \A e \in Client : txn[e] = None => txn'[e] = None
      BY <2>1, <2>2 DEF Reads
    <3>3. QED
      BY <2>1, <3>1, <3>2 DEF NoTransactionLeft
  <2>3. ASSUME NEW c \in Client, NEW kind \in {"update", "mark"}, LockedStaysOpen(c, kind)
        PROVE  NoTransactionLeft'
    <3>1. timeouts \subseteq timeouts' /\ (Late(c) \/ <<c, kind>> \in timeouts')
      BY <2>1, <2>3 DEF LockedStaysOpen, Locked
    <3>2. Late(c)' /\ \A e \in Client : Late(e) => Late(e)'
      BY <2>3, <3>1
    <3>3. \A e \in Client \ {c} : txn'[e] = txn[e]
      BY <2>1, <2>3 DEF LockedStaysOpen
    <3>4. QED
      BY <2>1, <3>2, <3>3 DEF NoTransactionLeft
  <2>4. ASSUME NEW c \in Client, NEW sel, NEW status, Mark(c, sel, status) PROVE NoTransactionLeft'
    BY <2>2, <2>3, <2>4 DEF Mark, Commit
  <2>5. ASSUME NEW c \in Client, CreateWrite(c) \/ UpdateWrite(c) \/ SourceWrite(c)
        PROVE  NoTransactionLeft'
    BY <2>2, <2>3, <2>5
       DEF CreateWrite, UpdateWrite, SourceWrite, Commit, Refused, LockedRollsBack, Locked
  <2>6. ASSUME NEW c \in Client, NEW i, Delete(c, i) PROVE NoTransactionLeft'
    BY <2>2, <2>6 DEF Delete, Commit, LockedRollsBack, Locked
  <2>7. ASSUME NEW c \in Client, IterEnd(c) PROVE NoTransactionLeft'
    BY <2>2, <2>7 DEF IterEnd
  <2>8. QED
    BY <2>2, <2>4, <2>5, <2>6, <2>7
       DEF Next, Integrity, CreateCheck, UpdateRead, SourceRead, ReadRow, ReadSources, Query,
           IterBegin, IterNext
<1>3. QED
  BY <1>1, <1>2, Inductive, PTL DEF Spec

(* However many clients look before they write, find their wait timed out  *)
(* or read the past: facts are unique, the rows beside them refer to facts *)
(* that exist, no id comes back, iterations miss nothing that stayed, and  *)
(* no transaction is left where every wait that times out rolls back.      *)
THEOREM StoreSafety ==
  ASSUME FactStoreAssumption
  PROVE  Spec => []FactsAgree
<1>1. IInv => TypeOK /\ NoDuplicateFacts /\ RowsAgree /\ DeletedStaysDeleted /\ IterationIsComplete
  <2> SUFFICES ASSUME IInv
               PROVE  TypeOK /\ NoDuplicateFacts /\ RowsAgree /\ DeletedStaysDeleted /\ IterationIsComplete
    OBVIOUS
  <2>1. IterationIsComplete
    BY DEF IInv, IterOK, IterationIsComplete
  <2>2. NoDuplicateFacts /\ RowsAgree
    BY DEF IInv, Sound, NoDuplicateFacts, RowsAgree
  <2>3. QED
    BY <2>1, <2>2 DEF IInv
<1>2. IInv /\ NoTransactionLeft => FactsAgree
  BY <1>1 DEF FactsAgree
<1>3. QED
  BY <1>2, Inductive, TransactionSafety, PTL

-----------------------------------------------------------------------------
(* The names of the glossary: GlossaryStore, where `op` is called `call`.  *)

\* What a client is at says what it looked up.
LEMMA CallFacts ==
  ASSUME Names!TypeOK, NEW c \in Client
  PROVE  /\ call[c].kind = "create" =>
              call[c] \in [kind : {"create"}, id : Id, term : Name, text : Text,
                           names : SUBSET Names!Lower(Name)]
         /\ call[c].kind = "update" =>
              call[c] \in [kind : {"update"}, id : Id, term : Name \cup {None},
                           text : Text \cup {None}, names : {None} \cup SUBSET Names!Lower(Name),
                           hash : Name \X Text \X SUBSET Names!Lower(Name)]
         /\ call[c].kind = "lookup" => call[c] \in [kind : {"lookup"}, id : Id]
<1>1. call[c] \in Names!Operation
  BY DEF Names!TypeOK
<1>2. QED
  BY <1>1 DEF Names!Operation

LEMMA RowFacts ==
  ASSUME Names!TypeOK, NEW i \in Names!Ids
  PROVE  /\ i \in Id /\ entries[i].term \in Name /\ entries[i].text \in Text
         /\ Names!AliasesOf(i) \in SUBSET Names!Lower(Name)
<1>1. entries[i] \in Names!Entry
  BY DEF Names!TypeOK
<1>2. QED
  BY <1>1 DEF Names!TypeOK, Names!Entry, Names!AliasesOf

\* A name that the queries do not find is no other entry's.
LEMMA NotFoundIsFree ==
  ASSUME Names!TypeOK, NEW i
  PROVE  /\ \A a \in Name : ~Names!ExistsForOther(a, i) => Names!MeansNoOther(Normal[a], i)
         /\ \A A \in SUBSET Name : Names!Insertable(A, i) =>
              Names!Lower(A) \in SUBSET Names!Lower(Name)
              /\ \A n \in Names!Lower(A) : Names!MeansNoOther(n, i)
<1>1. ASSUME NEW a \in Name, ~Names!ExistsForOther(a, i) PROVE Names!MeansNoOther(Normal[a], i)
  BY <1>1 DEF Names!ExistsForOther, Names!MeansNoOther, Names!Means, Names!AliasesOf
<1>2. QED
  BY <1>1 DEF Names!Insertable, Names!Lower

\* A client that writes no row.
LEMMA NoRowStep ==
  ASSUME Names!GlossaryAssumption, Names!IInv, UNCHANGED exclusive, UNCHANGED <<entries, aliases>>, NEW c \in Client,
         NEW o \in Names!Operation, call' = [call EXCEPT ![c] = o], raised' \in SUBSET Client,
         \/ lock' = lock
         \/ lock' = (IF exclusive THEN c ELSE None) /\ lock \in {None, c}
         \/ lock' = None /\ lock = c,
         exclusive =>
           /\ o.kind \in {"create", "update"} <=> lock' = c
           /\ o.kind = "create" => Names!CreateOK(c)'
           /\ o.kind = "update" => Names!UpdateOK(c)'
  PROVE  Names!IInv'
<1>1. /\ call' \in [Client -> Names!Operation] /\ call'[c] = o
      /\ \A e \in Client \ {c} : call'[e] = call[e]
  BY DEF Names!IInv, Names!TypeOK
<1>2. Names!TypeOK'
  BY <1>1 DEF Names!IInv, Names!TypeOK, Names!Ids
<1>3. ASSUME exclusive PROVE Names!NameMeansOne' /\ Names!HashMatches'
  BY <1>3 DEF Names!IInv, Names!NameMeansOne, Names!HashMatches, Names!Hash, Names!Means,
               Names!AliasesOf, Names!Ids
<1>4. ASSUME exclusive, NEW e \in Client
      PROVE  /\ call'[e].kind \in {"create", "update"} <=> lock' = e
             /\ call'[e].kind = "create" => Names!CreateOK(e)'
             /\ call'[e].kind = "update" => Names!UpdateOK(e)'
  <2>1. CASE e = c
    BY <1>1, <1>4, <2>1
  <2>2. CASE e # c
    <3>1. lock' = e <=> lock = e
      BY <1>4, <2>2 DEF Names!GlossaryAssumption
    <3>2. call'[e] = call[e]
      BY <1>1, <2>2
    <3>3. Names!CreateOK(e)' <=> Names!CreateOK(e)
      BY <3>2 DEF Names!CreateOK, Names!MeansNoOther, Names!Means, Names!AliasesOf, Names!Ids
    <3>4. Names!UpdateOK(e)' <=> Names!UpdateOK(e)
      <4>1. Names!Ids' = Names!Ids /\ \A i : Names!AliasesOf(i)' = Names!AliasesOf(i)
        BY DEF Names!AliasesOf, Names!Ids
      <4>2. \A n, i : Names!MeansNoOther(n, i)' <=> Names!MeansNoOther(n, i)
        BY DEF Names!MeansNoOther, Names!Means, Names!AliasesOf, Names!Ids
      <4>3. QED
        BY <3>2, <4>1, <4>2 DEF Names!UpdateOK, Names!Hash
    <3>5. QED
      BY <1>4, <3>1, <3>2, <3>3, <3>4 DEF Names!IInv
  <2>3. QED
    BY <2>1, <2>2
<1>5. QED
  BY <1>2, <1>3, <1>4 DEF Names!IInv

\* A client that is done.
LEMMA NothingWritten ==
  ASSUME Names!GlossaryAssumption, Names!IInv, UNCHANGED exclusive, UNCHANGED <<entries, aliases, raised>>,
         NEW c \in Client, Names!Done(c)
  PROVE  Names!IInv'
<1>1. Names!Idle \in Names!Operation /\ Names!Idle.kind = "idle"
  BY DEF Names!Idle, Names!Operation
<1>2. call' = [call EXCEPT ![c] = Names!Idle] /\ lock' # c
  BY DEF Names!Done, Names!GlossaryAssumption
<1>3. raised' \in SUBSET Client
  BY DEF Names!IInv, Names!TypeOK
<1>4. QED
  BY <1>1, <1>2, <1>3, NoRowStep DEF Names!Done

LEMMA CreateCheckStep ==
  ASSUME Names!GlossaryAssumption, Names!IInv, UNCHANGED exclusive, NEW c \in Client,
         NEW term \in Name, NEW text \in Text, NEW A \in SUBSET Name, Names!CreateCheck(c, term, text, A)
  PROVE  Names!IInv'
<1>1. PICK i \in Names!Free :
        /\ ~Names!ExistsForOther(term, i) /\ Names!Insertable(A, i)
        /\ call' = [call EXCEPT ![c] = [kind |-> "create", id |-> i, term |-> term, text |-> text,
                                        names |-> Names!Lower(A)]]
  BY DEF Names!CreateCheck
<1> DEFINE o == [kind |-> "create", id |-> i, term |-> term, text |-> text, names |-> Names!Lower(A)]
<1>2. i \in Id /\ i \notin Names!Ids
  BY DEF Names!Free
<1>3. /\ Names!MeansNoOther(Normal[term], i) /\ Names!Lower(A) \in SUBSET Names!Lower(Name)
      /\ \A n \in Names!Lower(A) : Names!MeansNoOther(n, i)
  BY <1>1, NotFoundIsFree DEF Names!IInv
<1>4. o \in Names!Operation
  BY <1>2, <1>3 DEF Names!Operation
<1>5. call'[c] = o
  BY <1>1 DEF Names!IInv, Names!TypeOK
<1>6. UNCHANGED <<entries, aliases>> /\ raised' \in SUBSET Client
      /\ lock \in {None, c} /\ lock' = IF exclusive THEN c ELSE None
  BY DEF Names!CreateCheck, Names!Take, Names!IInv, Names!TypeOK
<1>7. Names!CreateOK(c)'
  BY <1>2, <1>3, <1>5, <1>6
     DEF Names!CreateOK, Names!MeansNoOther, Names!Means, Names!AliasesOf, Names!Ids
<1>8. o.kind \in {"create", "update"} /\ o.kind # "update"
  OBVIOUS
<1>9. exclusive => lock' = c
  BY <1>6
<1>10. QED
  BY <1>1, <1>4, <1>6, <1>7, <1>8, <1>9, NoRowStep

LEMMA UpdateReadStep ==
  ASSUME Names!GlossaryAssumption, Names!IInv, UNCHANGED exclusive, NEW c \in Client, NEW i \in Id,
         NEW term \in Name \cup {None}, NEW text \in Text \cup {None},
         NEW A \in {None} \cup SUBSET Name, Names!UpdateRead(c, i, term, text, A)
  PROVE  Names!IInv'
<1> DEFINE names == IF A = None THEN None ELSE Names!Lower(A)
           newTerm == IF term = None THEN entries[i].term ELSE term
           newText == IF text = None THEN entries[i].text ELSE text
           newNames == IF A = None THEN Names!AliasesOf(i) ELSE Names!Lower(A)
           o == [kind |-> "update", id |-> i, term |-> term, text |-> text, names |-> names,
                 hash |-> Names!Hash(newTerm, newText, newNames)]
<1>1. /\ call' = [call EXCEPT ![c] = o] /\ i \in Names!Ids
      /\ term \notin {None, entries[i].term} => ~Names!ExistsForOther(term, i)
      /\ A # None => Names!Insertable(A, i)
  BY DEF Names!UpdateRead
<1>2. UNCHANGED <<entries, aliases>> /\ raised' \in SUBSET Client
      /\ lock \in {None, c} /\ lock' = IF exclusive THEN c ELSE None
  BY DEF Names!UpdateRead, Names!Take, Names!IInv, Names!TypeOK
<1>3. Names!TypeOK /\ newTerm \in Name /\ newText \in Text
  BY <1>1, RowFacts DEF Names!IInv
<1>4. A # None => Names!Lower(A) \in SUBSET Names!Lower(Name) /\ Names!Lower(A) # None
                  /\ \A n \in Names!Lower(A) : Names!MeansNoOther(n, i)
  BY <1>1, <1>3, NotFoundIsFree DEF Names!GlossaryAssumption, Names!Lower
<1>5. newNames \in SUBSET Names!Lower(Name) /\ names \in {None} \cup SUBSET Names!Lower(Name)
      /\ newNames = (IF names = None THEN Names!AliasesOf(i) ELSE names)
  BY <1>1, <1>3, <1>4, RowFacts
<1>6. o \in Names!Operation /\ o.kind = "update"
  BY <1>3, <1>5 DEF Names!Operation, Names!Hash
<1>7. call'[c] = o
  BY <1>1 DEF Names!IInv, Names!TypeOK
<1>8. ASSUME exclusive PROVE Names!UpdateOK(c)'
  <2>1. \A n \in {entries[i].term} : Names!MeansNoOther(Normal[n], i)
    BY <1>1, <1>3, <1>8, RowFacts DEF Names!IInv, Names!NameMeansOne, Names!MeansNoOther, Names!Means, Names!Lower
  <2>2. Names!MeansNoOther(Normal[newTerm], i)
    BY <1>1, <1>3, <2>1, NotFoundIsFree
  <2>3. \A n \in Names!AliasesOf(i) : Names!MeansNoOther(n, i)
    BY <1>1, <1>3, <1>8, RowFacts
       DEF Names!MeansNoOther, Names!Means, Names!IInv, Names!NameMeansOne
  <2>4. \A n \in {Normal[newTerm]} \cup newNames : Names!MeansNoOther(n, i)
    BY <1>4, <2>2, <2>3
  <2>5. /\ o.id = i /\ o.term = term /\ o.text = text /\ o.names = names
        /\ o.hash = Names!Hash(newTerm, newText, newNames)
    OBVIOUS
  <2> HIDE DEF o, newTerm, newText, newNames, names
  <2>6. Names!UpdateOK(c)' <=>
          /\ i \in Names!Ids
          /\ \A n \in {Normal[newTerm]} \cup newNames : Names!MeansNoOther(n, i)
    BY <1>2, <1>5, <1>7, <2>5
       DEF newTerm, newText, Names!UpdateOK, Names!Hash, Names!MeansNoOther, Names!Means,
           Names!AliasesOf, Names!Ids
  <2>7. QED
    BY <1>1, <2>4, <2>6
<1>9. QED
  BY <1>1, <1>2, <1>6, <1>8, NoRowStep

-----------------------------------------------------------------------------
(* Rows are written.                                                       *)

\* What a row that is put changes: no other entry means another name than before.
LEMMA PutFacts ==
  ASSUME Names!TypeOK, NEW i \in Id, NEW term \in Name, NEW text \in Text,
         NEW lower \in SUBSET Names!Lower(Name), NEW hash \in Name \X Text \X SUBSET Names!Lower(Name),
         Names!Allowed(i, term, lower), Names!Put(i, term, text, hash, lower)
  PROVE  /\ Names!Ids' = Names!Ids \cup {i} /\ entries' \in [Names!Ids' -> Names!Entry]
         /\ DOMAIN aliases' \subseteq Names!Lower(Name) /\ aliases' \in [DOMAIN aliases' -> Names!Ids']
         /\ entries'[i] = [term |-> term, text |-> text, hash |-> hash] /\ Names!AliasesOf(i)' = lower
         /\ \A j \in Names!Ids \ {i} :
              entries'[j] = entries[j] /\ Names!AliasesOf(j)' = Names!AliasesOf(j)
<1> DEFINE row == [term |-> term, text |-> text, hash |-> hash]
           kept == DOMAIN aliases \ Names!AliasesOf(i)
<1>1. /\ entries' = [j \in Names!Ids \cup {i} |-> IF j = i THEN row ELSE entries[j]]
      /\ aliases' = [n \in kept \cup lower |-> IF n \in lower THEN i ELSE aliases[n]]
  BY DEF Names!Put
<1>2. row \in Names!Entry
  BY DEF Names!Entry
<1>3. Names!Ids' = Names!Ids \cup {i}
  BY <1>1 DEF Names!Ids
<1>4. entries' \in [Names!Ids' -> Names!Entry]
  BY <1>1, <1>2, <1>3 DEF Names!TypeOK
<1>5. DOMAIN aliases' = kept \cup lower /\ kept \subseteq DOMAIN aliases
  BY <1>1
<1>6. DOMAIN aliases' \subseteq Names!Lower(Name)
  BY <1>5 DEF Names!TypeOK
<1>7. \A n \in kept : aliases[n] \in Names!Ids
  BY <1>5 DEF Names!TypeOK
<1>8. aliases' \in [DOMAIN aliases' -> Names!Ids']
  BY <1>1, <1>3, <1>5, <1>7
<1>9. Names!AliasesOf(i)' = lower
  BY <1>1, <1>5 DEF Names!AliasesOf
<1>10. ASSUME NEW j \in Names!Ids \ {i} PROVE Names!AliasesOf(j)' = Names!AliasesOf(j)
  <2>1. \A n \in lower \cap DOMAIN aliases : aliases[n] = i
    BY DEF Names!Allowed
  <2>2. \A n : n \in DOMAIN aliases' /\ aliases'[n] = j <=> n \in DOMAIN aliases /\ aliases[n] = j
    BY <1>1, <1>5, <2>1 DEF Names!AliasesOf
  <2>3. QED
    BY <2>2 DEF Names!AliasesOf
<1>11. QED
  BY <1>1, <1>3, <1>4, <1>6, <1>8, <1>9, <1>10

\* A row is put by the client that looked its names up.
LEMMA PutStepOK ==
  ASSUME Names!GlossaryAssumption, Names!IInv, UNCHANGED exclusive, NEW c \in Client, Names!Done(c), UNCHANGED raised,
         call[c].kind \in {"create", "update"},
         NEW i \in Id, NEW term \in Name, NEW text \in Text,
         NEW lower \in SUBSET Names!Lower(Name), NEW hash \in Name \X Text \X SUBSET Names!Lower(Name),
         Names!Allowed(i, term, lower), Names!Put(i, term, text, hash, lower),
         exclusive => /\ hash = Names!Hash(term, text, lower)
                      /\ \A n \in {Normal[term]} \cup lower : Names!MeansNoOther(n, i)
  PROVE  Names!IInv'
<1>1. /\ Names!Ids' = Names!Ids \cup {i} /\ entries' \in [Names!Ids' -> Names!Entry]
      /\ DOMAIN aliases' \subseteq Names!Lower(Name) /\ aliases' \in [DOMAIN aliases' -> Names!Ids']
      /\ entries'[i] = [term |-> term, text |-> text, hash |-> hash] /\ Names!AliasesOf(i)' = lower
      /\ \A j \in Names!Ids \ {i} :
           entries'[j] = entries[j] /\ Names!AliasesOf(j)' = Names!AliasesOf(j)
  BY PutFacts DEF Names!IInv
<1>2. /\ call' \in [Client -> Names!Operation] /\ call'[c] = Names!Idle /\ Names!Idle.kind = "idle"
      /\ \A e \in Client \ {c} : call'[e] = call[e]
      /\ lock' = IF lock = c THEN None ELSE lock
  BY DEF Names!Done, Names!IInv, Names!TypeOK, Names!Idle, Names!Operation
<1>3. Names!TypeOK'
  <2>1. /\ raised' \subseteq Client /\ lock' \in Client \cup {None}
        /\ exclusive' \in BOOLEAN /\ (exclusive' \/ lock' = None)
    BY <1>2 DEF Names!IInv, Names!TypeOK
  <2>2. Names!Ids' \subseteq Id
    BY <1>1 DEF Names!IInv, Names!TypeOK
  <2>3. QED
    BY <1>1, <1>2, <2>1, <2>2 DEF Names!TypeOK
<1>4. ASSUME exclusive PROVE Names!NameMeansOne'
  <2>1. \A n : Names!Means(n, i)' <=> n \in {Normal[term]} \cup lower
    BY <1>1 DEF Names!Means
  <2>2. \A j \in Names!Ids \ {i} : \A n : Names!Means(n, j)' <=> Names!Means(n, j)
    BY <1>1 DEF Names!Means
  <2>3. \A n \in {Normal[term]} \cup lower : Names!MeansNoOther(n, i)
    BY <1>4
  <2>4. Names!Lower(Name)' = Names!Lower(Name) /\ Names!NameMeansOne
    BY <1>4 DEF Names!Lower, Names!IInv
  <2>5. QED
    BY <1>1, <2>1, <2>2, <2>3, <2>4 DEF Names!NameMeansOne, Names!MeansNoOther
<1>5. ASSUME exclusive PROVE Names!HashMatches'
  BY <1>1, <1>5 DEF Names!HashMatches, Names!Hash, Names!IInv
<1>6. ASSUME exclusive, NEW e \in Client
      PROVE  call'[e].kind \notin {"create", "update"} /\ lock' # e
  BY <1>2, <1>6 DEF Names!IInv, Names!GlossaryAssumption
<1>7. QED
  BY <1>3, <1>4, <1>5, <1>6 DEF Names!IInv

LEMMA CreateWriteStep ==
  ASSUME Names!GlossaryAssumption, Names!IInv, UNCHANGED exclusive, NEW c \in Client, Names!CreateWrite(c)
  PROVE  Names!IInv'
<1> DEFINE o == call[c]
<1>1. o.kind = "create" /\ Names!Done(c) /\ UNCHANGED raised
  BY DEF Names!CreateWrite
<1>2. /\ o.id \in Id /\ o.term \in Name /\ o.text \in Text /\ o.names \in SUBSET Names!Lower(Name)
  BY <1>1, CallFacts DEF Names!IInv
<1>3. Names!Hash(o.term, o.text, o.names) \in Name \X Text \X SUBSET Names!Lower(Name)
  BY <1>2 DEF Names!Hash
<1>4. exclusive => \A n \in {Normal[o.term]} \cup o.names : Names!MeansNoOther(n, o.id)
  BY <1>1 DEF Names!IInv, Names!CreateOK
<1>5. CASE Names!Allowed(o.id, o.term, o.names)
  <2>1. Names!Put(o.id, o.term, o.text, Names!Hash(o.term, o.text, o.names), o.names)
    BY <1>5 DEF Names!CreateWrite
  <2> HIDE DEF o
  <2>2. call[c].kind \in {"create", "update"}
    BY <1>1 DEF o
  <2>3. QED
    BY <1>1, <1>2, <1>3, <1>4, <1>5, <2>1, <2>2, PutStepOK
<1>6. CASE ~Names!Allowed(o.id, o.term, o.names)
  BY <1>1, <1>6, NothingWritten DEF Names!CreateWrite
<1>7. QED
  BY <1>5, <1>6

LEMMA UpdateWriteStep ==
  ASSUME Names!GlossaryAssumption, Names!IInv, UNCHANGED exclusive, NEW c \in Client, Names!UpdateWrite(c)
  PROVE  Names!IInv'
<1> DEFINE o == call[c]
           term == IF o.term = None THEN entries[o.id].term ELSE o.term
           text == IF o.text = None THEN entries[o.id].text ELSE o.text
           lower == IF o.names = None THEN Names!AliasesOf(o.id) ELSE o.names
<1>1. o.kind = "update" /\ Names!Done(c) /\ UNCHANGED raised
  BY DEF Names!UpdateWrite
<1>2. CASE o.id \in Names!Ids /\ Names!Allowed(o.id, term, lower)
  <2>1. Names!Put(o.id, term, text, o.hash, lower)
    BY <1>2 DEF Names!UpdateWrite
  <2>2. o.id \in Id /\ term \in Name /\ text \in Text /\ lower \in SUBSET Names!Lower(Name)
        /\ o.hash \in Name \X Text \X SUBSET Names!Lower(Name)
    BY <1>1, <1>2, CallFacts, RowFacts DEF Names!IInv
  <2>3. exclusive => /\ o.hash = Names!Hash(term, text, lower)
                     /\ \A n \in {Normal[term]} \cup lower : Names!MeansNoOther(n, o.id)
    BY <1>1 DEF Names!IInv, Names!UpdateOK
  <2>4. call[c].kind \in {"create", "update"}
    BY <1>1
  <2> HIDE DEF o, term, text, lower
  <2>5. QED
    BY <1>1, <1>2, <2>1, <2>2, <2>3, <2>4, PutStepOK
<1>3. CASE ~(o.id \in Names!Ids /\ Names!Allowed(o.id, term, lower))
  BY <1>1, <1>3, NothingWritten DEF Names!UpdateWrite
<1>4. QED
  BY <1>2, <1>3

\* A delete while a client holds the lock waits; no client is about to write then.
LEMMA DeleteRowStep ==
  ASSUME Names!GlossaryAssumption, Names!IInv, UNCHANGED exclusive, NEW c \in Client, NEW i \in Id, Names!Delete(c, i)
  PROVE  Names!IInv'
<1>1. /\ i \in Names!Ids /\ lock = None /\ UNCHANGED <<call, lock, raised>>
      /\ entries' = [j \in Names!Ids \ {i} |-> entries[j]]
      /\ aliases' = [n \in DOMAIN aliases \ Names!AliasesOf(i) |-> aliases[n]]
  BY DEF Names!Delete
<1>2. Names!Ids' = Names!Ids \ {i} /\ DOMAIN aliases' = DOMAIN aliases \ Names!AliasesOf(i)
  BY <1>1 DEF Names!Ids
<1>3. entries' \in [Names!Ids' -> Names!Entry] /\ \A j \in Names!Ids' : entries'[j] = entries[j]
  BY <1>1, <1>2 DEF Names!IInv, Names!TypeOK
<1>4. \A n \in DOMAIN aliases' : aliases'[n] = aliases[n] /\ aliases'[n] \in Names!Ids'
  BY <1>1, <1>2 DEF Names!IInv, Names!TypeOK, Names!AliasesOf
<1>5. aliases' \in [DOMAIN aliases' -> Names!Ids']
  BY <1>1, <1>2, <1>4
<1>6. Names!TypeOK'
  BY <1>1, <1>2, <1>3, <1>5 DEF Names!IInv, Names!TypeOK
<1>7. \A j \in Names!Ids' : Names!AliasesOf(j)' = Names!AliasesOf(j)
  BY <1>2, <1>4 DEF Names!AliasesOf
<1>8. exclusive => Names!NameMeansOne' /\ Names!HashMatches'
  <2>1. \A j \in Names!Ids' : \A n : Names!Means(n, j)' <=> Names!Means(n, j)
    BY <1>3, <1>7 DEF Names!Means
  <2>2. Names!Ids' \subseteq Names!Ids /\ Names!Lower(Name)' = Names!Lower(Name)
    BY <1>2 DEF Names!Lower
  <2>3. Names!NameMeansOne => Names!NameMeansOne'
    BY <2>1, <2>2 DEF Names!NameMeansOne
  <2>4. Names!HashMatches => Names!HashMatches'
    BY <1>3, <1>7, <2>2 DEF Names!HashMatches, Names!Hash
  <2>5. QED
    BY <2>3, <2>4 DEF Names!IInv
<1>9. ASSUME exclusive, NEW e \in Client PROVE call'[e].kind \notin {"create", "update"} /\ lock' # e
  BY <1>1, <1>9 DEF Names!IInv, Names!GlossaryAssumption
<1>10. QED
  BY <1>6, <1>8, <1>9 DEF Names!IInv

LEMMA LookupStep ==
  ASSUME Names!GlossaryAssumption, Names!IInv, UNCHANGED exclusive, NEW c \in Client,
         Names!LookupRead(c) \/ \E a \in Name : Names!LookupFind(c, a)
  PROVE  Names!IInv'
<1>1. Names!TypeOK /\ (exclusive => (call[c].kind \in {"create", "update"} <=> lock = c))
  BY DEF Names!IInv
<1>2. CASE Names!LookupRead(c)
  <2>1. Names!Idle \in Names!Operation /\ Names!Idle.kind = "idle"
    BY DEF Names!Idle, Names!Operation
  <2>2. /\ call[c].kind = "lookup" /\ call' = [call EXCEPT ![c] = Names!Idle]
        /\ UNCHANGED <<entries, aliases, lock>> /\ raised' \in SUBSET Client
    BY <1>1, <1>2 DEF Names!LookupRead, Names!TypeOK
  <2>3. QED
    BY <1>1, <2>1, <2>2, NoRowStep
<1>3. CASE \E a \in Name : Names!LookupFind(c, a)
  <2>1. PICK i \in Names!Ids : call' = [call EXCEPT ![c] = [kind |-> "lookup", id |-> i]]
    BY <1>3 DEF Names!LookupFind
  <2>2. /\ call[c].kind = "idle" /\ UNCHANGED <<entries, aliases, lock>> /\ raised' \in SUBSET Client
    BY <1>1, <1>3 DEF Names!LookupFind, Names!TypeOK
  <2> DEFINE o == [kind |-> "lookup", id |-> i]
  <2>3. o \in Names!Operation /\ o.kind = "lookup"
    BY <1>1 DEF Names!Operation, Names!TypeOK
  <2>4. QED
    BY <1>1, <2>1, <2>2, <2>3, NoRowStep
<1>4. QED
  BY <1>2, <1>3

LEMMA NamesInit ==
  ASSUME Names!GlossaryAssumption, Names!Init PROVE Names!IInv
<1>1. Names!Idle \in Names!Operation /\ Names!Idle.kind = "idle"
  BY DEF Names!Idle, Names!Operation
<1>2. Names!Ids = {} /\ DOMAIN aliases = {}
  BY DEF Names!Init, Names!Ids
<1>3. entries \in [{} -> Names!Entry] /\ aliases \in [{} -> {}]
  BY DEF Names!Init
<1>4. Names!TypeOK
  BY <1>1, <1>2, <1>3 DEF Names!Init, Names!TypeOK
<1>5. QED
  BY <1>1, <1>2, <1>4 DEF Names!Init, Names!IInv, Names!NameMeansOne, Names!HashMatches,
                          Names!GlossaryAssumption

LEMMA NamesStutter ==
  ASSUME Names!IInv, UNCHANGED Names!vars PROVE Names!IInv'
<1>1. UNCHANGED <<entries, aliases, call, lock, exclusive, raised>>
  BY DEF Names!vars
<1>2. Names!TypeOK' /\ (Names!NameMeansOne' <=> Names!NameMeansOne) /\ (Names!HashMatches' <=> Names!HashMatches)
  BY <1>1 DEF Names!IInv, Names!TypeOK, Names!Ids, Names!NameMeansOne, Names!HashMatches, Names!Hash,
              Names!Means, Names!AliasesOf
<1>3. \A c \in Client : (Names!CreateOK(c)' <=> Names!CreateOK(c)) /\ (Names!UpdateOK(c)' <=> Names!UpdateOK(c))
  BY <1>1 DEF Names!CreateOK, Names!UpdateOK, Names!Hash, Names!MeansNoOther, Names!Means,
              Names!AliasesOf, Names!Ids
<1>4. QED
  BY <1>1, <1>2, <1>3 DEF Names!IInv

LEMMA NamesStep ==
  ASSUME Names!GlossaryAssumption, Names!IInv, [Names!Next]_Names!vars PROVE Names!IInv'
BY NamesStutter, CreateCheckStep, UpdateReadStep, CreateWriteStep, UpdateWriteStep, DeleteRowStep,
   LookupStep DEF Names!Next, Names!Step

(* A client that holds the lock from the look to the write finds what it   *)
(* looked up unchanged: its names are no other entry's, and the hash it    *)
(* computed is that of what is stored.                                     *)
THEOREM NamesInductive ==
  ASSUME Names!GlossaryAssumption
  PROVE  Names!Spec => []Names!IInv
<1>1. Names!Init => Names!IInv
  BY NamesInit
<1>2. Names!IInv /\ [Names!Next]_Names!vars => Names!IInv'
  BY NamesStep
<1>3. QED
  BY <1>1, <1>2, PTL DEF Names!Spec

(* For any number of clients, entries and spellings: under the lock, a     *)
(* name in any case is the term or an alias of one entry at the most, and  *)
(* every entry has the hash of its term, texts and aliases; with or        *)
(* without it, an alias belongs to an entry.                               *)
THEOREM NamesSafety ==
  ASSUME Names!GlossaryAssumption
  PROVE  Names!Spec => []NamesMeanOne
<1>1. Names!IInv => NamesMeanOne
  BY DEF Names!IInv, NamesMeanOne, Names!NamesMeanOne
<1>2. QED
  BY <1>1, NamesInductive, PTL
-----------------------------------------------------------------------------
(* The search over the graph of facts: FactGraph, where facts are called   *)
(* edges.                                                                  *)

LEMMA SameSets ==
  \A S : (Graph!IsFiniteSet(S) <=> IsFiniteSet(S)) /\ Graph!Cardinality(S) = Cardinality(S)
BY DEF Graph!IsFiniteSet, IsFiniteSet, Graph!Cardinality, Cardinality

LEMMA GraphStays ==
  ASSUME UNCHANGED <<graph, query>>
  PROVE  /\ \A f : Graph!Ends(f)' = Graph!Ends(f)
         /\ Graph!Starts(graph, query)' = Graph!Starts(graph, query)
         /\ \A e : Graph!Found(e)' = Graph!Found(e)
         /\ \A f, e : Graph!Other(f, e)' = Graph!Other(f, e)
         /\ \A p : Graph!Walk(p)' = Graph!Walk(p)
         /\ \A F, n : Graph!Within(F, n)' = Graph!Within(F, n)
<1>1. graph' = graph /\ query' = query
  OBVIOUS
<1>2. \A f : Graph!Ends(f)' = Graph!Ends(f)
  BY <1>1 DEF Graph!Ends
<1>3. Graph!Starts(graph, query)' = Graph!Starts(graph, query)
  BY <1>1
<1>4. \A e : Graph!Found(e)' = Graph!Found(e)
  BY <1>1 DEF Graph!Found
<1>5. \A f, e : Graph!Other(f, e)' = Graph!Other(f, e)
  BY <1>1 DEF Graph!Other
<1>6. \A p : Graph!Walk(p)' = Graph!Walk(p)
  BY <1>1 DEF Graph!Walk, Graph!Across, Graph!Ends, Graph!Other
<1>7. \A F, n : Graph!Within(F, n)' = Graph!Within(F, n)
  BY <1>1 DEF Graph!Within, Graph!Neighbours, Graph!Ends
<1>8. QED
  BY <1>2, <1>3, <1>4, <1>5, <1>6, <1>7

LEMMA EntitiesTyped ==
  ASSUME Graph!Typed
  PROVE  /\ Graph!Starts(graph, query) \in SUBSET Entity
         /\ \A R : \A F \in SUBSET DOMAIN graph : Graph!Neighbours(F, R) \in SUBSET Entity
         /\ \A f \in DOMAIN graph : \A e \in Graph!Ends(f) : Graph!Other(f, e) \in Entity
              /\ Graph!Ends(f) = {e, Graph!Other(f, e)}
<1>1. Graph!Starts(graph, query) \in SUBSET Entity
  BY DEF Graph!Typed, Graph!Starts, Graph!Ends
<1>2. \A R : \A F \in SUBSET DOMAIN graph : Graph!Neighbours(F, R) \in SUBSET Entity
  BY DEF Graph!Typed, Graph!Neighbours
<1>3. \A f \in DOMAIN graph : \A e \in Graph!Ends(f) : Graph!Other(f, e) \in Entity
        /\ Graph!Ends(f) = {e, Graph!Other(f, e)}
  BY DEF Graph!Typed, Graph!Ends, Graph!Other
<1>4. QED
  BY <1>1, <1>2, <1>3

\* Within solves its equations.
LEMMA WithinFacts ==
  ASSUME Graph!GraphAssumption, Graph!Typed, NEW F \in SUBSET DOMAIN graph
  PROVE  /\ Graph!Within(F, 0) = Graph!Starts(graph, query)
         /\ \A n \in 1 .. MaxDepth :
              Graph!Within(F, n) =
                Graph!Within(F, n - 1) \cup Graph!Neighbours(F, Graph!Within(F, n - 1))
<1> DEFINE S == Graph!Starts(graph, query)
           Val(f, n) == IF n = 0 THEN S ELSE f[n - 1] \cup Graph!Neighbours(F, f[n - 1])
           Solves(f) == f = [n \in 0 .. MaxDepth |-> Val(f, n)]
           next == [x \in (SUBSET Entity) \X (1 .. MaxDepth) |-> x[1] \cup Graph!Neighbours(F, x[1])]
<1>1. MaxDepth \in Nat
  BY DEF Graph!GraphAssumption
<1>2. S \in SUBSET Entity /\ \A R : Graph!Neighbours(F, R) \in SUBSET Entity
  BY EntitiesTyped
<1> HIDE DEF S
<1>3. next \in [(SUBSET Entity) \X (1 .. MaxDepth) -> SUBSET Entity]
  <2>1. ASSUME NEW x \in (SUBSET Entity) \X (1 .. MaxDepth)
        PROVE x[1] \cup Graph!Neighbours(F, x[1]) \in SUBSET Entity
    BY <1>2
  <2>2. QED
    BY <2>1
<1>4. \A R \in SUBSET Entity, n \in 1 .. MaxDepth : next[<<R, n>>] = R \cup Graph!Neighbours(F, R)
  OBVIOUS
<1> HIDE DEF next
<1>5. PICK f : IsRecursive(f, SUBSET Entity, S, MaxDepth, next)
  <2>1. Recurs(SUBSET Entity, S, MaxDepth, next)
    BY <1>1, <1>2, <1>3 DEF Recurs
  <2>2. QED
    BY <2>1, Recursion
<1>6. \A n \in 0 .. MaxDepth : f[n] = Val(f, n)
  <2>1. ASSUME NEW n \in 1 .. MaxDepth PROVE f[n] = f[n - 1] \cup Graph!Neighbours(F, f[n - 1])
    <3>1. f[n - 1] \in SUBSET Entity
      BY <1>1, <1>5 DEF IsRecursive
    <3>2. QED
      BY <3>1, <1>4, <1>5 DEF IsRecursive
  <2>2. QED
    BY <2>1, <1>1, <1>5 DEF IsRecursive
<1>7. Solves(f)
  <2> HIDE DEF Val
  <2>1. QED
    BY <1>5, <1>6 DEF IsRecursive
<1> DEFINE g == CHOOSE h : Solves(h)
<1>8. Solves(g)
  <2> HIDE DEF Solves
  <2>1. QED
    BY <1>7
<1>9. \A n : Graph!Within(F, n) = g[n]
  BY DEF Graph!Within, S
<1> HIDE DEF g
<1>10. \A n \in 0 .. MaxDepth : g[n] = Val(g, n)
  <2> HIDE DEF Val
  <2>1. QED
    BY <1>8
<1>11. Graph!Within(F, 0) = S
  <2>1. 0 \in 0 .. MaxDepth
    BY <1>1
  <2>2. g[0] = Val(g, 0)
    <3> HIDE DEF Val
    <3>1. QED
      BY <2>1, <1>10
  <2>3. Val(g, 0) = S
    OBVIOUS
  <2>4. QED
    BY <2>2, <2>3, <1>9
<1>12. ASSUME NEW n \in 1 .. MaxDepth
       PROVE Graph!Within(F, n) =
               Graph!Within(F, n - 1) \cup Graph!Neighbours(F, Graph!Within(F, n - 1))
  <2>1. g[n] = g[n - 1] \cup Graph!Neighbours(F, g[n - 1])
    <3>1. n \in 0 .. MaxDepth /\ n # 0
      BY <1>1
    <3>2. g[n] = Val(g, n)
      <4> HIDE DEF Val
      <4>1. QED
        BY <3>1, <1>10
    <3>3. Val(g, n) = g[n - 1] \cup Graph!Neighbours(F, g[n - 1])
      BY <3>1
    <3>4. QED
      BY <3>2, <3>3
  <2>2. QED
    BY <2>1, <1>9
<1>13. QED
  BY <1>11, <1>12 DEF S

\* Fewer facts lead to less.
LEMMA WithinShrinks ==
  ASSUME Graph!GraphAssumption, Graph!Typed, NEW F \in SUBSET DOMAIN graph, NEW G \in SUBSET F,
    NEW n \in 0 .. MaxDepth
  PROVE  Graph!Within(G, n) \subseteq Graph!Within(F, n)
<1> DEFINE T == {k \in Nat : k <= MaxDepth => Graph!Within(G, k) \subseteq Graph!Within(F, k)}
<1>1. MaxDepth \in Nat /\ G \in SUBSET DOMAIN graph
  BY DEF Graph!GraphAssumption
<1>2. 0 \in T
  <2>1. Graph!Within(G, 0) = Graph!Within(F, 0)
    BY <1>1, WithinFacts
  <2>2. QED
    BY <2>1
<1>3. ASSUME NEW k \in Nat, k \in T PROVE k + 1 \in T
  <2>1. SUFFICES ASSUME k + 1 <= MaxDepth
         PROVE Graph!Within(G, k + 1) \subseteq Graph!Within(F, k + 1)
    OBVIOUS
  <2>2. k + 1 \in 1 .. MaxDepth /\ (k + 1) - 1 = k /\ k <= MaxDepth
    BY <1>1, <2>1
  <2>3. Graph!Within(F, k + 1) = Graph!Within(F, k) \cup Graph!Neighbours(F, Graph!Within(F, k))
    BY <2>2, WithinFacts
  <2>4. Graph!Within(G, k + 1) = Graph!Within(G, k) \cup Graph!Neighbours(G, Graph!Within(G, k))
    BY <1>1, <2>2, WithinFacts
  <2>5. Graph!Within(G, k) \subseteq Graph!Within(F, k)
    BY <1>3, <2>2
  <2>6. Graph!Neighbours(G, Graph!Within(G, k)) \subseteq Graph!Neighbours(F, Graph!Within(F, k))
    BY <2>5 DEF Graph!Neighbours
  <2>7. QED
    BY <2>3, <2>4, <2>5, <2>6
<1>4. Nat \subseteq T
  <2> HIDE DEF T
  <2>1. QED
    BY <1>2, <1>3, AllNaturals
<1>5. QED
  BY <1>1, <1>4

LEMMA WithinGrows ==
  ASSUME Graph!GraphAssumption, Graph!Typed, NEW m \in 0 .. MaxDepth, NEW n \in 0 .. MaxDepth,
    m <= n
  PROVE  Graph!Within(stored, m) \subseteq Graph!Within(stored, n)
<1> DEFINE T == {k \in Nat : m + k <= MaxDepth =>
                    Graph!Within(stored, m) \subseteq Graph!Within(stored, m + k)}
<1>1. MaxDepth \in Nat /\ stored \in SUBSET DOMAIN graph
  BY DEF Graph!GraphAssumption, Graph!Typed
<1>2. 0 \in T
  BY <1>1
<1>3. ASSUME NEW k \in Nat, k \in T PROVE k + 1 \in T
  <2>1. SUFFICES ASSUME m + (k + 1) <= MaxDepth
         PROVE Graph!Within(stored, m) \subseteq Graph!Within(stored, m + (k + 1))
    OBVIOUS
  <2>2. m + (k + 1) \in 1 .. MaxDepth /\ (m + (k + 1)) - 1 = m + k /\ m + k <= MaxDepth
    BY <1>1, <2>1
  <2>3. Graph!Within(stored, m + (k + 1)) =
          Graph!Within(stored, m + k) \cup Graph!Neighbours(stored, Graph!Within(stored, m + k))
    BY <1>1, <2>2, WithinFacts
  <2>4. Graph!Within(stored, m) \subseteq Graph!Within(stored, m + k)
    BY <1>3, <2>2
  <2>5. QED
    BY <2>3, <2>4
<1>4. Nat \subseteq T
  <2> HIDE DEF T
  <2>1. QED
    BY <1>2, <1>3, AllNaturals
<1>5. n - m \in Nat /\ m + (n - m) = n /\ n <= MaxDepth
  BY <1>1
<1>6. QED
  BY <1>4, <1>5

LEMMA NotNearer ==
  ASSUME Graph!GraphAssumption, Graph!Typed, NEW e, NEW n \in 0 .. MaxDepth, Graph!NoNearer(e, n),
    NEW k \in 0 .. MaxDepth, k < n
  PROVE  e \notin Graph!Within(stored, k)
<1>1. n > 0 /\ n - 1 \in 0 .. MaxDepth /\ k <= n - 1 /\ MaxDepth \in Nat
  BY DEF Graph!GraphAssumption
<1>2. e \notin Graph!Within(stored, n - 1)
  BY <1>1 DEF Graph!NoNearer
<1>3. QED
  BY <1>1, <1>2, WithinGrows

\* The stops of a walk.
IsWalk(p, g) ==
  g[0] = Graph!Starts(graph, query) /\ \A n \in 1 .. Len(p) : g[n] = Graph!Across(p[n], g[n - 1])

LEMMA WalkExists ==
  ASSUME Graph!Typed, NEW p \in Seq(Edge), \A n \in 1 .. Len(p) : p[n] \in DOMAIN graph
  PROVE  \E g : IsWalk(p, g) /\ Graph!Walk(p) = g[Len(p)]
<1> DEFINE S == Graph!Starts(graph, query)
           N == Len(p)
           Val(f, n) == IF n = 0 THEN S ELSE Graph!Across(p[n], f[n - 1])
           Solves(f) == f = [n \in 0 .. N |-> Val(f, n)]
           next == [x \in (SUBSET Entity) \X (1 .. N) |-> Graph!Across(p[x[2]], x[1])]
<1>1. N \in Nat
  OBVIOUS
<1>2. S \in SUBSET Entity /\ \A n \in 1 .. N, R \in SUBSET Entity :
        Graph!Across(p[n], R) \in SUBSET Entity
  BY EntitiesTyped DEF Graph!Across
<1> HIDE DEF S, N
<1>3. next \in [(SUBSET Entity) \X (1 .. N) -> SUBSET Entity]
  <2>1. ASSUME NEW x \in (SUBSET Entity) \X (1 .. N)
        PROVE Graph!Across(p[x[2]], x[1]) \in SUBSET Entity
    BY <1>2
  <2>2. QED
    BY <2>1
<1>4. \A R \in SUBSET Entity, n \in 1 .. N : next[<<R, n>>] = Graph!Across(p[n], R)
  OBVIOUS
<1> HIDE DEF next
<1>5. PICK f : IsRecursive(f, SUBSET Entity, S, N, next)
  <2>1. Recurs(SUBSET Entity, S, N, next)
    BY <1>1, <1>2, <1>3 DEF Recurs
  <2>2. QED
    BY <2>1, Recursion
<1>6. \A n \in 0 .. N : f[n] = Val(f, n)
  <2>1. ASSUME NEW n \in 1 .. N PROVE f[n] = Graph!Across(p[n], f[n - 1])
    <3>1. f[n - 1] \in SUBSET Entity
      BY <1>1, <1>5 DEF IsRecursive
    <3>2. QED
      BY <3>1, <1>4, <1>5 DEF IsRecursive
  <2>2. QED
    BY <2>1, <1>1, <1>5 DEF IsRecursive
<1>7. Solves(f)
  <2> HIDE DEF Val
  <2>1. QED
    BY <1>5, <1>6 DEF IsRecursive
<1> DEFINE g == CHOOSE h : Solves(h)
<1>8. Solves(g)
  <2> HIDE DEF Solves
  <2>1. QED
    BY <1>7
<1>9. Graph!Walk(p) = g[N]
  BY DEF Graph!Walk, S, N
<1> HIDE DEF g
<1>10. \A n \in 0 .. N : g[n] = Val(g, n)
  <2> HIDE DEF Val
  <2>1. QED
    BY <1>8
<1>11. g[0] = S
  BY <1>1, <1>10
<1>12. \A n \in 1 .. N : g[n] = Graph!Across(p[n], g[n - 1])
  BY <1>1, <1>10
<1>13. QED
  BY <1>9, <1>11, <1>12 DEF S, N, IsWalk

LEMMA WalkFacts ==
  ASSUME Graph!Typed, NEW p \in Seq(Edge), \A n \in 1 .. Len(p) : p[n] \in DOMAIN graph,
         NEW f \in DOMAIN graph
  PROVE  /\ Graph!Walk(<<>>) = Graph!Starts(graph, query)
         /\ Graph!Walk(Append(p, f)) = Graph!Across(f, Graph!Walk(p))
<1> DEFINE q == Append(p, f)
           N == Len(p)
<1>1. f \in Edge
  BY DEF Graph!Typed
<1>2. /\ N \in Nat /\ q \in Seq(Edge) /\ Len(q) = N + 1
      /\ q[N + 1] = f /\ \A n \in 1 .. N : q[n] = p[n]
  BY <1>1
<1>3. \A n \in 1 .. Len(q) : q[n] \in DOMAIN graph
  <2>1. ASSUME NEW n \in 1 .. Len(q) PROVE n = N + 1 \/ n \in 1 .. N
    BY <1>2
  <2>2. QED
    BY <2>1, <1>2
<1> HIDE DEF q, N
<1>4. PICK g : IsWalk(p, g) /\ Graph!Walk(p) = g[Len(p)]
  BY WalkExists
<1>5. PICK h : IsWalk(q, h) /\ Graph!Walk(q) = h[Len(q)]
  BY <1>2, <1>3, WalkExists
<1> DEFINE T == {k \in Nat : k <= N => g[k] = h[k]}
<1>6. 0 \in T
  BY <1>4, <1>5 DEF IsWalk
<1>7. ASSUME NEW k \in Nat, k \in T PROVE k + 1 \in T
  <2>1. SUFFICES ASSUME k + 1 <= N PROVE g[k + 1] = h[k + 1]
    OBVIOUS
  <2>2. k + 1 \in 1 .. Len(p) /\ k + 1 \in 1 .. Len(q) /\ k + 1 \in 1 .. N
          /\ (k + 1) - 1 = k /\ k <= N
    BY <2>1, <1>2 DEF N
  <2>3. g[k + 1] = Graph!Across(p[k + 1], g[k]) /\ h[k + 1] = Graph!Across(q[k + 1], h[k])
    BY <2>2, <1>4, <1>5 DEF IsWalk
  <2>4. QED
    BY <2>2, <2>3, <1>2, <1>7
<1>8. Nat \subseteq T
  <2> HIDE DEF T
  <2>1. QED
    BY <1>6, <1>7, AllNaturals
<1>9. g[N] = h[N]
  BY <1>2, <1>8
<1>10. h[N + 1] = Graph!Across(f, h[N])
  <2>1. N + 1 \in 1 .. Len(q) /\ (N + 1) - 1 = N
    BY <1>2
  <2>2. QED
    BY <2>1, <1>2, <1>5 DEF IsWalk
<1>11. Graph!Walk(q) = Graph!Across(f, Graph!Walk(p))
  BY <1>4, <1>5, <1>9, <1>10, <1>2 DEF N
<1>12. Graph!Walk(<<>>) = Graph!Starts(graph, query)
  <2>1. <<>> \in Seq(Edge) /\ Len(<<>>) = 0 /\ \A n \in 1 .. Len(<<>>) : <<>>[n] \in DOMAIN graph
    OBVIOUS
  <2>2. PICK j : IsWalk(<<>>, j) /\ Graph!Walk(<<>>) = j[Len(<<>>)]
    BY <2>1, WalkExists
  <2>3. QED
    BY <2>1, <2>2 DEF IsWalk
<1>13. QED
  BY <1>11, <1>12 DEF q

\* What is met stays so, also when facts are deleted.
LEMMA FoundStays ==
  ASSUME Graph!GraphAssumption, Graph!Typed, UNCHANGED <<graph, query>>, stored' \subseteq stored,
         visited \subseteq visited', collected \subseteq collected',
         paths # <<>> => paths' # <<>>
  PROVE  /\ \A n \in 0 .. MaxDepth : Graph!Within(stored, n)' \subseteq Graph!Within(stored, n)
         /\ \A e : \A n \in 0 .. MaxDepth : Graph!NoNearer(e, n) => Graph!NoNearer(e, n)'
         /\ \A i \in Graph!Items : Len(i.path) <= MaxDepth /\ Graph!Ready(i) => Graph!Ready(i)'
         /\ \A e : Graph!Told(e) => Graph!Told(e)'
         /\ \A e : Graph!Met(e) => Graph!Met(e)'
         /\ \A e, F : Graph!Expanded(e, F) => Graph!Expanded(e, F)'
<1>1. graph' = graph /\ query' = query
  OBVIOUS
<1>2. \A n \in 0 .. MaxDepth : Graph!Within(stored, n)' \subseteq Graph!Within(stored, n)
  <2>1. SUFFICES ASSUME NEW n \in 0 .. MaxDepth
         PROVE Graph!Within(stored, n)' \subseteq Graph!Within(stored, n)
    OBVIOUS
  <2>2. PICK G : G = stored'
    OBVIOUS
  <2>3. G \in SUBSET stored /\ stored \in SUBSET DOMAIN graph
    BY <2>2 DEF Graph!Typed
  <2>4. Graph!Within(G, n) \subseteq Graph!Within(stored, n)
    BY <2>3, WithinShrinks
  <2>5. Graph!Within(stored, n)' = Graph!Within(G, n)
    BY <2>2, GraphStays
  <2>6. QED
    BY <2>4, <2>5
<1>3. \A e : \A n \in 0 .. MaxDepth : Graph!NoNearer(e, n) => Graph!NoNearer(e, n)'
  <2>1. SUFFICES ASSUME NEW e, NEW n \in 0 .. MaxDepth, Graph!NoNearer(e, n), n > 0
         PROVE e \notin Graph!Within(stored, n - 1)'
    BY DEF Graph!NoNearer
  <2>2. n - 1 \in 0 .. MaxDepth
    BY <2>1 DEF Graph!GraphAssumption
  <2>3. QED
    BY <2>1, <2>2, <1>2 DEF Graph!NoNearer
<1>4. \A i \in Graph!Items : Len(i.path) <= MaxDepth /\ Graph!Ready(i) => Graph!Ready(i)'
  <2>1. SUFFICES ASSUME NEW i \in Graph!Items, Len(i.path) <= MaxDepth, Graph!Ready(i)
         PROVE Graph!Ready(i)'
    OBVIOUS
  <2>2. Len(i.path) \in 0 .. MaxDepth
    BY <2>1 DEF Graph!Items, Graph!GraphAssumption
  <2>3. Graph!NoNearer(i.at, Len(i.path))'
    BY <2>1, <2>2, <1>3 DEF Graph!Ready
  <2>4. (i.at \in Graph!Walk(i.path))'
    BY <2>1, GraphStays DEF Graph!Ready
  <2>5. \A n \in 1 .. Len(i.path) : i.path[n] \in DOMAIN graph'
          /\ Graph!Ends(i.path[n])' \subseteq visited'
    BY <2>1, <1>1, GraphStays DEF Graph!Ready
  <2>6. QED
    BY <2>1, <2>3, <2>4, <2>5 DEF Graph!Ready
<1>5. \A e : Graph!Told(e) => Graph!Told(e)'
  <2>1. SUFFICES ASSUME NEW e, Graph!Told(e) PROVE Graph!Told(e)'
    OBVIOUS
  <2>2. Graph!Found(e)' = Graph!Found(e) /\ Graph!Starts(graph, query)' = Graph!Starts(graph, query)
    BY GraphStays
  <2>3. CASE query.target = None
    BY <1>1, <2>1, <2>3 DEF Graph!Told
  <2>4. CASE query.target # None
    <3>1. SUFFICES ASSUME Graph!Found(e)' PROVE e \in Graph!Starts(graph, query)' \/ paths' # <<>>
      BY <1>1, <2>4 DEF Graph!Told
    <3>2. Graph!Found(e)
      BY <3>1, <2>2
    <3>3. QED
      BY <3>2, <2>1, <2>2, <2>4 DEF Graph!Told
  <2>5. QED
    BY <2>3, <2>4
<1>6. \A e : Graph!Met(e) => Graph!Met(e)'
  <2>1. SUFFICES ASSUME NEW e, Graph!Met(e) PROVE Graph!Met(e)'
    OBVIOUS
  <2>2. Graph!Within(stored, MaxDepth - 1)' \subseteq Graph!Within(stored, MaxDepth - 1)
    BY <1>2 DEF Graph!GraphAssumption
  <2>3. Graph!Told(e)'
    BY <1>5, <2>1 DEF Graph!Met
  <2>4. QED
    BY <2>1, <2>2, <2>3 DEF Graph!Met
<1>7. \A e, F : Graph!Expanded(e, F) => Graph!Expanded(e, F)'
  <2>1. SUFFICES ASSUME NEW e, NEW F, Graph!Expanded(e, F) PROVE Graph!Expanded(e, F)'
    OBVIOUS
  <2>2. Graph!FactsOf(e)' \subseteq Graph!FactsOf(e) /\ \A f : Graph!Ends(f)' = Graph!Ends(f)
    BY GraphStays DEF Graph!FactsOf
  <2>3. ASSUME NEW f \in (Graph!FactsOf(e) \ F), NEW o \in Graph!Ends(f) PROVE Graph!Met(o)'
    BY <1>6, <2>1 DEF Graph!Expanded
  <2>4. QED
    BY <2>2, <2>3 DEF Graph!Expanded
<1>8. QED
  BY <1>2, <1>3, <1>4, <1>5, <1>6, <1>7

\* The search goes on n facts away from the start, or further.
Beyond(n) ==
  /\ \A m \in DOMAIN queue : n <= Len(queue[m].path)
  /\ node # None => n <= Len(node.path)

\* Then all that is nearer has been visited.
LEMMA Closure ==
  ASSUME Graph!GraphAssumption, Graph!Typed, Graph!QueueOK, Graph!NodeOK, Graph!VisitedOK,
    Len(paths) < Limit,
         NEW n \in 0 .. MaxDepth - 1, Beyond(n)
  PROVE  Graph!Within(stored, n) \subseteq visited
<1> DEFINE T == {k \in Nat : k <= n => Graph!Within(stored, k) \subseteq visited}
<1>1. MaxDepth \in Nat /\ MaxDepth >= 1 /\ stored \in SUBSET DOMAIN graph
  BY DEF Graph!GraphAssumption, Graph!Typed
<1>2. 0 \in T
  BY <1>1, WithinFacts DEF Graph!VisitedOK
<1>3. ASSUME NEW k \in Nat, k \in T PROVE k + 1 \in T
  <2>1. SUFFICES ASSUME k + 1 <= n, NEW x \in Graph!Within(stored, k + 1) PROVE x \in visited
    OBVIOUS
  <2>2. k \in 0 .. MaxDepth /\ k + 1 \in 1 .. MaxDepth /\ (k + 1) - 1 = k /\ k < n /\ k <= n
    BY <1>1, <2>1
  <2>3. Graph!Within(stored, k) \subseteq visited
    BY <1>3, <2>2
  <2>4. Graph!Within(stored, k + 1) =
          Graph!Within(stored, k) \cup Graph!Neighbours(stored, Graph!Within(stored, k))
    BY <1>1, <2>2, WithinFacts
  <2>5. CASE x \in Graph!Within(stored, k)
    BY <2>3, <2>5
  <2>6. CASE x \in Graph!Neighbours(stored, Graph!Within(stored, k))
    <3>1. PICK f \in stored, y \in Graph!Within(stored, k) : x \in Graph!Ends(f)
            /\ y \in Graph!Ends(f)
      BY <2>6 DEF Graph!Neighbours
    <3>2. y \in visited /\ f \in Graph!FactsOf(y)
      BY <3>1, <2>3 DEF Graph!FactsOf
    <3>3. ASSUME NEW i \in Graph!Items, Graph!Ready(i), i.at = y, n <= Len(i.path),
            Len(i.path) < MaxDepth PROVE FALSE
      <4>1. Len(i.path) \in 0 .. MaxDepth /\ k < Len(i.path)
        BY <3>3, <2>2, <1>1 DEF Graph!Items
      <4>2. Graph!NoNearer(y, Len(i.path))
        BY <3>3 DEF Graph!Ready
      <4>3. QED
        BY <4>1, <4>2, <2>2, <3>1, NotNearer
    <3>4. ~\E m \in DOMAIN queue : queue[m].at = y
      <4>1. ASSUME NEW m \in DOMAIN queue, queue[m].at = y PROVE FALSE
        <5>1. queue[m] \in Graph!Items /\ Len(queue[m].path) < MaxDepth
          BY DEF Graph!Typed
        <5>2. Graph!Ready(queue[m]) /\ n <= Len(queue[m].path)
          BY DEF Graph!QueueOK, Beyond
        <5>3. QED
          BY <5>1, <5>2, <4>1, <3>3
      <4>2. QED
        BY <4>1
    <3>5. ~(node # None /\ node.at = y)
      <4>1. ASSUME node # None, node.at = y PROVE FALSE
        <5>1. node \in Graph!Items /\ Len(node.path) < MaxDepth
          BY <4>1 DEF Graph!Typed
        <5>2. Graph!Ready(node) /\ n <= Len(node.path)
          BY <4>1 DEF Graph!NodeOK, Beyond
        <5>3. QED
          BY <5>1, <5>2, <4>1, <3>3
      <4>2. QED
        BY <4>1
    <3>6. Graph!Expanded(y, {})
      BY <3>2, <3>4, <3>5 DEF Graph!VisitedOK
    <3>7. Graph!Met(x)
      BY <3>1, <3>2, <3>6 DEF Graph!Expanded
    <3>8. Graph!Within(stored, k + 1) \subseteq Graph!Within(stored, MaxDepth - 1)
      <4>1. k + 1 \in 0 .. MaxDepth /\ MaxDepth - 1 \in 0 .. MaxDepth /\ k + 1 <= MaxDepth - 1
        BY <1>1, <2>1
      <4>2. QED
        BY <4>1, WithinGrows
    <3>9. QED
      BY <3>7, <3>8, <2>1 DEF Graph!Met
  <2>7. QED
    BY <2>1, <2>4, <2>5, <2>6
<1>4. Nat \subseteq T
  <2> HIDE DEF T
  <2>1. QED
    BY <1>2, <1>3, AllNaturals
<1>5. QED
  BY <1>1, <1>4

\* A search that is not cut short has met all that is in reach.
LEMMA AllTold ==
  ASSUME Graph!GraphAssumption, Graph!Typed, Graph!QueueOK, Graph!NodeOK, Graph!VisitedOK,
    Graph!DoneOK, Graph!Complete
  PROVE  \A e \in Graph!Within(stored, MaxDepth) : Graph!Told(e)
<1>1. /\ MaxDepth \in 1 .. 10 /\ Limit \in Nat /\ Len(paths) \in Nat
      /\ stored \in SUBSET DOMAIN graph
  BY DEF Graph!GraphAssumption, Graph!Typed
<1>2. node = None /\ queue = <<>>
  BY <1>1 DEF Graph!DoneOK, Graph!Complete
<1>3. Beyond(MaxDepth - 1)
  BY <1>2 DEF Beyond
<1>4. Graph!Within(stored, MaxDepth - 1) \subseteq visited
  <2>1. MaxDepth - 1 \in 0 .. MaxDepth - 1
    BY <1>1
  <2>2. QED
    BY <2>1, <1>3, Closure DEF Graph!Complete
<1>5. Graph!Within(stored, MaxDepth) =
        Graph!Within(stored, MaxDepth - 1)
          \cup Graph!Neighbours(stored, Graph!Within(stored, MaxDepth - 1))
  <2>1. MaxDepth \in 1 .. MaxDepth
    BY <1>1
  <2>2. QED
    BY <1>1, <2>1, WithinFacts
<1>6. SUFFICES ASSUME NEW e \in Graph!Within(stored, MaxDepth) PROVE Graph!Told(e)
  OBVIOUS
<1>7. CASE e \in Graph!Within(stored, MaxDepth - 1)
  BY <1>4, <1>7 DEF Graph!VisitedOK
<1>8. CASE e \in Graph!Neighbours(stored, Graph!Within(stored, MaxDepth - 1))
  <2>1. PICK f \in stored, y \in Graph!Within(stored, MaxDepth - 1) : e \in Graph!Ends(f)
          /\ y \in Graph!Ends(f)
    BY <1>8 DEF Graph!Neighbours
  <2>2. y \in visited /\ f \in Graph!FactsOf(y)
    BY <2>1, <1>4 DEF Graph!FactsOf
  <2>3. Graph!Expanded(y, {})
    BY <2>2, <1>2 DEF Graph!VisitedOK, Graph!Complete
  <2>4. QED
    BY <2>1, <2>2, <2>3 DEF Graph!Expanded, Graph!Met
<1>9. QED
  BY <1>5, <1>6, <1>7, <1>8

LEMMA StartsFinite ==
  ASSUME Graph!GraphAssumption, DOMAIN graph \subseteq Edge
  PROVE  IsFiniteSet(Graph!Starts(graph, query))
<1> DEFINE D == DOMAIN graph
           A == {graph[f].s : f \in D}
           B == {graph[f].o : f \in D}
<1>1. IsFiniteSet(D)
  BY FS_Subset, SameSets DEF Graph!GraphAssumption
<1>2. IsFiniteSet(A)
  <2>1. [f \in D |-> graph[f].s] \in Surjection(D, A)
    BY DEF Surjection
  <2> HIDE DEF D, A
  <2>2. QED
    BY <1>1, <2>1, FS_Surjection
<1>3. IsFiniteSet(B)
  <2>1. [f \in D |-> graph[f].o] \in Surjection(D, B)
    BY DEF Surjection
  <2> HIDE DEF D, B
  <2>2. QED
    BY <1>1, <2>1, FS_Surjection
<1>4. IsFiniteSet(A \cup B)
  <2> HIDE DEF A, B
  <2>1. QED
    BY <1>2, <1>3, FS_Union
<1>5. Graph!Starts(graph, query) \in SUBSET (A \cup B)
  BY DEF Graph!Starts
<1>6. QED
  BY <1>4, <1>5, FS_Subset

\* An injection between finite sets of one size leaves nothing out.
LEMMA Onto ==
  ASSUME NEW S, IsFiniteSet(S), NEW s \in Graph!SetToSeqs(S)
  PROVE  s \in Seq(S) /\ \A e \in S : \E n \in DOMAIN s : s[n] = e
<1> DEFINE D == 1 .. Cardinality(S)
<1>1. Cardinality(S) \in Nat
  BY FS_CardinalityType
<1>2. s \in [D -> S] /\ \A i, j \in D : i # j => s[i] # s[j]
  BY SameSets DEF Graph!SetToSeqs
<1>3. s \in Injection(D, S)
  BY <1>2 DEF Injection, IsInjective
<1>4. IsFiniteSet(D) /\ Cardinality(D) = Cardinality(S)
  BY <1>1, FS_Interval
<1>5. s \in Surjection(D, S)
  <2> HIDE DEF D
  <2>1. QED
    BY <1>3, <1>4, FS_Injection
<1>6. QED
  BY <1>1, <1>2, <1>5 DEF Surjection

LEMMA GraphInitTyped == ASSUME Graph!GraphAssumption, Graph!Init PROVE Graph!Typed
<1>1. /\ graph \in Graphs /\ stored = DOMAIN graph
      /\ visited = Graph!Starts(graph, query) /\ collected = visited
      /\ paths = <<>> /\ node = None /\ rows = {} /\ pc = "search"
  BY DEF Graph!Init
<1>2. DOMAIN graph \subseteq Edge /\ \A f \in DOMAIN graph : Graph!Ends(f) \subseteq Entity
  BY <1>1 DEF Graph!GraphAssumption, Graph!Ends
<1>3. visited \in SUBSET Entity
  BY <1>1, <1>2 DEF Graph!Starts, Graph!Ends
<1>4. PICK s \in Graph!SetToSeqs(visited) : queue = [n \in DOMAIN s |-> [at |-> s[n], path |-> <<>>]]
  BY DEF Graph!Init
<1>5. s \in Seq(visited)
  BY <1>1, <1>2, StartsFinite, Onto
<1>6. \A n \in DOMAIN queue : queue[n] = [at |-> s[n], path |-> <<>>] /\ s[n] \in visited
  BY <1>4, <1>5
<1>7. queue \in Seq(Graph!Items) /\ \A n \in DOMAIN queue : queue[n].at \in visited
        /\ Len(queue[n].path) < MaxDepth
  <2>1. ASSUME NEW n \in DOMAIN queue
        PROVE queue[n] \in Graph!Items /\ queue[n].at \in visited /\ Len(queue[n].path) = 0
    <3>1. s[n] \in Entity /\ <<>> \in Seq(Edge)
      BY <1>3, <1>6
    <3>2. [at |-> s[n], path |-> <<>>] \in Graph!Items
      BY <3>1 DEF Graph!Items
    <3>3. QED
      BY <3>2, <1>6
  <2>2. Len(s) \in Nat /\ DOMAIN queue = 1 .. Len(s)
    BY <1>4, <1>5
  <2>3. queue = [n \in 1 .. Len(s) |-> queue[n]]
    BY <1>4, <2>2
  <2>4. queue \in Seq(Graph!Items)
    BY <2>1, <2>2, <2>3
  <2>5. QED
    BY <2>1, <2>4 DEF Graph!GraphAssumption
<1>8. paths \in Seq(Seq(Edge)) /\ Len(paths) <= Limit /\ \A n \in DOMAIN paths :
        Len(paths[n]) \in 1 .. MaxDepth
  BY <1>1 DEF Graph!GraphAssumption
<1>9. QED
  BY <1>1, <1>2, <1>3, <1>7, <1>8 DEF Graph!Typed

LEMMA GraphInitHolds == ASSUME Graph!GraphAssumption, Graph!Init PROVE Graph!IInv
<1> DEFINE S == Graph!Starts(graph, query)
<1>1. /\ graph \in Graphs /\ visited = S /\ collected = S
      /\ paths = <<>> /\ node = None /\ rows = {} /\ pc = "search"
  BY DEF Graph!Init
<1>2. Graph!Typed
  BY GraphInitTyped
<1>4. Graph!Walk(<<>>) = S
  <2>1. <<>> \in Seq(Edge) /\ \A n \in 1 .. Len(<<>>) : <<>>[n] \in DOMAIN graph
    OBVIOUS
  <2>2. PICK g : IsWalk(<<>>, g) /\ Graph!Walk(<<>>) = g[Len(<<>>)]
    BY <1>2, <2>1, WalkExists
  <2>3. QED
    BY <2>2 DEF IsWalk
<1>5. PICK s \in Graph!SetToSeqs(visited) : queue = [n \in DOMAIN s |-> [at |-> s[n], path |-> <<>>]]
  BY DEF Graph!Init
<1>6. s \in Seq(visited) /\ \A e \in visited : \E n \in DOMAIN s : s[n] = e
  BY <1>1, <1>2, StartsFinite, Onto DEF Graph!Typed
<1>7. DOMAIN queue = DOMAIN s /\ \A n \in DOMAIN queue :
        queue[n] = [at |-> s[n], path |-> <<>>] /\ s[n] \in visited
  BY <1>5, <1>6
<1>8. Graph!QueueOK
  <2>1. ASSUME NEW n \in DOMAIN queue PROVE Graph!Ready(queue[n])
    <3> DEFINE i == queue[n]
    <3>1. i.at \in visited /\ i.path = <<>> /\ Len(i.path) = 0
      BY <1>7
    <3> HIDE DEF i
    <3>2. Graph!NoNearer(i.at, Len(i.path))
      BY <3>1 DEF Graph!NoNearer
    <3>3. Graph!Ready(i)
      BY <3>1, <3>2, <1>1, <1>4 DEF Graph!Ready, Graph!IsInjective
    <3>4. QED
      BY <3>3 DEF i
  <2>2. ASSUME NEW m \in DOMAIN queue, NEW n \in DOMAIN queue
        PROVE Graph!Follows(queue[m], queue[n])
    BY <1>7 DEF Graph!Follows
  <2>3. QED
    BY <2>1, <2>2 DEF Graph!QueueOK
<1>9. Graph!NodeOK
  BY <1>1 DEF Graph!NodeOK
<1>10. Graph!VisitedOK
  <2>1. \A e \in visited : Graph!Told(e)
    BY <1>1 DEF Graph!Told
  <2>2. \A e \in visited : \E n \in DOMAIN queue : queue[n].at = e
    BY <1>6, <1>7
  <2>3. QED
    BY <1>1, <2>1, <2>2 DEF Graph!VisitedOK
<1>11. Graph!PathsConnect
  BY <1>1 DEF Graph!PathsConnect
<1>12. Graph!DoneOK
  BY <1>1 DEF Graph!DoneOK
<1>13. Graph!ListOK
  <2>2. collected \ S = {} /\ IsFiniteSet({}) /\ Cardinality({}) = 0
    BY <1>1, FS_EmptySet
  <2>3. IsFiniteSet(collected \ S) /\ Cardinality(collected \ S) = Len(paths)
    BY <2>2, <1>1
  <2> HIDE DEF S
  <2>4. QED
    BY <1>1, <2>2, <2>3, SameSets DEF Graph!ListOK, S
<1>14. Graph!FirstOK
  BY <1>1 DEF Graph!FirstOK
<1>15. QED
  BY <1>2, <1>8, <1>9, <1>10, <1>11, <1>12, <1>13, <1>14 DEF Graph!IInv

\* The next fact of a path, and what it leads to.
LEMMA NextFact ==
  ASSUME Graph!GraphAssumption, Graph!Typed, NEW f, Graph!Follow(f)
  PROVE  LET e == Graph!Other(f, node.at)
             path == Append(node.path, f)
         IN /\ node \in Graph!Items /\ node.at \in visited /\ Len(node.path) \in 0 .. MaxDepth - 1
            /\ f \in DOMAIN graph /\ f \in Edge /\ f \in rows /\ e \in Entity
            /\ path \in Seq(Edge) /\ Len(path) = Len(node.path) + 1 /\ Len(path) \in 1 .. MaxDepth
            /\ path[Len(path)] = f /\ \A n \in 1 .. Len(node.path) : path[n] = node.path[n]
<1>1. f \in rows /\ f \in DOMAIN graph /\ f \in Edge
  BY DEF Graph!Follow, Graph!Typed
<1>2. node \in Graph!Items /\ node.at \in visited /\ Len(node.path) < MaxDepth
  BY <1>1 DEF Graph!Typed
<1>3. node.path \in Seq(Edge)
  BY <1>2 DEF Graph!Items
<1>4. Graph!Other(f, node.at) \in Entity
  BY <1>1 DEF Graph!Typed, Graph!Other, Graph!Ends
<1>5. MaxDepth \in Nat
  BY DEF Graph!GraphAssumption
<1> DEFINE p == node.path
<1>6. Len(p) \in 0 .. MaxDepth - 1
  BY <1>2, <1>3, <1>5
<1>7. p \in Seq(Edge)
  BY <1>3
<1> HIDE DEF p
<1>8. /\ Append(p, f) \in Seq(Edge) /\ Len(Append(p, f)) = Len(p) + 1
      /\ Append(p, f)[Len(Append(p, f))] = f /\ \A n \in 1 .. Len(p) : Append(p, f)[n] = p[n]
  BY <1>1, <1>7
<1>9. Len(Append(p, f)) \in 1 .. MaxDepth
  BY <1>5, <1>6, <1>8
<1>10. QED
  BY <1>1, <1>2, <1>4, <1>6, <1>8, <1>9 DEF p

\* What a step of the search does that goes on from one fact.
LEMMA FollowSteps ==
  ASSUME Graph!GraphAssumption, Graph!Typed, NEW f, Graph!Follow(f)
  PROVE  LET e == Graph!Other(f, node.at)
             path == Append(node.path, f)
         IN /\ Len(paths) < Limit /\ rows' = rows \ {f} /\ UNCHANGED <<graph, stored, query, node, pc>>
            /\ \/ /\ Graph!Wanted(e) /\ paths' = Append(paths, path)
                  /\ collected' = IF query.target = None THEN collected \cup {e} ELSE collected
               \/ ~Graph!Wanted(e) /\ UNCHANGED <<paths, collected>>
            /\ \/ /\ Len(paths') < Limit /\ Len(path) < MaxDepth /\ e \notin visited
                  /\ visited' = visited \cup {e}
                  /\ queue' = Append(queue, [at |-> e, path |-> path])
               \/ /\ Len(paths') >= Limit \/ Len(path) = MaxDepth \/ e \in visited
                  /\ UNCHANGED <<visited, queue>>
<1> DEFINE e == Graph!Other(f, node.at)
           path == Append(node.path, f)
<1>1. Len(path) \in 1 .. MaxDepth /\ MaxDepth \in Nat
  BY NextFact DEF Graph!GraphAssumption
<1>2. Len(paths) < Limit /\ rows' = rows \ {f} /\ UNCHANGED <<graph, stored, query, node, pc>>
  BY DEF Graph!Follow
<1>3. IF Graph!Wanted(e)
      THEN /\ paths' = Append(paths, path)
           /\ collected' = IF query.target = None THEN collected \cup {e} ELSE collected
      ELSE UNCHANGED <<paths, collected>>
  BY DEF Graph!Follow
<1>4. IF Len(paths') < Limit THEN Graph!Enqueue(e, path) ELSE UNCHANGED <<visited, queue>>
  BY DEF Graph!Follow
<1> HIDE DEF e, path
<1>5. paths' \in Seq(Seq(Edge)) /\ Len(paths') \in Nat /\ Limit \in Nat
  <2>1. path \in Seq(Edge)
    BY NextFact DEF path
  <2>2. paths \in Seq(Seq(Edge)) /\ Limit \in Nat
    BY DEF Graph!Typed, Graph!GraphAssumption
  <2>3. paths' = Append(paths, path) \/ paths' = paths
    BY <1>3
  <2>4. paths' \in Seq(Seq(Edge))
    <3>1. CASE paths' = Append(paths, path)
      <4>1. Append(paths, path) \in Seq(Seq(Edge))
        BY <2>1, <2>2, AppendProperties
      <4>2. QED
        BY <4>1, <3>1
    <3>2. CASE paths' = paths
      BY <2>2, <3>2
    <3>3. QED
      BY <2>3, <3>1, <3>2
  <2>5. QED
    BY <2>2, <2>4, LenProperties
<1>6. CASE Len(paths') < Limit /\ Len(path) < MaxDepth /\ e \notin visited
  BY <1>2, <1>3, <1>4, <1>6 DEF Graph!Enqueue, e, path
<1>7. CASE ~(Len(paths') < Limit /\ Len(path) < MaxDepth /\ e \notin visited)
  <2>1. Len(paths') >= Limit \/ Len(path) = MaxDepth \/ e \in visited
    BY <1>1, <1>5, <1>7
  <2>2. UNCHANGED <<visited, queue>>
    BY <1>4, <1>7 DEF Graph!Enqueue
  <2>3. QED
    BY <1>2, <1>3, <2>1, <2>2 DEF e, path
<1>8. QED
  BY <1>6, <1>7

LEMMA PopTyped ==
  ASSUME Graph!GraphAssumption, Graph!Typed, Graph!Pop
  PROVE Graph!Typed'
<1>1. /\ queue \in Seq(Graph!Items) /\ queue # <<>> /\ queue' = Tail(queue)
      /\ UNCHANGED <<graph, stored, query, visited, collected, paths, pc>>
  BY DEF Graph!Pop, Graph!Typed
<1>2. /\ Head(queue) = queue[1] /\ 1 \in DOMAIN queue /\ queue[1] \in Graph!Items
      /\ queue' \in Seq(Graph!Items) /\ \A n \in DOMAIN queue' : n + 1 \in DOMAIN queue
           /\ queue'[n] = queue[n + 1]
  BY <1>1
<1>3. queue[1].at \in visited /\ Len(queue[1].path) < MaxDepth
  BY <1>2 DEF Graph!Typed
<1>4. MaxDepth \in Nat /\ Len(queue[1].path) \in Nat
  BY <1>2 DEF Graph!GraphAssumption, Graph!Items
<1>5. node' = Head(queue) /\ rows' = Graph!FactsOf(Head(queue).at)
  BY <1>2, <1>3, <1>4 DEF Graph!Pop
<1>6. node' \in Graph!Items /\ node' # None
  BY <1>2, <1>5 DEF Graph!GraphAssumption, Graph!Items
<1>7. rows' \subseteq Edge
  BY <1>5 DEF Graph!FactsOf, Graph!Typed
<1>8. \A f \in DOMAIN graph' : Graph!Ends(f)' \subseteq Entity
  BY <1>1 DEF Graph!Typed, Graph!Ends
<1>9. \A n \in DOMAIN queue' : queue'[n].at \in visited' /\ Len(queue'[n].path) < MaxDepth
  BY <1>1, <1>2 DEF Graph!Typed
<1>10. QED
  BY <1>1, <1>2, <1>3, <1>5, <1>6, <1>7, <1>8, <1>9 DEF Graph!Typed

LEMMA FollowTyped ==
  ASSUME Graph!GraphAssumption, Graph!Typed, NEW f, Graph!Follow(f)
  PROVE Graph!Typed'
<1> DEFINE e == Graph!Other(f, node.at)
           path == Append(node.path, f)
<1>1. /\ node \in Graph!Items /\ e \in Entity /\ path \in Seq(Edge) /\ Len(path) \in 1 .. MaxDepth
      /\ node # None
  BY NextFact DEF Graph!GraphAssumption, Graph!Items
<1>2. Len(paths) < Limit /\ rows' = rows \ {f} /\ UNCHANGED <<graph, stored, query, node, pc>>
  BY FollowSteps
<1>3. \/ paths' = Append(paths, path) /\ collected' \subseteq collected \cup {e}
      \/ UNCHANGED <<paths, collected>>
  BY FollowSteps
<1>4. \/ /\ Len(path) < MaxDepth
         /\ visited' = visited \cup {e} /\ queue' = Append(queue, [at |-> e, path |-> path])
      \/ UNCHANGED <<visited, queue>>
  BY FollowSteps
<1>5. /\ paths \in Seq(Seq(Edge)) /\ queue \in Seq(Graph!Items) /\ Limit \in Nat
      /\ visited \subseteq Entity /\ collected \subseteq Entity
      /\ \A n \in DOMAIN paths : Len(paths[n]) \in 1 .. MaxDepth
      /\ \A n \in DOMAIN queue : queue[n].at \in visited /\ Len(queue[n].path) < MaxDepth
  BY DEF Graph!Typed, Graph!GraphAssumption
<1> HIDE DEF e, path
<1>6. collected' \subseteq Entity /\ visited' \subseteq Entity
  BY <1>1, <1>3, <1>4, <1>5
<1>7. paths' \in Seq(Seq(Edge)) /\ Len(paths') <= Limit /\ \A n \in DOMAIN paths' :
        Len(paths'[n]) \in 1 .. MaxDepth
  <2>1. CASE paths' = Append(paths, path)
    <3>1. /\ Append(paths, path) \in Seq(Seq(Edge)) /\ Len(Append(paths, path)) = Len(paths) + 1
          /\ Append(paths, path)[Len(paths) + 1] = path
          /\ \A n \in 1 .. Len(paths) : Append(paths, path)[n] = paths[n]
      BY <1>1, <1>5, AppendProperties
    <3>2. Len(paths') <= Limit
      BY <1>2, <1>5, <2>1, <3>1
    <3>3. ASSUME NEW n \in DOMAIN paths' PROVE Len(paths'[n]) \in 1 .. MaxDepth
      <4>1. n \in 1 .. Len(paths) \/ n = Len(paths) + 1
        BY <1>5, <2>1, <3>1
      <4>2. QED
        BY <4>1, <1>1, <1>5, <2>1, <3>1
    <3>4. QED
      BY <2>1, <3>1, <3>2, <3>3
  <2>2. CASE paths' = paths
    BY <2>2, <1>5 DEF Graph!Typed
  <2>3. QED
    BY <1>3, <2>1, <2>2
<1>8. /\ queue' \in Seq(Graph!Items) /\ visited \subseteq visited'
      /\ \A n \in DOMAIN queue' : queue'[n].at \in visited' /\ Len(queue'[n].path) < MaxDepth
  <2>1. CASE /\ Len(path) < MaxDepth
             /\ visited' = visited \cup {e} /\ queue' = Append(queue, [at |-> e, path |-> path])
    <3> DEFINE i == [at |-> e, path |-> path]
    <3>1. i \in Graph!Items /\ i.at = e /\ i.path = path
      BY <1>1 DEF Graph!Items
    <3>2. queue' = Append(queue, i)
      BY <2>1
    <3> HIDE DEF i
    <3>3. /\ queue' \in Seq(Graph!Items) /\ Len(queue') = Len(queue) + 1
               /\ queue'[Len(queue) + 1] = i
          /\ \A n \in 1 .. Len(queue) : queue'[n] = queue[n]
      BY <3>1, <3>2, <1>5, AppendProperties
    <3>4. ASSUME NEW n \in DOMAIN queue'
          PROVE queue'[n].at \in visited' /\ Len(queue'[n].path) < MaxDepth
      <4>1. n \in DOMAIN queue \/ n = Len(queue) + 1
        BY <1>5, <3>3
      <4>2. CASE n \in DOMAIN queue
        <5>1. queue'[n] = queue[n]
          BY <4>2, <1>5, <3>3
        <5>2. QED
          BY <5>1, <4>2, <1>5, <2>1
      <4>3. CASE n = Len(queue) + 1
        <5>1. queue'[n] = i
          BY <4>3, <3>3
        <5>2. QED
          BY <5>1, <3>1, <2>1
      <4>4. QED
        BY <4>1, <4>2, <4>3
    <3>5. QED
      BY <3>3, <3>4, <2>1
  <2>2. CASE UNCHANGED <<visited, queue>>
    BY <2>2, <1>5
  <2>3. QED
    BY <1>4, <2>1, <2>2
<1>9. \A g \in DOMAIN graph' : Graph!Ends(g)' \subseteq Entity
  BY <1>2 DEF Graph!Typed, Graph!Ends
<1>10. /\ rows' \subseteq Edge /\ node' \in Graph!Items \cup {None} /\ node' # None
       /\ node'.at \in visited' /\ Len(node'.path) < MaxDepth
  BY <1>1, <1>2, <1>8 DEF Graph!Typed
<1>11. QED
  BY <1>2, <1>6, <1>7, <1>8, <1>9, <1>10 DEF Graph!Typed

LEMMA DeleteTyped == ASSUME Graph!Typed, NEW f, Graph!Delete(f) PROVE Graph!Typed'
<1>1. /\ stored' \subseteq stored
      /\ UNCHANGED <<graph, queue, visited, collected, paths, node, rows, pc>>
  BY DEF Graph!Delete
<1>2. \A g \in DOMAIN graph' : Graph!Ends(g)' \subseteq Entity
  BY <1>1 DEF Graph!Typed, Graph!Ends
<1>3. QED
  BY <1>1, <1>2 DEF Graph!Typed

LEMMA GraphStepTyped ==
  ASSUME Graph!GraphAssumption, Graph!Typed, [Graph!Next]_Graph!vars
  PROVE Graph!Typed'
<1>1. CASE Graph!Pop
  BY <1>1, PopTyped
<1>2. ASSUME NEW f \in Edge, Graph!Follow(f) PROVE Graph!Typed'
  BY <1>2, FollowTyped
<1>3. ASSUME NEW f \in Edge, Graph!Skip(f) PROVE Graph!Typed'
  BY <1>3 DEF Graph!Skip, Graph!Typed, Graph!Ends
<1>4. ASSUME NEW f \in Edge, Graph!Raise(f) PROVE Graph!Typed'
  BY <1>4 DEF Graph!Raise, Graph!Typed, Graph!Ends
<1>5. CASE Graph!Leave
  BY <1>5 DEF Graph!Leave, Graph!Typed, Graph!Ends
<1>6. CASE Graph!Return
  BY <1>6 DEF Graph!Return, Graph!Typed, Graph!Ends
<1>7. ASSUME NEW f \in Edge, Graph!Delete(f) PROVE Graph!Typed'
  BY <1>7, DeleteTyped
<1>8. CASE UNCHANGED Graph!vars
  BY <1>8 DEF Graph!vars, Graph!Typed, Graph!Ends
<1>9. QED
  BY <1>1, <1>2, <1>3, <1>4, <1>5, <1>6, <1>7, <1>8 DEF Graph!Next, Graph!Search

\* The paths in the queue have no more facts than may be followed.
LEMMA QueueTyped ==
  ASSUME Graph!GraphAssumption, Graph!Typed
  PROVE  /\ \A n \in DOMAIN queue : queue[n] \in Graph!Items /\ Len(queue[n].path) <= MaxDepth
         /\ node # None => node \in Graph!Items /\ Len(node.path) <= MaxDepth
<1>1. ASSUME NEW i \in Graph!Items, Len(i.path) < MaxDepth PROVE Len(i.path) <= MaxDepth
  BY <1>1 DEF Graph!Items, Graph!GraphAssumption
<1>2. \A n \in DOMAIN queue : queue[n] \in Graph!Items /\ Len(queue[n].path) < MaxDepth
  BY DEF Graph!Typed
<1>3. node # None => node \in Graph!Items /\ Len(node.path) < MaxDepth
  BY DEF Graph!Typed
<1>4. QED
  BY <1>1, <1>2, <1>3

LEMMA FollowKeeps ==
  ASSUME Graph!GraphAssumption, Graph!Typed, NEW f, Graph!Follow(f)
  PROVE  /\ \A i \in Graph!Items : Len(i.path) <= MaxDepth /\ Graph!Ready(i) => Graph!Ready(i)'
         /\ \A x : Graph!Told(x) => Graph!Told(x)'
         /\ \A x : Graph!Met(x) => Graph!Met(x)'
         /\ \A x, F : Graph!Expanded(x, F) => Graph!Expanded(x, F)'
<1> DEFINE path == Append(node.path, f)
<1>1. path \in Seq(Edge) /\ paths \in Seq(Seq(Edge))
  BY NextFact DEF Graph!Typed
<1>2. UNCHANGED <<graph, stored, query>> /\ visited \subseteq visited'
  BY FollowSteps
<1>3. collected \subseteq collected'
  BY FollowSteps
<1>4. paths' = Append(paths, path) \/ paths' = paths
  BY FollowSteps
<1> HIDE DEF path
<1>5. paths # <<>> => paths' # <<>>
  BY <1>1, <1>4, AppendProperties
<1>6. QED
  BY <1>2, <1>3, <1>5, FoundStays

\* The entity that is searched from, and the one that a fact leads to from there.
LEMMA Around ==
  ASSUME Graph!GraphAssumption, Graph!Typed, Graph!IInv, NEW f, Graph!Follow(f)
  PROVE  LET e == Graph!Other(f, node.at)
             d == Len(node.path)
         IN /\ Graph!Ready(node) /\ f \in Graph!FactsOf(node.at) /\ Graph!Ends(f) = {node.at, e}
            /\ \A n \in DOMAIN queue : Graph!Follows(node, queue[n])
            /\ Graph!Within(stored, d) \subseteq visited
<1> DEFINE e == Graph!Other(f, node.at)
           d == Len(node.path)
<1>1. node \in Graph!Items /\ node # None /\ d \in 0 .. MaxDepth - 1 /\ f \in DOMAIN graph
        /\ f \in rows
  BY NextFact DEF Graph!GraphAssumption, Graph!Items
<1>2. Graph!Ready(node) /\ f \in Graph!FactsOf(node.at) /\ \A n \in DOMAIN queue :
        Graph!Follows(node, queue[n])
  BY <1>1 DEF Graph!IInv, Graph!NodeOK, Graph!Follow, Graph!FactsOf
<1>3. node.at \in Graph!Ends(f) /\ Graph!Ends(f) = {node.at, e}
  BY <1>1, <1>2, EntitiesTyped DEF Graph!FactsOf
<1>4. Beyond(d)
  <2>1. ASSUME NEW n \in DOMAIN queue PROVE d <= Len(queue[n].path)
    <3>1. Len(queue[n].path) \in {d, d + 1}
      BY <1>2 DEF Graph!Follows
    <3>2. QED
      BY <3>1, <1>1
  <2>2. QED
    BY <2>1, <1>1 DEF Beyond
<1>5. Graph!QueueOK /\ Graph!NodeOK /\ Graph!VisitedOK /\ Len(paths) < Limit
  BY DEF Graph!IInv, Graph!Follow
<1>6. Graph!Within(stored, d) \subseteq visited
  BY <1>1, <1>4, <1>5, Closure
<1> HIDE DEF d, e
<1>7. QED
  BY <1>2, <1>3, <1>6 DEF d, e

\* The longer path leads there along distinct facts.
LEMMA LongerPath ==
  ASSUME Graph!GraphAssumption, Graph!Typed, Graph!IInv, NEW f, Graph!Follow(f)
  PROVE  LET path == Append(node.path, f)
         IN /\ Graph!Other(f, node.at) \in Graph!Walk(path) /\ Graph!IsInjective(path)
            /\ \A n \in 1 .. Len(path) :
                 path[n] \in DOMAIN graph /\ (Graph!Ends(path[n]) \subseteq visited \/ path[n] = f)
<1> DEFINE p == node.path
           path == Append(p, f)
           d == Len(p)
<1>1. /\ p \in Seq(Edge) /\ d \in Nat /\ f \in DOMAIN graph /\ f \in Edge
      /\ path \in Seq(Edge) /\ Len(path) = d + 1
      /\ path[d + 1] = f /\ \A n \in 1 .. d : path[n] = p[n]
  BY NextFact DEF Graph!Items
<1>2. Graph!Ready(node) /\ f \in Graph!FactsOf(node.at)
  BY Around
<1>3. /\ node.at \in Graph!Walk(p) /\ Graph!IsInjective(p)
      /\ \A n \in 1 .. d : p[n] \in DOMAIN graph /\ Graph!Ends(p[n]) \subseteq visited
  BY <1>2 DEF Graph!Ready
<1>4. \A n \in 1 .. d : p[n] # f
  BY DEF Graph!Follow, Graph!Contains
<1> HIDE DEF p, path, d
<1>5. Graph!Walk(path) = Graph!Across(f, Graph!Walk(p))
  BY <1>1, <1>3, WalkFacts DEF path, d
<1>6. Graph!Other(f, node.at) \in Graph!Walk(path)
  BY <1>2, <1>3, <1>5 DEF Graph!Across, Graph!FactsOf
<1>7. Graph!IsInjective(path)
  <2>1. DOMAIN path = 1 .. d + 1 /\ DOMAIN p = 1 .. d
    BY <1>1 DEF d
  <2>2. ASSUME NEW a \in 1 .. d + 1, NEW b \in 1 .. d + 1, path[a] = path[b] PROVE a = b
    <3>1. a \in 1 .. d \/ a = d + 1
      BY <1>1
    <3>2. b \in 1 .. d \/ b = d + 1
      BY <1>1
    <3>3. CASE a \in 1 .. d /\ b \in 1 .. d
      BY <3>3, <1>1, <1>3, <2>1, <2>2 DEF Graph!IsInjective
    <3>4. CASE a \in 1 .. d /\ b = d + 1
      BY <3>4, <1>1, <1>4, <2>2
    <3>5. CASE b \in 1 .. d /\ a = d + 1
      BY <3>5, <1>1, <1>4, <2>2
    <3>6. QED
      BY <3>1, <3>2, <3>3, <3>4, <3>5
  <2>3. QED
    BY <2>1, <2>2 DEF Graph!IsInjective
<1>8. ASSUME NEW n \in 1 .. Len(path)
      PROVE path[n] \in DOMAIN graph /\ (Graph!Ends(path[n]) \subseteq visited \/ path[n] = f)
  <2>1. n \in 1 .. d \/ n = d + 1
    BY <1>1
  <2>2. QED
    BY <2>1, <1>1, <1>3
<1>9. QED
  BY <1>6, <1>7, <1>8 DEF path, p

\* Both ends of the fact are met.
LEMMA FollowMeets ==
  ASSUME Graph!GraphAssumption, Graph!Typed, Graph!IInv, NEW f, Graph!Follow(f)
  PROVE  /\ Graph!Told(Graph!Other(f, node.at))'
         /\ Len(paths') < Limit => \A o \in Graph!Ends(f) : Graph!Met(o)'
<1>0. PICK e, path, d : e = Graph!Other(f, node.at) /\ path = Append(node.path, f)
        /\ d = Len(node.path)
  OBVIOUS
<1>1. /\ Graph!Ready(node) /\ Graph!Ends(f) = {node.at, e} /\ Graph!Within(stored, d) \subseteq visited
  BY <1>0, Around
<1>2. d \in 0 .. MaxDepth - 1 /\ Len(path) = d + 1 /\ path \in Seq(Edge) /\ paths \in Seq(Seq(Edge))
  BY <1>0, NextFact DEF Graph!Typed
<1>3. UNCHANGED <<graph, stored, query>>
  BY <1>0, FollowSteps
<1>4. \/ /\ Graph!Wanted(e) /\ paths' = Append(paths, path)
         /\ collected' = IF query.target = None THEN collected \cup {e} ELSE collected
      \/ ~Graph!Wanted(e) /\ UNCHANGED <<paths, collected>>
  BY <1>0, FollowSteps
<1>5. \/ visited' = visited \cup {e}
      \/ /\ Len(paths') >= Limit \/ Len(path) = MaxDepth \/ e \in visited
         /\ visited' = visited
  BY <1>0, FollowSteps
<1>6. paths' \in Seq(Seq(Edge)) /\ Len(paths') \in Nat /\ Limit \in Nat /\ MaxDepth \in Nat
  BY FollowTyped, LenProperties DEF Graph!Typed, Graph!GraphAssumption
<1>7. /\ Graph!Found(e)' = Graph!Found(e)
      /\ Graph!Starts(graph, query)' = Graph!Starts(graph, query)
      /\ Graph!Within(stored, MaxDepth - 1)' = Graph!Within(stored, MaxDepth - 1)
  BY <1>3, GraphStays
<1>8. Graph!Told(e)'
  <2>1. CASE query.target = None
    <3>1. e \in collected'
      BY <1>4, <2>1 DEF Graph!Wanted
    <3>2. QED
      BY <3>1, <2>1, <1>3 DEF Graph!Told
  <2>2. CASE query.target # None
    <3>1. Graph!Found(e) => paths' # <<>>
      <4>1. SUFFICES ASSUME Graph!Found(e) PROVE paths' # <<>>
        OBVIOUS
      <4>2. paths' = Append(paths, path)
        BY <4>1, <1>4, <2>2 DEF Graph!Wanted
      <4>3. QED
        BY <4>2, <1>2, AppendProperties
    <3>2. QED
      BY <3>1, <2>2, <1>3, <1>7 DEF Graph!Told
  <2>3. QED
    BY <2>1, <2>2
<1>9. ASSUME Len(paths') < Limit, NEW o \in Graph!Ends(f) PROVE Graph!Met(o)'
  <2>1. CASE o = node.at
    <3>1. node.at \in visited /\ Graph!Told(node.at)
      BY <1>1 DEF Graph!Ready, Graph!IInv, Graph!VisitedOK
    <3>2. Graph!Met(o)
      BY <3>1, <2>1 DEF Graph!Met
    <3>3. Graph!Met(o)'
      BY <3>2, FollowKeeps
    <3>4. QED
      BY <3>3
  <2>2. CASE o = e
    <3>1. e \in visited' \/ Len(path) = MaxDepth
      BY <1>5, <1>6, <1>9
    <3>2. CASE e \in visited'
      BY <3>2, <2>2, <1>8 DEF Graph!Met
    <3>3. CASE Len(path) = MaxDepth /\ e \notin visited'
      <4>1. d = MaxDepth - 1
        BY <3>3, <1>2, <1>6
      <4>2. e \notin Graph!Within(stored, MaxDepth - 1)
        BY <4>1, <3>3, <1>1, <1>5
      <4>3. QED
        BY <4>2, <1>7, <1>8, <2>2 DEF Graph!Met
    <3>4. QED
      BY <3>1, <3>2, <3>3
  <2>3. QED
    BY <2>1, <2>2, <1>1
<1>10. (Graph!Other(f, node.at))' = e
  BY <1>0, FollowSteps DEF Graph!Other
<1>11. QED
  BY <1>1, <1>8, <1>9, <1>10

LEMMA FollowQueue ==
  ASSUME Graph!GraphAssumption, Graph!Typed, Graph!IInv, NEW f, Graph!Follow(f)
  PROVE  Graph!QueueOK' /\ Graph!NodeOK'
<1>0. PICK e, path, d, i :
        /\ e = Graph!Other(f, node.at) /\ path = Append(node.path, f) /\ d = Len(node.path)
        /\ i = [at |-> e, path |-> path]
  OBVIOUS
<1>1. /\ Graph!Ready(node) /\ f \in Graph!FactsOf(node.at) /\ Graph!Ends(f) = {node.at, e}
      /\ \A n \in DOMAIN queue : Graph!Follows(node, queue[n])
      /\ Graph!Within(stored, d) \subseteq visited
  BY <1>0, Around
<1>2. /\ d \in 0 .. MaxDepth - 1 /\ Len(path) = d + 1 /\ path \in Seq(Edge) /\ node \in Graph!Items
      /\ e \in Entity /\ i \in Graph!Items
  BY <1>0, NextFact DEF Graph!Items
<1>3. /\ e \in Graph!Walk(path) /\ Graph!IsInjective(path)
      /\ \A n \in 1 .. Len(path) : path[n] \in DOMAIN graph
           /\ (Graph!Ends(path[n]) \subseteq visited \/ path[n] = f)
  BY <1>0, LongerPath
<1>4. rows' = rows \ {f} /\ UNCHANGED <<graph, stored, query, node, pc>> /\ visited \subseteq visited'
  BY <1>0, FollowSteps
<1>5. \/ /\ e \notin visited /\ visited' = visited \cup {e} /\ queue' = Append(queue, i)
      \/ UNCHANGED <<visited, queue>>
  BY <1>0, FollowSteps
<1>6. queue \in Seq(Graph!Items)
  BY DEF Graph!Typed
<1>7. /\ \A n \in DOMAIN queue : Graph!Ready(queue[n])
      /\ \A m, n \in DOMAIN queue : m <= n => Graph!Follows(queue[m], queue[n])
      /\ \A g \in rows : g \in DOMAIN graph /\ node.at \in Graph!Ends(g)
      /\ \A n \in DOMAIN queue : queue[n] \in Graph!Items /\ Len(queue[n].path) <= MaxDepth
  BY <1>2, QueueTyped DEF Graph!IInv, Graph!QueueOK, Graph!NodeOK, Graph!GraphAssumption, Graph!Items
<1>8. \A j \in Graph!Items : Len(j.path) <= MaxDepth /\ Graph!Ready(j) => Graph!Ready(j)'
  BY FollowKeeps
<1> DEFINE Fits == /\ \A n \in DOMAIN queue' :
                        Graph!Ready(queue[n])' /\ Graph!Follows(node, queue'[n])
                   /\ \A m, n \in DOMAIN queue' : m <= n => Graph!Follows(queue'[m], queue'[n])
<1>9. Fits
  <2>1. CASE e \notin visited /\ visited' = visited \cup {e} /\ queue' = Append(queue, i)
    <3>1. i.at = e /\ i.path = path
      BY <1>0
    <3>2. Graph!Ready(i)'
      <4>1. d + 1 \in Nat /\ d + 1 > 0 /\ (d + 1) - 1 = d
        BY <1>2
      <4>2. Graph!NoNearer(e, d + 1)
        BY <4>1, <2>1, <1>1 DEF Graph!NoNearer
      <4>3. \A x, n : Graph!NoNearer(x, n)' = Graph!NoNearer(x, n)
        BY <1>4, GraphStays DEF Graph!NoNearer
      <4>4. Graph!NoNearer(e, Len(path))'
        BY <4>2, <4>3, <1>2
      <4>5. \A x : Graph!Ends(x)' = Graph!Ends(x)
        BY <1>4, GraphStays
      <4>6. node.at \in visited
        BY <1>1 DEF Graph!Ready
      <4>7. \A n \in 1 .. Len(path) : path[n] \in DOMAIN graph'
              /\ Graph!Ends(path[n])' \subseteq visited'
        BY <4>5, <4>6, <1>1, <1>3, <1>4, <2>1
      <4>8. Graph!Walk(path)' = Graph!Walk(path)
        BY <1>4, GraphStays
      <4>9. QED
        BY <4>4, <4>7, <4>8, <3>1, <1>3, <2>1 DEF Graph!Ready
    <3>3. /\ Len(queue') = Len(queue) + 1 /\ queue'[Len(queue) + 1] = i /\ Len(queue) \in Nat
          /\ DOMAIN queue' = 1 .. Len(queue) + 1 /\ DOMAIN queue = 1 .. Len(queue)
          /\ \A n \in 1 .. Len(queue) : queue'[n] = queue[n]
      BY <1>2, <1>6, <2>1, AppendProperties, LenProperties
    <3>4. \A n \in DOMAIN queue : Graph!Follows(queue[n], i)
      <4>1. ASSUME NEW n \in DOMAIN queue PROVE Graph!Follows(queue[n], i)
        <5>1. Len(queue[n].path) \in {d, d + 1}
          BY <1>0, <1>1 DEF Graph!Follows
        <5>2. QED
          BY <5>1, <1>2, <3>1 DEF Graph!Follows
      <4>2. QED
        BY <4>1
    <3>5. Graph!Follows(node, i) /\ Graph!Follows(i, i)
      BY <1>0, <1>2, <3>1 DEF Graph!Follows
    <3>6. ASSUME NEW n \in DOMAIN queue'
          PROVE Graph!Ready(queue[n])' /\ Graph!Follows(node, queue'[n])
      <4>1. CASE n = Len(queue) + 1
        <5>1. queue'[n] = i
          BY <4>1, <3>3
        <5>2. QED
          BY <5>1, <3>2, <3>5
      <4>2. CASE n \in DOMAIN queue
        <5>1. queue'[n] = queue[n]
          BY <4>2, <3>3
        <5>2. Graph!Ready(queue[n])
          BY <4>2, <1>7
        <5>3. QED
          BY <5>1, <5>2, <4>2, <1>1, <1>7, <1>8
      <4>3. QED
        BY <4>1, <4>2, <3>3
    <3>7. ASSUME NEW m \in DOMAIN queue', NEW n \in DOMAIN queue', m <= n
          PROVE Graph!Follows(queue'[m], queue'[n])
      <4>1. CASE n \in DOMAIN queue
        <5>1. m \in DOMAIN queue
          BY <4>1, <3>3, <3>7
        <5>2. queue'[n] = queue[n] /\ queue'[m] = queue[m]
          BY <4>1, <5>1, <3>3
        <5>3. QED
          BY <5>1, <5>2, <4>1, <3>7, <1>7
      <4>2. CASE n = Len(queue) + 1 /\ m \in DOMAIN queue
        <5>1. queue'[n] = i /\ queue'[m] = queue[m]
          BY <4>2, <3>3
        <5>2. QED
          BY <5>1, <4>2, <3>4
      <4>3. CASE n = Len(queue) + 1 /\ m = n
        <5>1. queue'[n] = i /\ queue'[m] = i
          BY <4>3, <3>3
        <5>2. QED
          BY <5>1, <3>5
      <4>4. QED
        BY <4>1, <4>2, <4>3, <3>3
    <3>8. QED
      BY <3>6, <3>7
  <2>2. CASE UNCHANGED <<visited, queue>>
    BY <2>2, <1>1, <1>7, <1>8
  <2>3. QED
    BY <1>5, <2>1, <2>2
<1>10. Graph!QueueOK'
  BY <1>9 DEF Graph!QueueOK, Graph!Follows
<1>11. Graph!NodeOK'
  <2>1. Graph!Ready(node)'
    BY <1>1, <1>2, <1>4, <1>8, QueueTyped DEF Graph!GraphAssumption, Graph!Items
  <2>2. \A g : Graph!Ends(g)' = Graph!Ends(g)
    BY <1>4, GraphStays
  <2>3. \A g \in rows' : g \in DOMAIN graph' /\ node'.at \in Graph!Ends(g)'
    BY <2>2, <1>4, <1>7
  <2>4. \A n \in DOMAIN queue' : Graph!Follows(node, queue[n])'
    BY <1>9, <1>4 DEF Graph!Follows
  <2>5. QED
    BY <2>1, <2>3, <2>4 DEF Graph!NodeOK
<1>12. QED
  BY <1>10, <1>11

LEMMA FollowVisited ==
  ASSUME Graph!GraphAssumption, Graph!Typed, Graph!IInv, NEW f, Graph!Follow(f)
  PROVE  Graph!VisitedOK'
<1>0. PICK e, path, i :
        /\ e = Graph!Other(f, node.at) /\ path = Append(node.path, f)
             /\ i = [at |-> e, path |-> path]
  OBVIOUS
<1>1. /\ node' = node /\ node \in Graph!Items /\ node # None /\ i \in Graph!Items /\ i.at = e
      /\ paths \in Seq(Seq(Edge)) /\ queue \in Seq(Graph!Items) /\ path \in Seq(Edge)
           /\ Limit \in Nat
  BY <1>0, NextFact, FollowSteps DEF Graph!GraphAssumption, Graph!Items, Graph!Typed
<1>2. UNCHANGED <<graph, stored, query>> /\ rows' = rows \ {f} /\ Len(paths) < Limit
  BY FollowSteps
<1>3. \/ visited' = visited \cup {e} /\ queue' = Append(queue, i)
      \/ UNCHANGED <<visited, queue>>
  BY <1>0, FollowSteps
<1>4. Graph!Told(e)' /\ (Len(paths') < Limit => \A o \in Graph!Ends(f) : Graph!Met(o)')
  <2>1. (Graph!Other(f, node.at))' = e
    BY <1>0, <1>1, <1>2 DEF Graph!Other
  <2>2. QED
    BY <2>1, FollowMeets
<1>5. /\ Graph!Starts(graph, query) \subseteq visited /\ \A x \in visited : Graph!Told(x)
      /\ \A x \in visited : \/ \E n \in DOMAIN queue : queue[n].at = x
                            \/ node.at = x /\ Graph!Expanded(x, rows)
                            \/ Graph!Expanded(x, {})
  BY <1>2 DEF Graph!IInv, Graph!VisitedOK
<1>6. /\ \A x : Graph!Told(x) => Graph!Told(x)'
      /\ \A x, F : Graph!Expanded(x, F) => Graph!Expanded(x, F)'
  BY FollowKeeps
<1>7. Graph!Starts(graph, query)' \subseteq visited' /\ \A x \in visited' : Graph!Told(x)'
  BY <1>2, <1>3, <1>4, <1>5, <1>6, GraphStays
<1>8. \A n \in DOMAIN queue : n \in DOMAIN queue' /\ queue'[n] = queue[n]
  <2>1. CASE queue' = Append(queue, i)
    BY <2>1, <1>1, AppendProperties, LenProperties
  <2>2. CASE queue' = queue
    BY <2>2
  <2>3. QED
    BY <1>3, <2>1, <2>2
<1>9. \/ visited' = visited
      \/ visited' = visited \cup {e} /\ \E n \in DOMAIN queue' : queue'[n].at = e
  <2>1. CASE visited' = visited \cup {e} /\ queue' = Append(queue, i)
    <3>1. Len(queue) + 1 \in DOMAIN queue' /\ queue'[Len(queue) + 1] = i
      BY <2>1, <1>1, AppendProperties, LenProperties
    <3>2. QED
      BY <3>1, <2>1, <1>1
  <2>2. CASE UNCHANGED <<visited, queue>>
    BY <2>2
  <2>3. QED
    BY <1>3, <2>1, <2>2
<1>10. ASSUME Len(paths') < Limit, NEW x \in visited'
       PROVE  \/ \E n \in DOMAIN queue' : queue'[n].at = x
              \/ node' # None /\ node'.at = x /\ Graph!Expanded(x, rows)'
              \/ Graph!Expanded(x, {})'
  <2>1. CASE \E n \in DOMAIN queue : queue[n].at = x
    BY <2>1, <1>8
  <2>2. CASE node.at = x /\ Graph!Expanded(x, rows)
    <3>1. Graph!Expanded(x, rows \ {f})'
      <4>1. Graph!FactsOf(x)' = Graph!FactsOf(x) /\ \A g : Graph!Ends(g)' = Graph!Ends(g)
        BY <1>2, GraphStays DEF Graph!FactsOf
      <4>2. ASSUME NEW g \in (Graph!FactsOf(x) \ (rows \ {f})),
              NEW o \in Graph!Ends(g) PROVE Graph!Met(o)'
        <5>1. CASE g = f
          BY <5>1, <4>2, <1>4, <1>10
        <5>2. CASE g # f
          <6>1. Graph!Met(o)
            BY <5>2, <4>2, <2>2 DEF Graph!Expanded
          <6>2. QED
            BY <6>1, FollowKeeps
        <5>3. QED
          BY <5>1, <5>2
      <4>3. (Graph!FactsOf(x) \ (rows \ {f}))' = Graph!FactsOf(x) \ (rows' \ {f})
        BY <4>1
      <4>4. rows' \ {f} = rows \ {f}
        BY <1>2
      <4>5. QED
        BY <4>1, <4>2, <4>3, <4>4 DEF Graph!Expanded
    <3>2. (rows \ {f})' = rows'
      BY <1>2
    <3>3. QED
      BY <3>1, <3>2, <2>2, <1>1
  <2>3. CASE Graph!Expanded(x, {})
    BY <2>3, <1>6
  <2>4. CASE x = e /\ visited' # visited
    BY <2>4, <1>9
  <2>5. QED
    BY <2>1, <2>2, <2>3, <2>4, <1>5, <1>9
<1>11. QED
  BY <1>7, <1>10 DEF Graph!VisitedOK

LEMMA FollowPaths ==
  ASSUME Graph!GraphAssumption, Graph!Typed, Graph!IInv, NEW f, Graph!Follow(f)
  PROVE  Graph!PathsConnect'
<1>0. PICK e, path : e = Graph!Other(f, node.at) /\ path = Append(node.path, f)
  OBVIOUS
<1>1. UNCHANGED <<graph, stored, query>>
  BY FollowSteps
<1>2. e \in Graph!Walk(path) /\ Graph!IsInjective(path) /\ path \in Seq(Edge) /\ paths \in Seq(Seq(Edge))
  BY <1>0, LongerPath, NextFact DEF Graph!Typed
<1>3. paths' = paths \/ (Graph!Wanted(e) /\ paths' = Append(paths, path))
  <2>1. \/ /\ Graph!Wanted(e) /\ paths' = Append(paths, path)
           /\ collected' = IF query.target = None THEN collected \cup {e} ELSE collected
        \/ ~Graph!Wanted(e) /\ UNCHANGED <<paths, collected>>
    BY <1>0, FollowSteps
  <2>2. QED
    BY <2>1
<1>4. (\A p : Graph!Walk(p)' = Graph!Walk(p)) /\ \A x : Graph!Found(x)' = Graph!Found(x)
  BY <1>1, GraphStays
<1> DEFINE Connects(p) ==
             Graph!IsInjective(p) /\ \E x \in Graph!Walk(p) : query.target # None => Graph!Found(x)
<1>5. SUFFICES \A n \in DOMAIN paths' : Connects(paths'[n])
  <2>1. pc' = "search"
    BY DEF Graph!Follow
  <2>2. QED
    BY <2>1, <1>1, <1>4 DEF Graph!PathsConnect
<1>6. \A n \in DOMAIN paths : Connects(paths[n])
  BY DEF Graph!IInv, Graph!PathsConnect
<1>7. CASE Graph!Wanted(e) /\ paths' = Append(paths, path)
  <2>1. Connects(path)
    BY <1>2, <1>7 DEF Graph!Wanted
  <2> HIDE DEF Connects
  <2>2. /\ DOMAIN paths' = 1 .. Len(paths) + 1 /\ DOMAIN paths = 1 .. Len(paths)
             /\ Len(paths) \in Nat
        /\ paths'[Len(paths) + 1] = path /\ \A n \in 1 .. Len(paths) : paths'[n] = paths[n]
    BY <1>2, <1>7, AppendProperties, LenProperties
  <2>3. ASSUME NEW n \in DOMAIN paths' PROVE Connects(paths'[n])
    <3>1. n \in 1 .. Len(paths) \/ n = Len(paths) + 1
      BY <2>2
    <3>2. QED
      BY <3>1, <2>1, <2>2, <1>6
  <2>4. QED
    BY <2>3
<1>8. CASE paths' = paths
  <2> HIDE DEF Connects
  <2>1. QED
    BY <1>6, <1>8
<1>9. QED
  BY <1>3, <1>7, <1>8

LEMMA FollowList ==
  ASSUME Graph!GraphAssumption, Graph!Typed, Graph!IInv, NEW f, Graph!Follow(f),
    query.target = None
  PROVE  Graph!ListOK'
<1>0. PICK e, path, d, S :
        /\ e = Graph!Other(f, node.at) /\ path = Append(node.path, f) /\ d = Len(node.path)
        /\ S = Graph!Starts(graph, query)
  OBVIOUS
<1>1. UNCHANGED <<graph, stored, query>> /\ query' = query /\ S = Graph!Starts(graph, query)'
  BY <1>0, FollowSteps
<1>2. /\ e \in Graph!Walk(path) /\ path \in Seq(Edge) /\ paths \in Seq(Seq(Edge))
      /\ d \in 0 .. MaxDepth - 1 /\ Len(path) = d + 1 /\ MaxDepth \in Nat
  BY <1>0, LongerPath, NextFact DEF Graph!Typed, Graph!GraphAssumption
<1>3. \/ /\ Graph!Wanted(e) /\ paths' = Append(paths, path)
         /\ collected' = IF query.target = None THEN collected \cup {e} ELSE collected
      \/ ~Graph!Wanted(e) /\ UNCHANGED <<paths, collected>>
  BY <1>0, FollowSteps
<1>4. /\ \A p : Graph!Walk(p)' = Graph!Walk(p)
      /\ \A x, n : Graph!NoNearer(x, n)' = Graph!NoNearer(x, n)
  BY <1>1, GraphStays DEF Graph!NoNearer
<1> DEFINE Led ==
             \A x \in collected \ S : \E n \in DOMAIN paths :
               x \in Graph!Walk(paths[n]) /\ Graph!NoNearer(x, Len(paths[n]))
<1>5. /\ S \subseteq collected
      /\ IsFiniteSet(collected \ S) /\ Cardinality(collected \ S) = Len(paths) /\ Led
  BY <1>0, SameSets DEF Graph!IInv, Graph!ListOK
<1>6. CASE Graph!Wanted(e) /\ paths' = Append(paths, path) /\ collected' = collected \cup {e}
  <2>1. e \notin collected
    BY <1>6 DEF Graph!Wanted
  <2>2. Graph!Within(stored, d) \subseteq visited
    BY <1>0, Around
  <2>3. \A x \in visited : x \in collected
    BY DEF Graph!IInv, Graph!VisitedOK, Graph!Told
  <2>4. Graph!NoNearer(e, d + 1)
    <3>1. (d + 1) - 1 = d
      BY <1>2
    <3>2. QED
      BY <2>1, <2>2, <2>3, <3>1 DEF Graph!NoNearer
  <2>6. collected' \ S = (collected \ S) \cup {e} /\ e \notin collected \ S
    BY <2>1, <1>5, <1>6
  <2>7. IsFiniteSet(collected' \ S) /\ Cardinality(collected' \ S) = Len(paths) + 1
    BY <2>6, <1>5, FS_AddElement
  <2>8. /\ DOMAIN paths' = 1 .. Len(paths) + 1 /\ DOMAIN paths = 1 .. Len(paths)
             /\ Len(paths) \in Nat
        /\ Len(paths') = Len(paths) + 1
        /\ paths'[Len(paths) + 1] = path /\ \A n \in 1 .. Len(paths) : paths'[n] = paths[n]
    BY <1>2, <1>6, AppendProperties, LenProperties
  <2>9. ASSUME NEW x \in collected' \ S
        PROVE  \E n \in DOMAIN paths' : x \in Graph!Walk(paths'[n]) /\ Graph!NoNearer(x, Len(paths'[n]))
    <3>1. CASE x \in collected \ S
      <4>1. PICK n \in DOMAIN paths : x \in Graph!Walk(paths[n]) /\ Graph!NoNearer(x, Len(paths[n]))
        BY <1>5, <3>1
      <4>2. n \in DOMAIN paths' /\ paths'[n] = paths[n]
        BY <2>8
      <4>3. QED
        BY <4>1, <4>2
    <3>2. CASE x = e
      <4>1. Len(paths) + 1 \in DOMAIN paths' /\ paths'[Len(paths) + 1] = path
        BY <2>8
      <4>2. QED
        BY <4>1, <3>2, <2>4, <1>2
    <3>3. QED
      BY <3>1, <3>2, <2>6
  <2>10. \A x \in collected' \ S :
           \E n \in DOMAIN paths' : x \in (Graph!Walk(paths[n]))' /\ (Graph!NoNearer(x, Len(paths[n])))'
    BY <2>9, <1>4
  <2>11. S \subseteq collected'
    BY <1>5, <1>6
  <2>12. QED
    BY <1>1, <2>7, <2>8, <2>10, <2>11, SameSets DEF Graph!ListOK
<1>7. CASE UNCHANGED <<paths, collected>>
  <2>1. paths' = paths /\ collected' = collected
    BY <1>7
  <2>2. \A x \in collected' \ S :
          \E n \in DOMAIN paths' : x \in (Graph!Walk(paths[n]))' /\ (Graph!NoNearer(x, Len(paths[n])))'
    BY <2>1, <1>4, <1>5
  <2>3. QED
    BY <2>1, <2>2, <1>1, <1>4, <1>5, SameSets DEF Graph!ListOK
<1>8. QED
  BY <1>3, <1>6, <1>7

LEMMA FollowFirst ==
  ASSUME Graph!GraphAssumption, Graph!Typed, Graph!IInv, NEW f, Graph!Follow(f),
    query.target # None
  PROVE  Graph!FirstOK'
<1>0. PICK path, d : path = Append(node.path, f) /\ d = Len(node.path)
  OBVIOUS
<1>1. UNCHANGED <<graph, stored, query>>
  BY FollowSteps
<1>2. path \in Seq(Edge) /\ paths \in Seq(Seq(Edge)) /\ d \in Nat /\ Len(path) = d + 1
  BY <1>0, NextFact DEF Graph!Typed
<1>3. paths' = paths \/ paths' = Append(paths, path)
  BY <1>0, FollowSteps
<1>4. /\ \A x : Graph!Found(x)' = Graph!Found(x)
      /\ \A n : Graph!Within(stored, n)' = Graph!Within(stored, n)
      /\ Graph!Starts(graph, query)' = Graph!Starts(graph, query)
  BY <1>1, GraphStays
<1>5. Graph!FirstOK
  BY DEF Graph!IInv
<1>6. CASE paths # <<>>
  <2>1. paths' # <<>> /\ paths'[1] = paths[1]
    <3>1. Len(paths) \in Nat /\ 1 \in 1 .. Len(paths)
      BY <1>2, <1>6, LenProperties
    <3>2. CASE paths' = Append(paths, path)
      BY <3>1, <3>2, <1>2, AppendProperties
    <3>3. CASE paths' = paths
      BY <3>3, <1>6
    <3>4. QED
      BY <3>2, <3>3, <1>3
  <2>2. \A x \in Graph!Within(stored, Len(paths[1]) - 1) \ Graph!Starts(graph, query) : ~Graph!Found(x)
    BY <1>5, <1>6 DEF Graph!FirstOK
  <2>3. (Graph!Within(stored, Len(paths[1]) - 1))' = Graph!Within(stored, Len(paths[1]) - 1)
    BY <2>1, <1>4
  <2>4. QED
    BY <2>2, <2>3, <1>4 DEF Graph!FirstOK
<1>7. CASE paths = <<>> /\ paths' = Append(paths, path)
  <2>1. paths'[1] = path /\ Len(path) - 1 = d
    BY <1>2, <1>7
  <2>2. Graph!Within(stored, d) \subseteq visited
    BY <1>0, Around
  <2>3. \A x \in visited : Graph!Found(x) => x \in Graph!Starts(graph, query)
    BY <1>7 DEF Graph!IInv, Graph!VisitedOK, Graph!Told
  <2>4. (Graph!Within(stored, Len(paths[1]) - 1))' = Graph!Within(stored, d)
    BY <2>1, <1>4
  <2>5. QED
    BY <2>2, <2>3, <2>4, <1>4 DEF Graph!FirstOK
<1>8. CASE paths' = <<>>
  BY <1>8 DEF Graph!FirstOK
<1>9. QED
  BY <1>3, <1>6, <1>7, <1>8

LEMMA FollowHolds ==
  ASSUME Graph!GraphAssumption, Graph!Typed, Graph!IInv, NEW f, Graph!Follow(f)
  PROVE Graph!IInv'
<1>1. Graph!QueueOK' /\ Graph!NodeOK' /\ Graph!VisitedOK' /\ Graph!PathsConnect'
  BY FollowQueue, FollowVisited, FollowPaths
<1>2. pc' = "search" /\ query' = query
  BY DEF Graph!Follow
<1>3. Graph!DoneOK'
  BY <1>2 DEF Graph!DoneOK
<1>4. IF query.target = None THEN Graph!ListOK' ELSE Graph!FirstOK'
  BY FollowList, FollowFirst
<1>5. Graph!Typed'
  BY FollowTyped
<1>6. QED
  BY <1>1, <1>2, <1>3, <1>4, <1>5 DEF Graph!IInv

\* A step that leaves all that is found as it is, but for facts that are deleted.
LEMMA QuietStep ==
  ASSUME Graph!GraphAssumption, Graph!Typed, stored' \subseteq stored,
         UNCHANGED <<graph, query, visited, collected, paths>>,
         pc' = "raised" => stored' # DOMAIN graph
  PROVE  /\ \A i \in Graph!Items : Len(i.path) <= MaxDepth /\ Graph!Ready(i) => Graph!Ready(i)'
         /\ \A x : Graph!Told(x) => Graph!Told(x)'
         /\ \A x, F : Graph!Expanded(x, F) => Graph!Expanded(x, F)'
         /\ \A f : Graph!Ends(f)' = Graph!Ends(f)
         /\ Graph!Starts(graph, query)' = Graph!Starts(graph, query)
         /\ Graph!PathsConnect => Graph!PathsConnect'
         /\ Graph!ListOK => Graph!ListOK'
         /\ Graph!FirstOK => Graph!FirstOK'
<1>1. /\ \A i \in Graph!Items : Len(i.path) <= MaxDepth /\ Graph!Ready(i) => Graph!Ready(i)'
      /\ \A x : Graph!Told(x) => Graph!Told(x)'
      /\ \A x, F : Graph!Expanded(x, F) => Graph!Expanded(x, F)'
      /\ \A n \in 0 .. MaxDepth : Graph!Within(stored, n)' \subseteq Graph!Within(stored, n)
      /\ \A e : \A n \in 0 .. MaxDepth : Graph!NoNearer(e, n) => Graph!NoNearer(e, n)'
  BY FoundStays
<1>2. graph' = graph /\ paths' = paths /\ collected' = collected /\ query' = query
  OBVIOUS
<1>3. /\ Graph!Starts(graph, query)' = Graph!Starts(graph, query)
      /\ \A f : Graph!Ends(f)' = Graph!Ends(f)
      /\ \A e : Graph!Found(e)' = Graph!Found(e)
      /\ \A p : Graph!Walk(p)' = Graph!Walk(p)
  BY GraphStays
<1>4. paths \in Seq(Seq(Edge)) /\ \A n \in DOMAIN paths : Len(paths[n]) \in 1 .. MaxDepth
  BY DEF Graph!Typed
<1>5. Graph!PathsConnect => Graph!PathsConnect'
  BY <1>2, <1>3 DEF Graph!PathsConnect
<1>6. Graph!ListOK => Graph!ListOK'
  <2>1. SUFFICES ASSUME Graph!ListOK PROVE Graph!ListOK'
    OBVIOUS
  <2>2. ASSUME NEW e \in collected \ Graph!Starts(graph, query)
        PROVE  \E n \in DOMAIN paths' :
                 e \in (Graph!Walk(paths[n]))' /\ (Graph!NoNearer(e, Len(paths[n])))'
    <3>1. PICK n \in DOMAIN paths : e \in Graph!Walk(paths[n]) /\ Graph!NoNearer(e, Len(paths[n]))
      BY <2>1 DEF Graph!ListOK
    <3>2. Len(paths[n]) \in 0 .. MaxDepth
      BY <1>4 DEF Graph!GraphAssumption
    <3>3. QED
      BY <3>1, <3>2, <1>1, <1>2, <1>3
  <2>3. QED
    BY <2>1, <2>2, <1>2, <1>3 DEF Graph!ListOK
<1>7. Graph!FirstOK => Graph!FirstOK'
  <2>1. SUFFICES ASSUME Graph!FirstOK, paths # <<>>
         PROVE \A e \in (Graph!Within(stored, Len(paths[1]) - 1) \ Graph!Starts(graph, query))' :
                 ~Graph!Found(e)'
    BY <1>2 DEF Graph!FirstOK
  <2>2. PICK l \in 1 .. MaxDepth : l = Len(paths[1])
    BY <1>4, <2>1
  <2>3. PICK k \in 0 .. MaxDepth : k = Len(paths[1]) - 1
    <3>1. l - 1 \in 0 .. MaxDepth
      BY DEF Graph!GraphAssumption
    <3>2. QED
      BY <2>2, <3>1
  <2>4. Graph!Within(stored, k)' \subseteq Graph!Within(stored, k)
    BY <1>1
  <2>5. (Graph!Within(stored, Len(paths[1]) - 1))' = Graph!Within(stored, k)'
    BY <2>3, <1>2
  <2>6. QED
    BY <2>1, <2>3, <2>4, <2>5, <1>3 DEF Graph!FirstOK
<1>8. QED
  BY <1>1, <1>3, <1>5, <1>6, <1>7

LEMMA PopHolds ==
  ASSUME Graph!GraphAssumption, Graph!Typed, Graph!IInv, Graph!Pop
  PROVE Graph!IInv'
<1>1. /\ queue \in Seq(Graph!Items) /\ queue # <<>> /\ queue' = Tail(queue) /\ node = None
      /\ UNCHANGED <<graph, stored, query, visited, collected, paths>> /\ pc' = "search"
      /\ stored' = stored /\ query' = query
  BY DEF Graph!Pop, Graph!Typed
<1>2. /\ Head(queue) = queue[1] /\ 1 \in DOMAIN queue /\ queue[1] \in Graph!Items
      /\ \A n \in DOMAIN queue' : n + 1 \in DOMAIN queue /\ queue'[n] = queue[n + 1]
      /\ \A n \in DOMAIN queue :
           n \in Nat /\ (n = 1 \/ (n - 1 \in DOMAIN queue' /\ queue'[n - 1] = queue[n]))
  BY <1>1
<1>3. Len(queue[1].path) < MaxDepth /\ MaxDepth \in Nat /\ Len(queue[1].path) \in Nat
  BY <1>2 DEF Graph!Typed, Graph!GraphAssumption, Graph!Items
<1>4. node' = queue[1] /\ rows' = Graph!FactsOf(queue[1].at)
  BY <1>2, <1>3 DEF Graph!Pop
<1>5. node' # None
  BY <1>2, <1>4 DEF Graph!GraphAssumption, Graph!Items
<1>6. /\ \A i \in Graph!Items : Len(i.path) <= MaxDepth /\ Graph!Ready(i) => Graph!Ready(i)'
      /\ \A x : Graph!Told(x) => Graph!Told(x)'
      /\ \A x, F : Graph!Expanded(x, F) => Graph!Expanded(x, F)'
      /\ \A f : Graph!Ends(f)' = Graph!Ends(f)
      /\ Graph!Starts(graph, query)' = Graph!Starts(graph, query)
      /\ Graph!PathsConnect => Graph!PathsConnect'
      /\ Graph!ListOK => Graph!ListOK'
      /\ Graph!FirstOK => Graph!FirstOK'
  BY <1>1, QuietStep
<1>7. /\ \A n \in DOMAIN queue : Graph!Ready(queue[n])
      /\ \A m, n \in DOMAIN queue : m <= n => Graph!Follows(queue[m], queue[n])
      /\ \A n \in DOMAIN queue : queue[n] \in Graph!Items /\ Len(queue[n].path) <= MaxDepth
  BY QueueTyped DEF Graph!IInv, Graph!QueueOK
<1>8. Graph!QueueOK'
  <2>1. ASSUME NEW n \in DOMAIN queue' PROVE Graph!Ready(queue[n])'
    BY <1>2, <1>6, <1>7
  <2>2. ASSUME NEW m \in DOMAIN queue', NEW n \in DOMAIN queue', m <= n
        PROVE Graph!Follows(queue'[m], queue'[n])
    <3>1. DOMAIN queue' = 1 .. Len(queue') /\ Len(queue') \in Nat
      BY <1>1
    <3>2. m + 1 \in DOMAIN queue /\ n + 1 \in DOMAIN queue /\ m + 1 <= n + 1
      BY <1>2, <2>2, <3>1
    <3>3. QED
      BY <3>2, <1>2, <1>7
  <2>3. QED
    BY <2>1, <2>2 DEF Graph!QueueOK, Graph!Follows
<1>9. Graph!NodeOK'
  <2>1. Graph!Ready(node)'
    BY <1>2, <1>4, <1>6, <1>7
  <2>2. \A f \in rows' : f \in DOMAIN graph' /\ node'.at \in Graph!Ends(f)'
    BY <1>1, <1>4, <1>6 DEF Graph!FactsOf, Graph!Typed
  <2>3. ASSUME NEW n \in DOMAIN queue' PROVE Graph!Follows(queue[1], queue'[n])
    <3>1. DOMAIN queue' = 1 .. Len(queue') /\ Len(queue') \in Nat
      BY <1>1
    <3>2. n + 1 \in DOMAIN queue /\ 1 <= n + 1
      BY <1>2, <3>1
    <3>3. QED
      BY <3>2, <1>2, <1>7
  <2>4. \A n \in DOMAIN queue' : Graph!Follows(node, queue[n])'
    BY <2>3, <1>4 DEF Graph!Follows
  <2>5. QED
    BY <2>1, <2>2, <2>4, <1>4 DEF Graph!NodeOK
<1>10. Graph!VisitedOK'
  <2>1. Graph!Starts(graph, query)' \subseteq visited' /\ \A x \in visited' : Graph!Told(x)'
    BY <1>1, <1>6 DEF Graph!IInv, Graph!VisitedOK
  <2>2. ASSUME NEW x \in visited'
        PROVE  \/ \E n \in DOMAIN queue' : queue'[n].at = x
               \/ node' # None /\ node'.at = x /\ Graph!Expanded(x, rows)'
               \/ Graph!Expanded(x, {})'
    <3>1. (\E n \in DOMAIN queue : queue[n].at = x) \/ Graph!Expanded(x, {})
      BY <1>1 DEF Graph!IInv, Graph!VisitedOK, Graph!Pop
    <3>2. CASE queue[1].at = x
      <4>1. Graph!FactsOf(x)' = Graph!FactsOf(x)
        BY <1>1, <1>6 DEF Graph!FactsOf
      <4>2. (Graph!FactsOf(x) \ rows)' = {}
        BY <4>1, <1>4, <3>2
      <4>3. Graph!Expanded(x, rows)'
        BY <4>2 DEF Graph!Expanded
      <4>4. QED
        BY <4>3, <3>2, <1>4, <1>5
    <3>3. CASE \E n \in DOMAIN queue \ {1} : queue[n].at = x
      BY <3>3, <1>2
    <3>4. CASE Graph!Expanded(x, {})
      BY <3>4, <1>6
    <3>5. QED
      BY <3>1, <3>2, <3>3, <3>4
  <2>3. QED
    BY <2>1, <2>2 DEF Graph!VisitedOK
<1>11. Graph!Typed'
  BY PopTyped
<1>12. QED
  BY <1>1, <1>6, <1>8, <1>9, <1>10, <1>11 DEF Graph!IInv, Graph!DoneOK

\* A step after which facts are deleted, or the node or what is left of its facts is not
\* the same.
LEMMA LeftHolds ==
  ASSUME Graph!GraphAssumption, Graph!IInv,
         UNCHANGED <<graph, query, queue, visited, collected, paths>>,
         stored' \subseteq stored, rows' \subseteq rows, node' \in {None, node},
         node # None /\ Len(paths) < Limit =>
           \/ /\ node' = node
              /\ \A f \in (rows \ rows') \cap stored : \A o \in Graph!Ends(f) : Graph!Met(o)
           \/ rows = {},
         pc' = "raised" => stored' # DOMAIN graph, Graph!Typed', Graph!DoneOK'
  PROVE  Graph!IInv'
<1>1. /\ queue' = queue /\ visited' = visited /\ paths' = paths /\ query' = query
      /\ graph' = graph /\ UNCHANGED <<graph, query, visited, collected, paths>>
  OBVIOUS
<1>2. /\ \A i \in Graph!Items : Len(i.path) <= MaxDepth /\ Graph!Ready(i) => Graph!Ready(i)'
      /\ \A x : Graph!Told(x) => Graph!Told(x)'
      /\ \A x, F : Graph!Expanded(x, F) => Graph!Expanded(x, F)'
      /\ \A f : Graph!Ends(f)' = Graph!Ends(f)
      /\ Graph!Starts(graph, query)' = Graph!Starts(graph, query)
      /\ Graph!PathsConnect => Graph!PathsConnect'
      /\ Graph!ListOK => Graph!ListOK'
      /\ Graph!FirstOK => Graph!FirstOK'
  BY <1>1, QuietStep DEF Graph!IInv
<1>3. Graph!QueueOK'
  <2>1. ASSUME NEW n \in DOMAIN queue' PROVE Graph!Ready(queue[n])'
    <3>1. Graph!Ready(queue[n]) /\ queue[n] \in Graph!Items /\ Len(queue[n].path) <= MaxDepth
      BY <1>1, <2>1, QueueTyped DEF Graph!IInv, Graph!QueueOK
    <3>2. QED
      BY <3>1, <1>1, <1>2
  <2>2. QED
    BY <1>1, <2>1 DEF Graph!IInv, Graph!QueueOK, Graph!Follows
<1>4. Graph!NodeOK'
  <2>1. CASE node' = None
    BY <2>1 DEF Graph!NodeOK
  <2>2. CASE node' = node /\ node # None
    <3>1. /\ Graph!Ready(node) /\ node \in Graph!Items /\ Len(node.path) <= MaxDepth
          /\ \A f \in rows : f \in DOMAIN graph /\ node.at \in Graph!Ends(f)
          /\ \A n \in DOMAIN queue : Graph!Follows(node, queue[n])
      BY <2>2, QueueTyped DEF Graph!IInv, Graph!NodeOK
    <3>2. Graph!Ready(node)'
      BY <3>1, <2>2, <1>2
    <3>3. \A f \in rows' : f \in DOMAIN graph' /\ node'.at \in Graph!Ends(f)'
      BY <3>1, <2>2, <1>1, <1>2
    <3>4. \A n \in DOMAIN queue' : Graph!Follows(node, queue[n])'
      BY <3>1, <2>2, <1>1 DEF Graph!Follows
    <3>5. QED
      BY <3>2, <3>3, <3>4 DEF Graph!NodeOK
  <2>3. QED
    BY <2>1, <2>2
<1>5. Graph!VisitedOK'
  <2>1. Graph!Starts(graph, query)' \subseteq visited' /\ \A x \in visited' : Graph!Told(x)'
    BY <1>1, <1>2 DEF Graph!IInv, Graph!VisitedOK
  <2>2. ASSUME Len(paths') < Limit, NEW x \in visited'
        PROVE  \/ \E n \in DOMAIN queue' : queue'[n].at = x
               \/ node' # None /\ node'.at = x /\ Graph!Expanded(x, rows)'
               \/ Graph!Expanded(x, {})'
    <3>1. \/ \E n \in DOMAIN queue : queue[n].at = x
          \/ node # None /\ node.at = x /\ Graph!Expanded(x, rows)
          \/ Graph!Expanded(x, {})
      BY <1>1, <2>2 DEF Graph!IInv, Graph!VisitedOK
    <3>2. CASE \E n \in DOMAIN queue : queue[n].at = x
      BY <3>2, <1>1
    <3>3. CASE Graph!Expanded(x, {})
      BY <3>3, <1>2
    <3>4. CASE node # None /\ node.at = x /\ Graph!Expanded(x, rows)
      <4>1. CASE rows = {}
        <5>1. Graph!Expanded(x, {})
          BY <3>4, <4>1
        <5>2. QED
          BY <5>1, <1>2
      <4>2. CASE /\ node' = node
                 /\ \A f \in (rows \ rows') \cap stored : \A o \in Graph!Ends(f) : Graph!Met(o)
        <5>1. PICK F : F = rows'
          OBVIOUS
        <5>2. ASSUME NEW g \in (Graph!FactsOf(x) \ F), NEW o \in Graph!Ends(g) PROVE Graph!Met(o)
          BY <5>1, <5>2, <3>4, <4>2 DEF Graph!Expanded, Graph!FactsOf
        <5>3. Graph!Expanded(x, F)
          BY <5>2 DEF Graph!Expanded
        <5>4. Graph!Expanded(x, F)'
          BY <5>3, <1>2
        <5>5. Graph!Expanded(x, rows)'
          BY <5>1, <5>4
        <5>6. QED
          BY <5>5, <3>4, <4>2
      <4>3. QED
        BY <4>1, <4>2, <3>4, <2>2, <1>1
    <3>5. QED
      BY <3>1, <3>2, <3>3, <3>4
  <2>3. QED
    BY <2>1, <2>2 DEF Graph!VisitedOK
<1>6. QED
  BY <1>1, <1>2, <1>3, <1>4, <1>5 DEF Graph!IInv

LEMMA GraphStepHolds ==
  ASSUME Graph!GraphAssumption, Graph!IInv, [Graph!Next]_Graph!vars
  PROVE  Graph!IInv'
<1>1. CASE Graph!Pop
  BY <1>1, PopHolds DEF Graph!IInv
<1>2. ASSUME NEW f \in Edge, Graph!Follow(f) PROVE Graph!IInv'
  BY <1>2, FollowHolds DEF Graph!IInv
<1>3. Graph!Typed /\ Graph!Typed'
  BY GraphStepTyped DEF Graph!IInv
<1>4. ASSUME NEW f \in Edge, Graph!Skip(f) PROVE Graph!IInv'
  <2>1. /\ f \in rows /\ rows' = rows \ {f} /\ pc' = "search" /\ node' = node /\ node # None
        /\ UNCHANGED <<graph, stored, query, queue, visited, collected, paths>>
        /\ Graph!Contains(node.path, f) \/ f \notin stored
    BY <1>3, <1>4 DEF Graph!Skip, Graph!Typed
  <2>2. Graph!Ready(node)
    BY <2>1 DEF Graph!IInv, Graph!NodeOK
  <2>3. ASSUME f \in stored, NEW o \in Graph!Ends(f) PROVE Graph!Met(o)
    <3>1. Graph!Ends(f) \subseteq visited
      <4>1. node.path \in Seq(Edge)
        BY <1>3, <2>1 DEF Graph!Typed, Graph!Items
      <4>2. QED
        BY <4>1, <2>1, <2>2, <2>3 DEF Graph!Contains, Graph!Ready
    <3>2. QED
      BY <3>1, <2>3 DEF Graph!IInv, Graph!VisitedOK, Graph!Met
  <2>4. \A g \in (rows \ rows') \cap stored : \A o \in Graph!Ends(g) : Graph!Met(o)
    <3>1. \A g \in rows \ rows' : g = f
      BY <2>1
    <3>2. QED
      BY <3>1, <2>3
  <2>5. Graph!DoneOK'
    BY <2>1 DEF Graph!DoneOK
  <2>6. stored' \subseteq stored /\ rows' \subseteq rows /\ node' \in {None, node}
          /\ pc' # "raised"
    BY <2>1
  <2>7. QED
    BY <2>1, <2>4, <2>5, <2>6, <1>3, LeftHolds
<1>5. ASSUME NEW f \in Edge, Graph!Raise(f) PROVE Graph!IInv'
  <2>1. /\ UNCHANGED <<graph, stored, query, queue, visited, collected, paths, node, rows>>
        /\ pc' = "raised" /\ f \in rows
        /\ f \in stored => ~(Graph!ToSet(node.path) \subseteq stored)
    BY <1>5 DEF Graph!Raise
  <2>2. node # None /\ Graph!Ready(node) /\ f \in DOMAIN graph
    BY <1>3, <2>1 DEF Graph!Typed, Graph!IInv, Graph!NodeOK
  <2>3. Graph!ToSet(node.path) \subseteq DOMAIN graph
    <3>1. node.path \in Seq(Edge)
      BY <1>3, <2>2 DEF Graph!Typed, Graph!Items
    <3>2. QED
      BY <3>1, <2>2 DEF Graph!ToSet, Graph!Ready
  <2>4. stored' # DOMAIN graph
    BY <2>1, <2>2, <2>3
  <2>5. Graph!DoneOK'
    BY <2>1 DEF Graph!DoneOK
  <2>6. /\ (rows \ rows') \cap stored = {} /\ node' = node /\ node' \in {None, node}
        /\ rows' \subseteq rows /\ stored' \subseteq stored
    BY <2>1
  <2>7. QED
    BY <2>1, <2>4, <2>5, <2>6, <1>3, LeftHolds
<1>6. CASE Graph!Leave
  <2>1. /\ node' = None /\ rows' = {} /\ pc' = "search" /\ (rows = {} \/ Len(paths) >= Limit)
        /\ UNCHANGED <<graph, stored, query, queue, visited, collected, paths>>
    BY <1>6 DEF Graph!Leave
  <2>2. Len(paths) < Limit => rows = {}
    BY <1>3, <2>1 DEF Graph!Typed, Graph!GraphAssumption
  <2>3. Graph!DoneOK'
    BY <2>1 DEF Graph!DoneOK
  <2>4. /\ rows' \subseteq rows /\ stored' \subseteq stored /\ node' \in {None, node}
        /\ pc' # "raised"
    BY <2>1
  <2>5. QED
    BY <2>1, <2>2, <2>3, <2>4, <1>3, LeftHolds
<1>7. ASSUME UNCHANGED <<graph, query, queue, visited, collected, paths, node, rows>>,
             stored' \subseteq stored, pc' = "raised" => stored' # DOMAIN graph, Graph!DoneOK'
      PROVE  Graph!IInv'
  <2>1. /\ (rows \ rows') \cap stored = {} /\ node' = node /\ node' \in {None, node}
        /\ rows' \subseteq rows
    BY <1>7
  <2>2. QED
    BY <2>1, <1>3, <1>7, LeftHolds
<1>8. CASE Graph!Return
  <2>1. /\ UNCHANGED <<graph, stored, query, queue, visited, collected, paths, node, rows>>
        /\ node = None /\ (queue = <<>> \/ Len(paths) >= Limit \/ Graph!TooMany)
        /\ pc' = "done"
    BY <1>8 DEF Graph!Return
  <2>2. Graph!DoneOK'
    BY <2>1 DEF Graph!DoneOK, Graph!TooMany
  <2>3. QED
    BY <2>1, <2>2, <1>7
<1>9. ASSUME NEW f \in Edge, Graph!Delete(f) PROVE Graph!IInv'
  <2>1. /\ UNCHANGED <<graph, query, queue, visited, collected, paths, node, rows>>
        /\ stored' \subseteq stored /\ pc' = "search"
    BY <1>9 DEF Graph!Delete
  <2>2. Graph!DoneOK'
    BY <2>1 DEF Graph!DoneOK
  <2>3. QED
    BY <2>1, <2>2, <1>7
<1>10. CASE UNCHANGED Graph!vars
  <2>1. UNCHANGED <<graph, stored, query, queue, visited, collected, paths, node, rows, pc>>
    BY <1>10 DEF Graph!vars
  <2>2. Graph!DoneOK'
    BY <2>1 DEF Graph!IInv, Graph!DoneOK, Graph!TooMany
  <2>3. pc' = "raised" => stored' # DOMAIN graph
    BY <2>1 DEF Graph!IInv, Graph!PathsConnect
  <2>4. QED
    BY <2>1, <2>2, <2>3, <1>7
<1>11. QED
  BY <1>1, <1>2, <1>4, <1>5, <1>6, <1>8, <1>9, <1>10 DEF Graph!Next, Graph!Search

LEMMA ConnectionsInductive == ASSUME Graph!GraphAssumption PROVE Graph!Spec => []Graph!IInv
<1>1. Graph!Init => Graph!IInv
  BY GraphInitHolds
<1>2. Graph!IInv /\ [Graph!Next]_Graph!vars => Graph!IInv'
  BY GraphStepHolds
<1>3. QED
  BY <1>1, <1>2, PTL DEF Graph!Spec

(* For any facts, any entities and any bounds (max_depth, limit and        *)
(* MAX_BFS_VISITED), while others delete facts: every path that is         *)
(* returned leads along distinct facts to what was asked for. Without a    *)
(* target there is exactly one to each entity that is found, with one the  *)
(* first is to it, and neither is longer than the way that is left; unless *)
(* the search is cut short by a bound, it finds every entity, or the       *)
(* target, that is left in reach.                                          *)
THEOREM ConnectionSafety ==
  ASSUME Graph!GraphAssumption
  PROVE  Graph!Spec => []PathsAreFound
<1>1. Graph!IInv => Graph!TypeOK
  BY DEF Graph!IInv, Graph!Typed, Graph!TypeOK
<1>2. Graph!IInv => Graph!PathsConnect
  BY DEF Graph!IInv
<1>3. ASSUME Graph!IInv, Graph!Complete PROVE \A e \in Graph!Within(stored, MaxDepth) : Graph!Told(e)
  BY <1>3, AllTold DEF Graph!IInv
<1>4. Graph!IInv => Graph!ReachesEachOnce
  <2>1. SUFFICES ASSUME Graph!IInv, query.target = None PROVE Graph!ReachesEachOnce
    BY DEF Graph!ReachesEachOnce
  <2>2. Graph!ListOK
    BY <2>1 DEF Graph!IInv
  <2>3. Graph!Complete => Graph!Within(stored, MaxDepth) \subseteq collected
    BY <1>3, <2>1 DEF Graph!Told
  <2>4. QED
    BY <2>2, <2>3, SameSets DEF Graph!ListOK, Graph!ReachesEachOnce
<1>5. Graph!IInv => Graph!FindsTarget
  <2>1. SUFFICES ASSUME Graph!IInv, query.target # None,
                        NEW e \in Graph!Within(stored, MaxDepth) \ Graph!Starts(graph, query),
                        Graph!Found(e)
                 PROVE  /\ Graph!Complete => paths # <<>>
                        /\ paths # <<>> => Graph!NoNearer(e, Len(paths[1]))
    BY DEF Graph!FindsTarget
  <2>2. Graph!Complete => paths # <<>>
    BY <1>3, <2>1 DEF Graph!Told
  <2>3. Graph!FirstOK
    BY <2>1 DEF Graph!IInv
  <2>4. QED
    BY <2>1, <2>2, <2>3 DEF Graph!FirstOK, Graph!NoNearer
<1>6. Graph!IInv => PathsAreFound
  BY <1>1, <1>2, <1>4, <1>5 DEF PathsAreFound
<1>7. QED
  BY <1>6, ConnectionsInductive, PTL
=============================================================================
