-------------------------- MODULE MigrationProofs --------------------------
(* Proofs about Migration, for every set of clients, identities and        *)
(* documents, and every number of candidates.                              *)
EXTENDS Migration, FiniteSetTheorems, TLAPS

-----------------------------------------------------------------------------
(* Facts about the collections.                                            *)
LEMMA CollectionFacts ==
  /\ Legacy \notin Candidate /\ Legacy \in Collection /\ Candidate \subseteq Collection
  /\ NoCollection \notin Collection
  /\ Candidate \subseteq Nat
BY MigrationAssumption DEF Legacy, Candidate, Collection, NoCollection

\* The next number is no candidate's yet, and candidates stay an interval.
LEMMA FreshCandidate ==
  ASSUME CollectionInv, NEW g \in Candidate, g = Cardinality(exists \cap Candidate) + 1
  PROVE  /\ g \notin exists
         /\ (exists \cup {g}) \cap Candidate = 1 .. Cardinality((exists \cup {g}) \cap Candidate)
<1> DEFINE S == exists \cap Candidate
           n == Cardinality(S)
<1>1. IsFiniteSet(Candidate)
  BY MigrationAssumption, FS_Interval DEF Candidate
<1>2. n \in Nat
  BY <1>1, FS_Subset, FS_CardinalityType
<1>3. S = 1 .. n
  BY DEF CollectionInv
<1>4. g = n + 1
  OBVIOUS
<1> HIDE DEF n
<1>5. (exists \cup {g}) \cap Candidate = 1 .. (n + 1)
  BY <1>2, <1>3, <1>4
<1>6. Cardinality(1 .. (n + 1)) = n + 1
  BY <1>2, FS_Interval
<1>7. g \notin exists
  BY <1>2, <1>3, <1>4
<1>8. QED
  BY <1>5, <1>6, <1>7

\* What is active is on the server, or there is nothing.
LEMMA ActiveFacts ==
  ASSUME TypeOK
  PROVE  Active = NoCollection \/ Active \in exists \cap Collection
BY CollectionFacts DEF TypeOK, Active

LEMMA StoredFacts ==
  ASSUME TypeOK, NEW g \in Collection
  PROVE  Stored(g) \subseteq Document /\ IsFiniteSet(Stored(g))
BY MigrationAssumption, FS_Subset DEF TypeOK, Stored

\* A point is written.
LEMMA PointsType ==
  ASSUME TypeOK, NEW g \in Collection, NEW d \in Document,
         NEW v \in Identity \cup {Unknown, Absent}
  PROVE  /\ [points EXCEPT ![g][d] = v] \in [Collection -> [Document -> Identity \cup {Unknown, Absent}]]
         /\ \A h \in Collection, e \in Document :
              [points EXCEPT ![g][d] = v][h][e] = IF h = g /\ e = d THEN v ELSE points[h][e]
BY DEF TypeOK

\* Where a call uses or builds a collection, it is a candidate on the server.
LEMMA CallFacts ==
  ASSUME IInv, NEW c \in Client
  PROVE  /\ pc[c] = "use" => view[c] \in exists \cap Candidate
         /\ pc[c] \in Building \cup {"publish"} => target[c] \in exists \cap Candidate
         /\ ident[c] \in Identity
BY DEF IInv, CallOK, TypeOK

-----------------------------------------------------------------------------
(* Type correctness.                                                       *)
LEMMA InitTypeOK == Init => TypeOK
<1> SUFFICES ASSUME Init PROVE TypeOK
  OBVIOUS
<1> USE CollectionFacts, MigrationAssumption DEF Init
<1>1. /\ exists \subseteq Collection /\ late \subseteq exists \cap Candidate /\ failed \subseteq exists
      /\ alias \in (exists \cap Candidate) \cup {NoCollection}
      /\ lock \in Client \cup {Nobody} /\ held \subseteq Document
  OBVIOUS
<1>2. points \in [Collection -> [Document -> Identity \cup {Unknown, Absent}]]
  OBVIOUS
<1>3. QED
  BY <1>1, <1>2 DEF TypeOK, Place

\* The end of a call leaves its locals well formed.
LEMMA EndTypes ==
  ASSUME TypeOK, NEW c \in Client, End(c)
  PROVE  /\ lock' \in Client \cup {Nobody}
         /\ pc' \in [Client -> Place] /\ kind' \in [Client -> {"read", "write"}]
         /\ source' \in [Client -> Collection \cup {NoCollection}]
         /\ target' \in [Client -> Candidate \cup {NoCollection}]
         /\ view' \in [Client -> Candidate \cup {NoCollection}]
         /\ todo' \in [Client -> SUBSET Document] /\ copied' \in [Client -> Nat]
         /\ cancelled' \in [Client -> BOOLEAN]
         /\ \A x \in Client : pc'[x] \notin {"idle", "check", "confirm", "lock", "use"} => lock' = x
BY DEF TypeOK, End, Goto, Place

LEMMA StepTypeOK == IInv /\ [Next]_vars => TypeOK'
<1> SUFFICES ASSUME IInv, [Next]_vars PROVE TypeOK'
  OBVIOUS
<1> USE CollectionFacts
<1>0. TypeOK
  BY DEF IInv
<1>1. ASSUME NEW c \in Client, Start(c) PROVE TypeOK'
  BY <1>0, <1>1 DEF Start, At, Goto, TypeOK, Place, server, locals, history
<1>2. ASSUME NEW c \in Client, CheckAlias(c) PROVE TypeOK'
  BY <1>0, <1>2 DEF CheckAlias, At, Goto, TypeOK, Place, server, locals, history
<1>3. ASSUME NEW c \in Client, Confirm(c) PROVE TypeOK'
  <2>1. view' \in [Client -> Candidate \cup {NoCollection}]
    BY <1>0, <1>3 DEF Confirm, TypeOK
  <2>2. pc' \in [Client -> Place] /\ pc'[c] \in {"use", "lock"}
        /\ \A x \in Client : x # c => pc'[x] = pc[x]
    BY <1>0, <1>3 DEF Confirm, Goto, TypeOK, Place
  <2>3. QED
    BY <1>0, <1>3, <2>1, <2>2 DEF Confirm, TypeOK, server, history
<1>4. ASSUME NEW c \in Client, Acquire(c) PROVE TypeOK'
  BY <1>0, <1>4, MigrationAssumption DEF Acquire, At, Goto, TypeOK, Place, server, locals, history
<1>5. ASSUME NEW c \in Client, ReadSource(c) PROVE TypeOK'
  BY <1>0, <1>5, ActiveFacts DEF ReadSource, At, Goto, TypeOK, Place, server, locals, history
<1>6. ASSUME NEW c \in Client, Bind(c) PROVE TypeOK'
  <2>1. source[c] \in Candidate
    BY <1>6 DEF Bind, Compatible, IInv, CollectionInv, Collection
  <2>2. QED
    BY <1>0, <1>6, <2>1 DEF Bind, At, Goto, TypeOK, Place, server, locals, history
<1>7. ASSUME NEW c \in Client, Superseded(c) PROVE TypeOK'
  BY <1>0, <1>7, EndTypes DEF Superseded, TypeOK, server, history
<1>8. ASSUME NEW c \in Client, Create(c) PROVE TypeOK'
  <2>1. PICK g \in Candidate : /\ exists' = exists \cup {g}
                               /\ space' = [space EXCEPT ![g] = ident[c]]
                               /\ target' = [target EXCEPT ![c] = g]
    BY <1>8 DEF Create
  <2>2. pc' \in [Client -> Place] /\ lock = c
        /\ \A x \in Client : x # c => pc'[x] = pc[x]
    BY <1>0, <1>8 DEF Create, At, Goto, TypeOK, Place, Building
  <2>3. /\ space' \in [Collection -> Identity \cup {Unknown}]
        /\ target' \in [Client -> Candidate \cup {NoCollection}]
    BY <1>0, <1>8, <2>1, CallFacts DEF TypeOK
  <2>4. /\ exists' \subseteq Collection /\ late' \subseteq exists' \cap Candidate
        /\ failed' \subseteq exists' /\ alias' \in (exists' \cap Candidate) \cup {NoCollection}
    BY <1>0, <1>8, <2>1 DEF Create, TypeOK, history
  <2>5. QED
    BY <1>0, <1>8, <2>2, <2>3, <2>4 DEF Create, TypeOK, history
<1>9. ASSUME NEW c \in Client, StampBuilding(c) PROVE TypeOK'
  <2>1. todo' \in [Client -> SUBSET Document]
    BY <1>0, <1>9, StoredFacts DEF StampBuilding, TypeOK
  <2>2. pc' \in [Client -> Place] /\ lock = c
        /\ \A x \in Client : x # c => pc'[x] = pc[x]
    BY <1>0, <1>9 DEF StampBuilding, At, Goto, TypeOK, Place, Building
  <2>3. manifest' \in [Collection -> {"none", "building", "ready"}]
    BY <1>0, <1>9 DEF StampBuilding, TypeOK
  <2>4. QED
    BY <1>0, <1>9, <2>1, <2>2, <2>3 DEF StampBuilding, TypeOK, history
<1>10. ASSUME NEW c \in Client, NEW d \in Document, Copy(c, d) PROVE TypeOK'
  <2>1. points' \in [Collection -> [Document -> Identity \cup {Unknown, Absent}]]
    <3>1. target[c] \in Collection
      BY <1>10, CallFacts DEF Copy, At, Building
    <3>2. points' = points \/ points' = [points EXCEPT ![target[c]][d] = ident[c]]
      BY <1>10 DEF Copy
    <3>3. \A v \in Identity : [points EXCEPT ![target[c]][d] = v] \in [Collection -> [Document -> Identity \cup {Unknown, Absent}]]
      BY <1>0, <3>1, PointsType
    <3>4. QED
      BY <1>0, <3>2, <3>3, CallFacts DEF TypeOK
  <2>2. copied' \in [Client -> Nat] /\ todo' \in [Client -> SUBSET Document]
    BY <1>0, <1>10 DEF Copy, TypeOK
  <2>3. QED
    BY <1>0, <1>10, <2>1, <2>2 DEF Copy, At, TypeOK, history
<1>11. ASSUME NEW c \in Client, NEW d \in Document, Write(c, d) PROVE TypeOK'
  <2>1. points' \in [Collection -> [Document -> Identity \cup {Unknown, Absent}]]
    <3>1. view[c] \in Collection
      BY <1>11, CallFacts DEF Write, At
    <3>2. \/ points' = [points EXCEPT ![view[c]][d] = ident[c]]
          \/ points' = [points EXCEPT ![view[c]][d] = Absent]
      BY <1>11 DEF Write
    <3>3. \A v \in Identity \cup {Unknown, Absent} : [points EXCEPT ![view[c]][d] = v] \in [Collection -> [Document -> Identity \cup {Unknown, Absent}]]
      BY <1>0, <3>1, PointsType
    <3>4. QED
      BY <3>2, <3>3, CallFacts
  <2>2. held' \subseteq Document
    BY <1>0, <1>11 DEF Write, TypeOK
  <2>3. QED
    BY <1>0, <1>11, <2>1, <2>2, EndTypes DEF Write, TypeOK
<1>12. ASSUME NEW c \in Client, CountPoints(c) PROVE TypeOK'
  <2>1. pc' \in [Client -> Place] /\ lock = c
        /\ \A x \in Client : x # c => pc'[x] = pc[x]
    BY <1>0, <1>12 DEF CountPoints, At, Goto, TypeOK, Place, Building
  <2>2. QED
    BY <1>0, <1>12, <2>1 DEF CountPoints, TypeOK, server, locals, history
<1>13. ASSUME NEW c \in Client, Finalize(c) PROVE TypeOK'
  <2>1. points' \in [Collection -> [Document -> Identity \cup {Unknown, Absent}]]
    <3>1. points[target[c]] \in [Document -> Identity \cup {Unknown, Absent}]
      BY <1>0, <1>13, CallFacts, CollectionFacts DEF Finalize, At, Building, TypeOK
    <3>2. [d \in Document |-> IF d \in SourceBacked \cap held THEN ident[c] ELSE points[target[c]][d]]
            \in [Document -> Identity \cup {Unknown, Absent}]
      BY <3>1, CallFacts
    <3>3. QED
      BY <1>0, <1>13, <3>2 DEF Finalize, TypeOK
  <2>2. pc' \in [Client -> Place] /\ lock = c
        /\ \A x \in Client : x # c => pc'[x] = pc[x]
    BY <1>0, <1>13 DEF Finalize, At, Goto, TypeOK, Place, Building
  <2>3. QED
    BY <1>0, <1>13, <2>1, <2>2 DEF Finalize, TypeOK, locals, history
<1>14. ASSUME NEW c \in Client, StampReady(c) PROVE TypeOK'
  BY <1>0, <1>14 DEF StampReady, At, Goto, TypeOK, Place, locals, history
<1>15. ASSUME NEW c \in Client, Publish(c) PROVE TypeOK'
  <2>1. target[c] \in exists \cap Candidate
    BY <1>15 DEF Publish, At, IInv, CallOK
  <2>2. CASE cancelled[c]
    BY <1>0, <1>15, <2>1, <2>2, EndTypes DEF Publish, TypeOK, history
  <2>3. CASE ~cancelled[c]
    BY <1>0, <1>15, <2>1, <2>3 DEF Publish, At, Goto, TypeOK, Place, history
  <2>4. QED
    BY <2>2, <2>3
<1>16. ASSUME NEW c \in Client, PublishFails(c) PROVE TypeOK'
  <2>1. target[c] \in exists \cap Candidate
    BY <1>16 DEF PublishFails, At, IInv, CallOK
  <2>2. QED
    BY <1>0, <1>16, <2>1, EndTypes DEF PublishFails, TypeOK
<1>17. ASSUME NEW c \in Client, Fail(c) PROVE TypeOK'
  <2>1. pc[c] \in Building => target[c] \in exists
    BY <1>17 DEF IInv, CallOK
  <2>2. QED
    BY <1>0, <1>17, <2>1, EndTypes DEF Fail, TypeOK, server
<1>18. ASSUME NEW c \in Client, Cancel(c) PROVE TypeOK'
  <2>1. CASE At(c, "publish")
    BY <1>0, <1>18, <2>1 DEF Cancel, TypeOK, server, history
  <2>2. CASE ~At(c, "publish")
    BY <1>0, <1>18, <2>2, EndTypes DEF Cancel, TypeOK, server, history
  <2>3. QED
    BY <2>1, <2>2
<1>19. ASSUME NEW c \in Client, Restart(c) PROVE TypeOK'
  <2>1. At(c, "publish") => target[c] \in exists \cap Candidate
    BY <1>19 DEF At, IInv, CallOK
  <2>2. late' \subseteq exists \cap Candidate
    BY <1>0, <1>19, <2>1 DEF Restart, TypeOK
  <2>3. ident' \in [Client -> Identity] /\ bound' \in [Client -> Candidate \cup {NoCollection}]
    BY <1>0, <1>19 DEF Restart, TypeOK
  <2>4. QED
    BY <1>0, <1>19, <2>1, <2>2, <2>3, EndTypes DEF Restart, TypeOK
<1>20. ASSUME NEW c \in Client, Search(c) PROVE TypeOK'
  BY <1>0, <1>20, EndTypes DEF Search, TypeOK, server, history
<1>21. ASSUME NEW c \in Client, Release(c) PROVE TypeOK'
  BY <1>0, <1>21 DEF Release, At, TypeOK, server, locals, history
<1>22. ASSUME NEW g \in Candidate, ExecuteLate(g) PROVE TypeOK'
  BY <1>0, <1>22 DEF ExecuteLate, TypeOK, locals
<1>23. CASE UNCHANGED vars
  BY <1>0, <1>23 DEF TypeOK, vars, server, locals, history
<1>24. QED
  BY <1>1, <1>2, <1>3, <1>4, <1>5, <1>6, <1>7, <1>8, <1>9, <1>10, <1>11, <1>12, <1>13, <1>14,
     <1>15, <1>16, <1>17, <1>18, <1>19, <1>20, <1>21, <1>22, <1>23 DEF Next

LEMMA InitIInv == Init => IInv
<1> SUFFICES ASSUME Init PROVE IInv
  OBVIOUS
<1> USE CollectionFacts, MigrationAssumption
<1>1. TypeOK
  BY InitTypeOK
<1>2. exists \cap Candidate = {}
  BY DEF Init
<1>3. CollectionInv
  <2>1. Cardinality(exists \cap Candidate) = 0
    BY <1>2, FS_EmptySet
  <2>2. \A g \in Candidate : g \notin exists /\ points[g] = Empty /\ manifest[g] = "none"
    BY <1>2 DEF Init, Empty
  <2>3. manifest[Legacy] = "none"
    BY DEF Init
  <2>4. 1 .. 0 = {}
    OBVIOUS
  <2>5. QED
    BY <1>2, <2>1, <2>2, <2>3, <2>4 DEF CollectionInv, Empty
<1>4. \A c \in Client : CallOK(c)
  BY DEF Init, CallOK, Building
<1>5. LateInv
  BY DEF Init, LateInv
<1>6. WholeInv
  <2>1. exists = {} => Active = NoCollection /\ held = {}
    BY DEF Init, Active
  <2>2. exists = {Legacy} => Active = Legacy /\ held = Document
    BY DEF Init, Active
  <2>3. exists = {Legacy} => Stored(Legacy) = Document
    BY DEF Init, Stored
  <2>4. \A c \in Client : BuildOK(c)
    BY DEF Init, BuildOK, Building
  <2>5. QED
    BY <2>1, <2>2, <2>3, <2>4 DEF Init, WholeInv
<1>7. WritesGoToTheActive
  BY DEF Init, WritesGoToTheActive
<1>8. QED
  BY <1>1, <1>3, <1>4, <1>5, <1>6, <1>7 DEF IInv

-----------------------------------------------------------------------------
(* One client moves, and the others stand by.                              *)
Same(x) ==
  /\ pc'[x] = pc[x] /\ kind'[x] = kind[x] /\ source'[x] = source[x] /\ target'[x] = target[x]
  /\ todo'[x] = todo[x] /\ copied'[x] = copied[x] /\ view'[x] = view[x]
  /\ ident'[x] = ident[x] /\ bound'[x] = bound[x]

Writing(x) == pc[x] = "use" /\ kind[x] = "write"

LEMMA EndFacts ==
  ASSUME TypeOK, NEW c \in Client, End(c)
  PROVE  /\ pc'[c] = "idle" /\ copied'[c] = 0
         /\ \A x \in Client \ {c} :
              /\ pc'[x] = pc[x] /\ kind'[x] = kind[x] /\ source'[x] = source[x]
              /\ target'[x] = target[x] /\ todo'[x] = todo[x] /\ copied'[x] = copied[x]
              /\ view'[x] = view[x]
         /\ lock' = IF lock = c THEN Nobody ELSE lock
BY DEF TypeOK, End, Goto

LEMMA IdleIsOK ==
  ASSUME NEW c \in Client, pc'[c] = "idle", copied'[c] = 0
  PROVE  CallOK(c)' /\ BuildOK(c)' /\ ~Writing(c)'
BY DEF CallOK, BuildOK, Writing, Building

\* While the lock is not theirs, the others only use what they have bound.
LEMMA Bystanders ==
  ASSUME IInv, NEW c \in Client, lock \notin Client \ {c}, \A x \in Client \ {c} : Same(x),
         exists \subseteq exists', \A g \in exists \cap Candidate : space'[g] = space[g]
  PROVE  \A x \in Client \ {c} : CallOK(x)' /\ BuildOK(x)' /\ ~Writing(x)'
<1> SUFFICES ASSUME NEW x \in Client \ {c} PROVE CallOK(x)' /\ BuildOK(x)' /\ ~Writing(x)'
  OBVIOUS
<1>1. Same(x) /\ x # lock
  OBVIOUS
<1>2. pc[x] \in {"idle", "check", "confirm", "lock", "use"}
  BY <1>1 DEF IInv, TypeOK
<1>3. CallOK(x)
  BY DEF IInv
<1>4. QED
  BY <1>1, <1>2, <1>3 DEF Same, CallOK, BuildOK, Writing, Building

\* All that is to be shown of a step of a client.
LEMMA StepOf ==
  ASSUME TypeOK', CollectionInv', LateInv', NEW c \in Client,
         \A x \in Client \ {c} : CallOK(x)' /\ (~overtaken' => BuildOK(x)'),
         \A x \in Client \ {c} : Writing(x)' /\ ~overtaken' => view'[x] = Active',
         CallOK(c)', ~overtaken' => BuildOK(c)',
         Writing(c)' /\ ~overtaken' => view'[c] = Active',
         ~overtaken' => IF Active' = NoCollection THEN held' = {} ELSE Stored(Active)' = held'
  PROVE  IInv'
<1>1. \A x \in Client : CallOK(x)'
  OBVIOUS
<1>2. ~overtaken' => \A x \in Client : BuildOK(x)'
  OBVIOUS
<1>3. WritesGoToTheActive'
  BY DEF WritesGoToTheActive, Writing
<1>4. QED
  BY <1>1, <1>2, <1>3 DEF IInv, WholeInv

\* A step that leaves the server alone.
LEMMA Quiet ==
  ASSUME IInv, TypeOK', NEW c \in Client, \A x \in Client \ {c} : Same(x),
         UNCHANGED <<server, held, excused, passed, overtaken>>,
         lock' = lock \/ (lock = c /\ lock' = Nobody),
         CallOK(c)', ~overtaken' => BuildOK(c)',
         Writing(c)' /\ ~overtaken' => view'[c] = Active
  PROVE  IInv'
<1>1. Active' = Active
  BY DEF Active, server
<1>2. CollectionInv'
  BY DEF IInv, CollectionInv, server
<1>3. LateInv'
  BY DEF IInv, LateInv, Stored, server
<1>4. \A x \in Client \ {c} : CallOK(x)' /\ (~overtaken' => BuildOK(x)')
  <2> SUFFICES ASSUME NEW x \in Client \ {c}
               PROVE  CallOK(x)' /\ (~overtaken' => BuildOK(x)')
    OBVIOUS
  <2>1. CallOK(x) /\ (~overtaken => BuildOK(x)) /\ Same(x)
    BY DEF IInv, WholeInv
  <2>2. lock = x => lock' = x
    OBVIOUS
  <2>3. QED
    BY <1>1, <2>1, <2>2 DEF CallOK, BuildOK, Same, Stored, server
<1>5. \A x \in Client \ {c} : Writing(x)' /\ ~overtaken' => view'[x] = Active'
  BY <1>1 DEF IInv, WritesGoToTheActive, Writing, Same
<1>6. ~overtaken' => IF Active' = NoCollection THEN held' = {} ELSE Stored(Active)' = held'
  BY <1>1 DEF IInv, WholeInv, Stored, server
<1>7. QED
  BY <1>1, <1>2, <1>3, <1>4, <1>5, <1>6, StepOf

\* A call that ends without having changed the server.
LEMMA QuietEnd ==
  ASSUME IInv, TypeOK', NEW c \in Client, End(c),
         \A x \in Client \ {c} : ident'[x] = ident[x] /\ bound'[x] = bound[x],
         UNCHANGED <<server, held, excused, passed, overtaken>>
  PROVE  IInv'
<1>1. TypeOK
  BY DEF IInv
<1>2. \A x \in Client \ {c} : Same(x)
  BY <1>1, EndFacts DEF Same
<1>3. lock' = lock \/ (lock = c /\ lock' = Nobody)
  BY <1>1, EndFacts
<1>4. CallOK(c)' /\ BuildOK(c)' /\ ~Writing(c)'
  BY <1>1, EndFacts, IdleIsOK
<1>5. QED
  BY <1>2, <1>3, <1>4, Quiet

-----------------------------------------------------------------------------
(* The actions that leave the server alone.                                *)
LEMMA StepStart ==
  ASSUME IInv, TypeOK', NEW c \in Client, Start(c) PROVE IInv'
<1>1. TypeOK /\ CallOK(c)
  BY DEF IInv
<1>2. \A x \in Client \ {c} : Same(x)
  BY <1>1 DEF Start, Goto, TypeOK, Same, locals
<1>3. pc'[c] = "lock" \/ (pc'[c] = "check" /\ kind'[c] = "read" /\ bound[c] # NoCollection)
  BY <1>1 DEF Start, Goto, TypeOK
<1>4. CallOK(c)' /\ BuildOK(c)' /\ ~Writing(c)'
  BY <1>1, <1>3 DEF Start, At, CallOK, BuildOK, Writing, Building, locals
<1>5. QED
  BY <1>2, <1>4, Quiet DEF Start, history

LEMMA StepCheckAlias ==
  ASSUME IInv, TypeOK', NEW c \in Client, CheckAlias(c) PROVE IInv'
<1>1. TypeOK /\ CallOK(c)
  BY DEF IInv
<1>2. \A x \in Client \ {c} : Same(x)
  BY <1>1 DEF CheckAlias, Goto, TypeOK, Same, locals
<1>3. pc'[c] \in {"confirm", "lock"}
  BY <1>1 DEF CheckAlias, Goto, TypeOK
<1>4. CallOK(c)' /\ BuildOK(c)' /\ ~Writing(c)'
  BY <1>1, <1>3 DEF CheckAlias, At, CallOK, BuildOK, Writing, Building, locals
<1>5. QED
  BY <1>2, <1>4, Quiet DEF CheckAlias, history

\* A ready collection is on the server, and has vectors of its space only.
LEMMA CompatibleFacts ==
  ASSUME IInv, NEW c \in Client, NEW g, Compatible(c, g)
  PROVE  g \in exists \cap Candidate /\ space[g] = ident[c]
BY DEF IInv, CollectionInv, Compatible, Collection

LEMMA StepConfirm ==
  ASSUME IInv, TypeOK', NEW c \in Client, Confirm(c) PROVE IInv'
<1>1. TypeOK /\ CallOK(c)
  BY DEF IInv
<1>2. \A x \in Client \ {c} : Same(x)
  BY <1>1 DEF Confirm, Goto, TypeOK, Same
<1>3. kind[c] = "read" /\ copied[c] = 0
  BY <1>1 DEF Confirm, At, CallOK
<1>4. CASE Compatible(c, bound[c])
  <2>1. pc'[c] = "use" /\ view'[c] = bound[c]
    BY <1>1, <1>4 DEF Confirm, Goto, TypeOK
  <2>2. bound[c] \in exists \cap Candidate /\ space[bound[c]] = ident[c]
    BY <1>4, CompatibleFacts
  <2>3. CallOK(c)' /\ BuildOK(c)' /\ ~Writing(c)'
    BY <1>3, <2>1, <2>2 DEF Confirm, CallOK, BuildOK, Writing, Building, server
  <2>4. QED
    BY <1>2, <2>3, Quiet DEF Confirm, history
<1>5. CASE ~Compatible(c, bound[c])
  <2>1. pc'[c] = "lock"
    BY <1>1, <1>5 DEF Confirm, Goto, TypeOK
  <2>2. CallOK(c)' /\ BuildOK(c)' /\ ~Writing(c)'
    BY <1>3, <2>1 DEF Confirm, CallOK, BuildOK, Writing, Building
  <2>3. QED
    BY <1>2, <2>2, Quiet DEF Confirm, history
<1>6. QED
  BY <1>4, <1>5

LEMMA StepReadSource ==
  ASSUME IInv, TypeOK', NEW c \in Client, ReadSource(c) PROVE IInv'
<1>1. TypeOK /\ CallOK(c)
  BY DEF IInv
<1>2. \A x \in Client \ {c} : Same(x)
  BY <1>1 DEF ReadSource, Goto, TypeOK, Same
<1>3. pc'[c] = "decide" /\ source'[c] = Active /\ Active' = Active
  BY <1>1 DEF ReadSource, Goto, TypeOK, Active, server
<1>4. CallOK(c)' /\ BuildOK(c)' /\ ~Writing(c)'
  BY <1>1, <1>3 DEF ReadSource, At, CallOK, BuildOK, Writing, Building
<1>5. QED
  BY <1>2, <1>4, Quiet DEF ReadSource, history

LEMMA StepBind ==
  ASSUME IInv, TypeOK', NEW c \in Client, Bind(c) PROVE IInv'
<1>1. TypeOK /\ CallOK(c)
  BY DEF IInv
<1>2. \A x \in Client \ {c} : Same(x)
  BY <1>1 DEF Bind, Goto, TypeOK, Same
<1>3. pc'[c] = "use" /\ view'[c] = source[c] /\ lock = c
  BY <1>1 DEF Bind, At, Goto, TypeOK
<1>4. source[c] \in exists \cap Candidate /\ space[source[c]] = ident[c]
  BY CompatibleFacts DEF Bind
<1>5. CallOK(c)' /\ BuildOK(c)'
  BY <1>3, <1>4 DEF Bind, CallOK, BuildOK, Building, server
<1>6. ~overtaken => source[c] = Active
  BY DEF Bind, At, IInv, WholeInv, BuildOK
<1>7. QED
  BY <1>2, <1>3, <1>5, <1>6, Quiet DEF Bind, history

LEMMA StepCountPoints ==
  ASSUME IInv, TypeOK', NEW c \in Client, CountPoints(c) PROVE IInv'
<1>1. TypeOK /\ CallOK(c) /\ (~overtaken => BuildOK(c))
  BY DEF IInv, WholeInv
<1>2. \A x \in Client \ {c} : Same(x)
  BY <1>1 DEF CountPoints, Goto, TypeOK, Same, locals
<1>3. pc'[c] = "finalize" /\ pc[c] = "copy"
  BY <1>1 DEF CountPoints, At, Goto, TypeOK
<1>4. CallOK(c)' /\ ~Writing(c)'
  BY <1>1, <1>3 DEF CountPoints, CallOK, Writing, Building, server, locals
<1>5. ~overtaken => Stored(target[c]) = held \ SourceBacked
  <2> SUFFICES ASSUME ~overtaken PROVE Stored(target[c]) = held \ SourceBacked
    OBVIOUS
  <2> DEFINE S == held \ SourceBacked
  <2>1. /\ Stored(target[c]) \subseteq (held \ todo[c]) \ SourceBacked
        /\ copied[c] = Cardinality((held \ todo[c]) \ SourceBacked)
    BY <1>1, <1>3 DEF BuildOK
  <2>2. (held \ todo[c]) \ SourceBacked = S
    BY DEF CountPoints
  <2>3. Stored(target[c]) \subseteq S /\ Cardinality(Stored(target[c])) = Cardinality(S)
    BY <2>1, <2>2 DEF CountPoints
  <2>4. IsFiniteSet(S)
    BY <1>1, MigrationAssumption, FS_Subset DEF TypeOK
  <2> HIDE DEF S
  <2>5. Stored(target[c]) = S
    BY <2>3, <2>4, FS_Subset
  <2>6. QED
    BY <2>5 DEF S
<1>6. ~overtaken' => BuildOK(c)'
  BY <1>1, <1>3, <1>5 DEF CountPoints, BuildOK, Stored, Active, Building, server, locals, history
<1>7. QED
  BY <1>2, <1>4, <1>6, Quiet DEF CountPoints, history

LEMMA StepSuperseded ==
  ASSUME IInv, TypeOK', NEW c \in Client, Superseded(c) PROVE IInv'
BY QuietEnd DEF Superseded, history

LEMMA StepFail ==
  ASSUME IInv, TypeOK', NEW c \in Client, Fail(c) PROVE IInv'
BY QuietEnd DEF Fail

LEMMA StepCancel ==
  ASSUME IInv, TypeOK', NEW c \in Client, Cancel(c) PROVE IInv'
<1>1. TypeOK /\ CallOK(c) /\ (~overtaken => BuildOK(c))
  BY DEF IInv, WholeInv
<1>2. CASE At(c, "publish")
  <2>1. \A x \in Client : Same(x)
    BY <1>2 DEF Cancel, Same
  <2>2. CallOK(c)' /\ ~Writing(c)'
    BY <1>1, <1>2 DEF Cancel, At, CallOK, Writing, server
  <2>3. ~overtaken' => BuildOK(c)'
    BY <1>1, <1>2 DEF Cancel, At, BuildOK, Stored, Active, server, history
  <2>4. QED
    BY <1>2, <2>1, <2>2, <2>3, Quiet DEF Cancel, history
<1>3. CASE ~At(c, "publish")
  BY <1>3, QuietEnd DEF Cancel, history
<1>4. QED
  BY <1>2, <1>3

LEMMA StepSearch ==
  ASSUME IInv, TypeOK', NEW c \in Client, Search(c) PROVE IInv'
BY QuietEnd DEF Search, history

LEMMA StepRelease ==
  ASSUME IInv, TypeOK', NEW c \in Client, Release(c) PROVE IInv'
<1>1. TypeOK /\ CallOK(c)
  BY DEF IInv
<1>2. \A x \in Client : Same(x)
  BY DEF Release, Same, locals
<1>3. CallOK(c)' /\ BuildOK(c)' /\ ~Writing(c)'
  BY <1>1 DEF Release, At, CallOK, BuildOK, Writing, Building, server, locals
<1>4. QED
  BY <1>2, <1>3, Quiet DEF Release, history

-----------------------------------------------------------------------------
(* The actions that change the server, or who comes after what is late.    *)
LEMMA StepAcquire ==
  ASSUME IInv, TypeOK', NEW c \in Client, Acquire(c) PROVE IInv'
<1>1. TypeOK /\ CallOK(c)
  BY DEF IInv
<1>2. \A x \in Client \ {c} : Same(x)
  BY <1>1 DEF Acquire, Goto, TypeOK, Same, locals
<1>3. pc'[c] = "source" /\ lock = Nobody /\ Active' = Active
  BY <1>1 DEF Acquire, Goto, TypeOK, Active, server
<1>4. \A x \in Client \ {c} : CallOK(x)' /\ BuildOK(x)' /\ ~Writing(x)'
  <2>1. lock \notin Client \ {c}
    BY <1>3, MigrationAssumption
  <2>2. QED
    BY <1>2, <2>1, Bystanders DEF Acquire, server
<1>5. CallOK(c)' /\ BuildOK(c)' /\ ~Writing(c)'
  BY <1>1, <1>3 DEF Acquire, At, CallOK, BuildOK, Writing, Building, locals
<1>6. CollectionInv'
  BY DEF Acquire, IInv, CollectionInv, server
<1>7. LateInv'
  <2>1. passed' = late
    BY DEF Acquire, IInv, LateInv
  <2>2. QED
    BY <2>1 DEF Acquire, IInv, LateInv, server
<1>8. ~overtaken' => IF Active' = NoCollection THEN held' = {} ELSE Stored(Active)' = held'
  BY <1>3 DEF Acquire, IInv, WholeInv, Stored, server
<1>9. QED
  BY <1>4, <1>5, <1>6, <1>7, <1>8, StepOf

\* What is late has been come after, for whoever has the lock.
LEMMA LateForTheHolder ==
  ASSUME IInv, NEW c \in Client, lock = c, overtaken' = overtaken,
         UNCHANGED <<late, excused, passed>>
  PROVE  LateInv'
<1>1. lock # Nobody
  BY MigrationAssumption
<1>2. late \ passed = {}
  BY <1>1 DEF IInv, LateInv
<1>3. QED
  BY <1>2 DEF IInv, LateInv

LEMMA StepCreate ==
  ASSUME IInv, TypeOK', NEW c \in Client, Create(c) PROVE IInv'
<1>1. TypeOK /\ CallOK(c) /\ CollectionInv /\ (~overtaken => BuildOK(c))
  BY DEF IInv, WholeInv
<1>2. PICK g \in Candidate : /\ g = Cardinality(exists \cap Candidate) + 1
                             /\ exists' = exists \cup {g}
                             /\ space' = [space EXCEPT ![g] = ident[c]]
                             /\ target' = [target EXCEPT ![c] = g]
  BY DEF Create
<1>3. g \notin exists /\ exists' \cap Candidate = 1 .. Cardinality(exists' \cap Candidate)
  BY <1>1, <1>2, FreshCandidate
<1>4. /\ pc'[c] = "stamp" /\ pc[c] = "decide" /\ lock = c /\ target'[c] = g
      /\ space'[g] = ident[c] /\ \A h \in Collection \ {g} : space'[h] = space[h]
  BY <1>1, <1>2, CollectionFacts DEF Create, At, Goto, TypeOK
<1>5. \A x \in Client \ {c} : Same(x)
  BY <1>1, <1>2 DEF Create, Goto, TypeOK, Same
<1>6. \A x \in Client \ {c} : CallOK(x)' /\ BuildOK(x)' /\ ~Writing(x)'
  <2>1. \A h \in exists \cap Candidate : space'[h] = space[h]
    BY <1>3, <1>4, CollectionFacts
  <2>2. QED
    BY <1>2, <1>4, <1>5, <2>1, Bystanders
<1>7. Active' = Active
  BY <1>2, CollectionFacts DEF Create, Active
<1>8. points[g] = Empty /\ manifest[g] = "none"
  BY <1>1, <1>3 DEF CollectionInv
<1>9. CollectionInv'
  <2>1. \A h \in Candidate :
          /\ h \notin exists' => points[h] = Empty /\ manifest[h] = "none"
          /\ \A d \in Document : points[h][d] \in {space'[h], Absent}
    <3> SUFFICES ASSUME NEW h \in Candidate
                 PROVE  /\ h \notin exists' => points[h] = Empty /\ manifest[h] = "none"
                        /\ \A d \in Document : points[h][d] \in {space'[h], Absent}
      OBVIOUS
    <3>1. h \notin exists' => points[h] = Empty /\ manifest[h] = "none"
      BY <1>1, <1>2 DEF CollectionInv
    <3>2. h = g => \A d \in Document : points[h][d] = Absent
      BY <1>8 DEF Empty
    <3>3. h # g => space'[h] = space[h]
      BY <1>4, CollectionFacts
    <3>4. QED
      BY <1>1, <3>1, <3>2, <3>3 DEF CollectionInv
  <2>2. QED
    BY <1>1, <1>3, <2>1 DEF Create, CollectionInv, Empty
<1>10. CallOK(c)'
  <2>1. g \in exists' \cap Candidate /\ g # alias /\ g \notin late
    BY <1>1, <1>2, <1>3, CollectionFacts DEF TypeOK
  <2>2. copied[c] = 0
    BY <1>1, <1>4 DEF CallOK
  <2>3. QED
    BY <1>4, <1>8, <2>1, <2>2 DEF Create, CallOK, Empty
<1>11. (~overtaken' => BuildOK(c)') /\ ~Writing(c)'
  BY <1>1, <1>4, <1>7 DEF Create, BuildOK, Writing, Building, history
<1>12. LateInv'
  BY <1>4, LateForTheHolder DEF Create, history
<1>13. ~overtaken' => IF Active' = NoCollection THEN held' = {} ELSE Stored(Active)' = held'
  BY <1>7 DEF Create, IInv, WholeInv, Stored, history
<1>14. QED
  BY <1>6, <1>9, <1>10, <1>11, <1>12, <1>13, StepOf

LEMMA StepStampBuilding ==
  ASSUME IInv, TypeOK', NEW c \in Client, StampBuilding(c) PROVE IInv'
<1>1. TypeOK /\ CallOK(c) /\ CollectionInv /\ (~overtaken => BuildOK(c))
  BY DEF IInv, WholeInv
<1>2. /\ pc'[c] = "copy" /\ pc[c] = "stamp" /\ lock = c
      /\ target[c] \in exists \cap Candidate /\ points[target[c]] = Empty /\ copied[c] = 0
  BY <1>1 DEF StampBuilding, At, Goto, TypeOK, CallOK, Building
<1>3. \A x \in Client \ {c} : Same(x)
  BY <1>1 DEF StampBuilding, Goto, TypeOK, Same
<1>4. \A x \in Client \ {c} : CallOK(x)' /\ BuildOK(x)' /\ ~Writing(x)'
  BY <1>2, <1>3, Bystanders DEF StampBuilding
<1>5. Active' = Active
  BY DEF StampBuilding, Active
<1>6. CollectionInv'
  <2>1. \A h \in Collection \ {target[c]} : manifest'[h] = manifest[h]
    BY <1>1 DEF StampBuilding, TypeOK
  <2>2. QED
    BY <1>1, <1>2, <2>1, CollectionFacts DEF StampBuilding, CollectionInv, Empty
<1>7. CallOK(c)' /\ ~Writing(c)'
  BY <1>1, <1>2 DEF StampBuilding, CallOK, Writing, Building
<1>8. ~overtaken' => BuildOK(c)'
  <2> SUFFICES ASSUME ~overtaken PROVE BuildOK(c)'
    BY DEF StampBuilding, history
  <2>1. source[c] = Active
    BY <1>1, <1>2 DEF BuildOK, Building
  <2>2. todo'[c] = IF source[c] = NoCollection THEN {} ELSE Stored(source[c])
    BY <1>1 DEF StampBuilding, TypeOK
  <2>3. todo'[c] = held
    BY <2>1, <2>2 DEF IInv, WholeInv
  <2>4. Stored(target[c])' = {}
    BY <1>2, MigrationAssumption DEF StampBuilding, Stored, Empty
  <2>5. (held \ held) \ SourceBacked = {} /\ Cardinality({}) = 0
    BY FS_EmptySet
  <2>6. copied'[c] = 0 /\ held' = held /\ source'[c] = Active'
    BY <1>2, <1>5, <2>1 DEF StampBuilding, history
  <2>7. copied'[c] = Cardinality((held' \ todo'[c]) \ SourceBacked)
    BY <2>3, <2>5, <2>6
  <2>8. QED
    BY <1>2, <2>3, <2>4, <2>6, <2>7 DEF BuildOK
<1>9. LateInv'
  BY <1>2, LateForTheHolder DEF StampBuilding, history
<1>10. ~overtaken' => IF Active' = NoCollection THEN held' = {} ELSE Stored(Active)' = held'
  BY <1>5 DEF StampBuilding, IInv, WholeInv, Stored, history
<1>11. QED
  BY <1>4, <1>6, <1>7, <1>8, <1>9, <1>10, StepOf

\* The facts of a client that works on its candidate, which is not the active collection.
LEMMA BuilderFacts ==
  ASSUME IInv, NEW c \in Client, pc[c] \in Building \cup {"publish"}
  PROVE  /\ TypeOK /\ CollectionInv /\ lock = c /\ CallOK(c) /\ (~overtaken => BuildOK(c))
         /\ target[c] \in exists \cap Candidate /\ target[c] \in Collection
         /\ space[target[c]] = ident[c]
         /\ Active # target[c] /\ target[c] # alias /\ target[c] \notin late
         /\ ident[c] \in Identity
BY CollectionFacts DEF IInv, WholeInv, CallOK, TypeOK, Building, Active

LEMMA StepCopy ==
  ASSUME IInv, TypeOK', NEW c \in Client, NEW d \in Document, Copy(c, d) PROVE IInv'
<1> DEFINE g == target[c]
<1>1. pc[c] = "copy" /\ pc[c] \in Building
  BY DEF Copy, At, Building
<1>2. /\ TypeOK /\ CollectionInv /\ lock = c /\ CallOK(c) /\ (~overtaken => BuildOK(c))
      /\ g \in exists \cap Candidate /\ g \in Collection
      /\ space[g] = ident[c] /\ Active # g /\ g # alias /\ g \notin late /\ ident[c] \in Identity
  BY <1>1, BuilderFacts
<1>3. \A x \in Client \ {c} : Same(x)
  BY <1>2 DEF Copy, TypeOK, Same
<1>4. \A x \in Client \ {c} : CallOK(x)' /\ BuildOK(x)' /\ ~Writing(x)'
  BY <1>2, <1>3, Bystanders DEF Copy
<1>5. Active' = Active
  BY DEF Copy, Active
<1>6. /\ \A h \in Collection, e \in Document : h # g \/ e # d => points'[h][e] = points[h][e]
      /\ points'[g][d] \in {points[g][d], ident[c]}
      /\ \A h \in Collection \ {g} : points'[h] = points[h]
      /\ d \in SourceBacked => points' = points
  <2>1. points' = points \/ (d \notin SourceBacked /\ points' = [points EXCEPT ![g][d] = ident[c]])
    BY DEF Copy
  <2>2. CASE points' = points
    BY <2>2
  <2>3. CASE d \notin SourceBacked /\ points' = [points EXCEPT ![g][d] = ident[c]]
    <3>1. \A h \in Collection \ {g} : points'[h] = points[h]
      BY <1>2, <2>3 DEF TypeOK
    <3>2. \A h \in Collection, e \in Document :
            points'[h][e] = IF h = g /\ e = d THEN ident[c] ELSE points[h][e]
      BY <1>2, <2>3, PointsType
    <3>3. QED
      BY <1>2, <2>3, <3>1, <3>2
  <2>4. QED
    BY <2>1, <2>2, <2>3
<1>7. CollectionInv'
  <2>1. \A h \in Candidate : \A e \in Document : points'[h][e] \in {space[h], Absent}
    BY <1>2, <1>6, CollectionFacts DEF CollectionInv
  <2>2. \A h \in Candidate : h \notin exists => points'[h] = Empty /\ manifest[h] = "none"
    BY <1>2, <1>6, CollectionFacts DEF CollectionInv
  <2>3. QED
    BY <1>2, <2>1, <2>2 DEF Copy, CollectionInv, Empty
<1>8. CallOK(c)' /\ ~Writing(c)'
  BY <1>1, <1>2 DEF Copy, CallOK, Writing, Building
<1>9. ~overtaken' => BuildOK(c)'
  <2> SUFFICES ASSUME ~overtaken PROVE BuildOK(c)'
    BY DEF Copy, history
  <2> DEFINE Before == (held \ todo[c]) \ SourceBacked
             After  == (held \ todo'[c]) \ SourceBacked
  <2>1. /\ source[c] = Active /\ todo[c] \subseteq held /\ Stored(g) \subseteq Before
        /\ copied[c] = Cardinality(Before)
    BY <1>1, <1>2 DEF BuildOK
  <2>2. todo'[c] = todo[c] \ {d} /\ d \in todo[c]
    BY <1>2 DEF Copy, TypeOK
  <2>3. After = IF d \in SourceBacked THEN Before ELSE Before \cup {d}
    BY <2>1, <2>2
  <2>4. copied'[c] = IF d \in SourceBacked THEN copied[c] ELSE copied[c] + 1
    BY <1>2 DEF Copy, TypeOK
  <2>5. copied'[c] = Cardinality(After)
    <3>1. IsFiniteSet(Before)
      BY <1>2, MigrationAssumption, FS_Subset DEF TypeOK
    <3>2. d \notin Before
      BY <2>2
    <3>3. Cardinality(Before \cup {d}) = Cardinality(Before) + 1
      BY <3>1, <3>2, FS_AddElement
    <3>4. QED
      BY <2>1, <2>3, <2>4, <3>3
  <2>6. Stored(g)' \subseteq After
    <3>1. \A e \in Document : points'[g][e] # Absent =>
            points[g][e] # Absent \/ (e = d /\ d \notin SourceBacked)
      BY <1>2, <1>6
    <3>2. g' = g
      BY DEF Copy
    <3>3. Stored(g)' \subseteq Stored(g) \cup (IF d \in SourceBacked THEN {} ELSE {d})
      BY <3>1, <3>2 DEF Stored
    <3>4. QED
      BY <2>1, <2>3, <3>3
  <2>7. pc'[c] = "copy" /\ source'[c] = Active' /\ held' = held
    BY <1>1, <1>5, <2>1 DEF Copy, history
  <2>8. todo'[c] \subseteq held'
    BY <2>1, <2>2, <2>7
  <2>9. QED
    BY <2>5, <2>6, <2>7, <2>8 DEF BuildOK
<1>10. LateInv'
  BY <1>2, LateForTheHolder DEF Copy, history
<1>11. ~overtaken' => IF Active' = NoCollection THEN held' = {} ELSE Stored(Active)' = held'
  <2>1. Active # NoCollection => Stored(Active)' = Stored(Active)
    BY <1>2, <1>5, <1>6, ActiveFacts DEF Stored
  <2>2. QED
    BY <1>5, <2>1 DEF Copy, IInv, WholeInv, history
<1>12. QED
  BY <1>4, <1>7, <1>8, <1>9, <1>10, <1>11, StepOf

LEMMA StepFinalize ==
  ASSUME IInv, TypeOK', NEW c \in Client, Finalize(c) PROVE IInv'
<1> DEFINE g == target[c]
<1>1. pc[c] = "finalize" /\ pc[c] \in Building
  BY DEF Finalize, At, Building
<1>2. /\ TypeOK /\ CollectionInv /\ lock = c /\ CallOK(c) /\ (~overtaken => BuildOK(c))
      /\ g \in exists \cap Candidate /\ g \in Collection
      /\ space[g] = ident[c] /\ Active # g /\ g # alias /\ g \notin late /\ ident[c] \in Identity
  BY <1>1, BuilderFacts
<1>3. \A x \in Client \ {c} : Same(x)
  BY <1>2 DEF Finalize, Goto, TypeOK, Same, locals
<1>4. \A x \in Client \ {c} : CallOK(x)' /\ BuildOK(x)' /\ ~Writing(x)'
  BY <1>2, <1>3, Bystanders DEF Finalize
<1>5. Active' = Active
  BY DEF Finalize, Active
<1>6. /\ \A h \in Collection \ {g} : points'[h] = points[h]
      /\ points'[g] = [e \in Document |->
                         IF e \in SourceBacked \cap held THEN ident[c] ELSE points[g][e]]
  BY <1>2 DEF Finalize, TypeOK
<1>7. CollectionInv'
  <2>1. \A h \in Candidate : \A e \in Document : points'[h][e] \in {space[h], Absent}
    <3>1. \A h \in Candidate : \A e \in Document : points[h][e] \in {space[h], Absent}
      BY <1>2 DEF CollectionInv
    <3>2. \A e \in Document : points'[g][e] \in {ident[c], points[g][e]}
      BY <1>6
    <3>3. \A h \in Candidate : h # g => points'[h] = points[h]
      BY <1>6, CollectionFacts
    <3>4. QED
      BY <1>2, <3>1, <3>2, <3>3
  <2>2. \A h \in Candidate : h \notin exists => points'[h] = Empty /\ manifest[h] = "none"
    BY <1>2, <1>6, CollectionFacts DEF CollectionInv
  <2>3. QED
    BY <1>2, <2>1, <2>2 DEF Finalize, CollectionInv, Empty
<1>8. pc'[c] = "ready"
  BY <1>2 DEF Finalize, Goto, TypeOK
<1>9. CallOK(c)' /\ ~Writing(c)'
  BY <1>1, <1>2, <1>8 DEF Finalize, CallOK, Writing, Building, locals
<1>10. ~overtaken' => BuildOK(c)'
  <2> SUFFICES ASSUME ~overtaken PROVE BuildOK(c)'
    BY DEF Finalize, history
  <2>1. source[c] = Active /\ Stored(g) = held \ SourceBacked
    BY <1>1, <1>2 DEF BuildOK
  <2>2. \A e \in Document : points'[g][e] # Absent <=> e \in held
    <3>1. \A e \in Document : points[g][e] # Absent <=> e \in held \ SourceBacked
      BY <2>1 DEF Stored
    <3>2. ident[c] # Absent
      BY <1>2, MigrationAssumption
    <3>3. QED
      BY <1>6, <3>1, <3>2
  <2>3. g' = g /\ held' = held /\ source'[c] = source[c] /\ held \subseteq Document
    BY <1>2 DEF Finalize, TypeOK, locals, history
  <2>4. Stored(g)' = held'
    BY <2>2, <2>3 DEF Stored
  <2>5. QED
    BY <1>5, <1>8, <2>1, <2>3, <2>4 DEF BuildOK
<1>11. LateInv'
  BY <1>2, LateForTheHolder DEF Finalize, history
<1>12. ~overtaken' => IF Active' = NoCollection THEN held' = {} ELSE Stored(Active)' = held'
  <2>1. Active # NoCollection => Stored(Active)' = Stored(Active)
    BY <1>2, <1>5, <1>6, ActiveFacts DEF Stored
  <2>2. QED
    BY <1>5, <2>1 DEF Finalize, IInv, WholeInv, history
<1>13. QED
  BY <1>4, <1>7, <1>9, <1>10, <1>11, <1>12, StepOf

LEMMA StepStampReady ==
  ASSUME IInv, TypeOK', NEW c \in Client, StampReady(c) PROVE IInv'
<1>1. pc[c] = "ready" /\ pc[c] \in Building
  BY DEF StampReady, At, Building
<1>2. /\ TypeOK /\ CollectionInv /\ lock = c /\ CallOK(c) /\ (~overtaken => BuildOK(c))
      /\ target[c] \in exists \cap Candidate
  BY <1>1, BuilderFacts
<1>3. \A x \in Client \ {c} : Same(x)
  BY <1>2 DEF StampReady, Goto, TypeOK, Same, locals
<1>4. \A x \in Client \ {c} : CallOK(x)' /\ BuildOK(x)' /\ ~Writing(x)'
  BY <1>2, <1>3, Bystanders DEF StampReady
<1>5. Active' = Active /\ pc'[c] = "publish"
  BY <1>2 DEF StampReady, Goto, TypeOK, Active
<1>6. CollectionInv'
  <2>1. \A h \in Collection \ {target[c]} : manifest'[h] = manifest[h]
    BY <1>2 DEF StampReady, TypeOK
  <2>2. QED
    BY <1>2, <2>1, CollectionFacts DEF StampReady, CollectionInv, Empty
<1>7. CallOK(c)' /\ ~Writing(c)'
  BY <1>1, <1>2, <1>5 DEF StampReady, CallOK, Writing, Building, locals
<1>8. ~overtaken' => BuildOK(c)'
  BY <1>1, <1>2, <1>5 DEF StampReady, BuildOK, Stored, Building, locals, history
<1>9. LateInv'
  BY <1>2, LateForTheHolder DEF StampReady, history
<1>10. ~overtaken' => IF Active' = NoCollection THEN held' = {} ELSE Stored(Active)' = held'
  BY <1>5 DEF StampReady, IInv, WholeInv, Stored, history
<1>11. QED
  BY <1>4, <1>6, <1>7, <1>8, <1>9, <1>10, StepOf

\* Whoever is active: what a publication names becomes it.
LEMMA PublishedIsActive ==
  ASSUME NEW g \in Candidate, alias' = g
  PROVE  Active' = g
BY CollectionFacts DEF Active, Collection

LEMMA StepPublish ==
  ASSUME IInv, TypeOK', NEW c \in Client, Publish(c) PROVE IInv'
<1> DEFINE g == target[c]
<1>1. pc[c] = "publish"
  BY DEF Publish, At
<1>2. /\ TypeOK /\ CollectionInv /\ lock = c /\ (~overtaken => BuildOK(c))
      /\ g \in exists \cap Candidate /\ space[g] = ident[c] /\ g # NoCollection
  BY <1>1, BuilderFacts, CollectionFacts
<1>3. \A x \in Client \ {c} : Same(x)
  <2>1. CASE cancelled[c]
    BY <1>2, <2>1, EndFacts DEF Publish, Same
  <2>2. CASE ~cancelled[c]
    BY <1>2, <2>2 DEF Publish, Goto, TypeOK, Same
  <2>3. QED
    BY <2>1, <2>2
<1>4. \A x \in Client \ {c} : CallOK(x)' /\ BuildOK(x)' /\ ~Writing(x)'
  BY <1>2, <1>3, Bystanders DEF Publish
<1>5. Active' = g
  BY <1>2, PublishedIsActive DEF Publish
<1>6. CollectionInv'
  BY <1>2 DEF Publish, CollectionInv, Empty
<1>7. ~overtaken' => IF Active' = NoCollection THEN held' = {} ELSE Stored(Active)' = held'
  <2>1. ~overtaken => Stored(g) = held
    BY <1>1, <1>2 DEF BuildOK
  <2>2. QED
    BY <1>2, <1>5, <2>1 DEF Publish, Stored, history
<1>8. CASE cancelled[c]
  <2>1. CallOK(c)' /\ BuildOK(c)' /\ ~Writing(c)'
    BY <1>2, <1>8, EndFacts, IdleIsOK DEF Publish
  <2>2. lock' = Nobody
    BY <1>2, <1>8, EndFacts DEF Publish
  <2>3. LateInv'
    BY <1>8, <2>2 DEF Publish, IInv, LateInv, Stored, history
  <2>4. QED
    BY <1>4, <1>6, <1>7, <2>1, <2>3, StepOf
<1>9. CASE ~cancelled[c]
  <2>1. pc'[c] = "use" /\ view'[c] = g
    BY <1>2, <1>9 DEF Publish, Goto, TypeOK
  <2>2. CallOK(c)' /\ BuildOK(c)'
    BY <1>2, <1>9, <2>1 DEF Publish, CallOK, BuildOK, Building
  <2>3. LateInv'
    BY <1>2, <1>9, LateForTheHolder DEF Publish, history
  <2>4. QED
    BY <1>4, <1>5, <1>6, <1>7, <2>1, <2>2, <2>3, StepOf
<1>10. QED
  BY <1>8, <1>9

LEMMA StepPublishFails ==
  ASSUME IInv, TypeOK', NEW c \in Client, PublishFails(c) PROVE IInv'
<1> DEFINE g == target[c]
<1>1. pc[c] = "publish"
  BY DEF PublishFails, At
<1>2. /\ TypeOK /\ CollectionInv /\ lock = c /\ (~overtaken => BuildOK(c))
      /\ g \in exists \cap Candidate /\ g # NoCollection
  BY <1>1, BuilderFacts, CollectionFacts
<1>3. \A x \in Client \ {c} : Same(x)
  BY <1>2, EndFacts DEF PublishFails, Same
<1>4. \A x \in Client \ {c} : CallOK(x)' /\ BuildOK(x)' /\ ~Writing(x)'
  BY <1>2, <1>3, Bystanders DEF PublishFails
<1>5. CollectionInv'
  BY <1>2 DEF PublishFails, CollectionInv, Empty
<1>6. CallOK(c)' /\ BuildOK(c)' /\ ~Writing(c)'
  BY <1>2, EndFacts, IdleIsOK DEF PublishFails
<1>7. lock' = Nobody /\ UNCHANGED <<exists, points, held, passed, overtaken>>
  BY <1>2, EndFacts DEF PublishFails
<1>8. ~overtaken => Stored(g) = held
  BY <1>1, <1>2 DEF BuildOK
<1>9. LateInv'
  <2>1. \/ UNCHANGED <<late, excused>>
        \/ late' = late \cup {g} /\ excused' = excused \cup {g}
    BY DEF PublishFails
  <2>2. QED
    BY <1>7, <1>8, <2>1 DEF IInv, LateInv, Stored
<1>10. ~overtaken' => IF Active' = NoCollection THEN held' = {} ELSE Stored(Active)' = held'
  <2>1. alias' = alias \/ alias' = g
    BY DEF PublishFails
  <2>2. CASE alias' = alias
    BY <1>7, <2>2 DEF IInv, WholeInv, Stored, Active
  <2>3. CASE alias' = g
    <3>1. Active' = g
      BY <1>2, <2>3, PublishedIsActive
    <3>2. QED
      BY <1>2, <1>7, <1>8, <3>1 DEF Stored
  <2>4. QED
    BY <2>1, <2>2, <2>3
<1>11. QED
  BY <1>4, <1>5, <1>6, <1>9, <1>10, StepOf

LEMMA StepRestart ==
  ASSUME IInv, TypeOK', NEW c \in Client, Restart(c) PROVE IInv'
<1>1. TypeOK
  BY DEF IInv
<1>2. \A x \in Client \ {c} : ident'[x] = ident[x] /\ bound'[x] = bound[x]
  BY <1>1 DEF Restart, TypeOK
<1>3. CASE ~At(c, "publish")
  BY <1>2, <1>3, QuietEnd DEF Restart, server
<1>4. CASE At(c, "publish")
  <2> DEFINE g == target[c]
  <2>1. /\ CollectionInv /\ lock = c /\ (~overtaken => BuildOK(c))
        /\ pc[c] = "publish" /\ g # alias /\ g # NoCollection
    BY <1>4, BuilderFacts, CollectionFacts DEF At
  <2>2. \A x \in Client \ {c} : Same(x)
    BY <1>1, <1>2, EndFacts DEF Restart, Same
  <2>3. \A x \in Client \ {c} : CallOK(x)' /\ BuildOK(x)' /\ ~Writing(x)'
    BY <2>1, <2>2, Bystanders DEF Restart
  <2>4. CollectionInv'
    BY <2>1 DEF Restart, CollectionInv, Empty
  <2>5. CallOK(c)' /\ BuildOK(c)' /\ ~Writing(c)'
    BY <1>1, EndFacts, IdleIsOK DEF Restart
  <2>6. lock' = Nobody /\ UNCHANGED <<exists, points, held, passed, overtaken, alias>>
    BY <1>1, <2>1, EndFacts DEF Restart
  <2>7. LateInv'
    <3>1. late' = late \cup {g} /\ excused' = excused \cup {g}
      BY <1>4 DEF Restart
    <3>2. ~overtaken => Stored(g) = held
      BY <2>1 DEF BuildOK
    <3>3. QED
      BY <2>6, <3>1, <3>2 DEF IInv, LateInv, Stored
  <2>8. ~overtaken' => IF Active' = NoCollection THEN held' = {} ELSE Stored(Active)' = held'
    BY <2>6 DEF IInv, WholeInv, Stored, Active
  <2>9. QED
    BY <2>3, <2>4, <2>5, <2>7, <2>8, StepOf
<1>5. QED
  BY <1>3, <1>4

LEMMA StepWrite ==
  ASSUME IInv, TypeOK', NEW c \in Client, NEW d \in Document, Write(c, d) PROVE IInv'
<1> DEFINE g == view[c]
<1>1. /\ pc[c] = "use" /\ kind[c] = "write" /\ TypeOK /\ CollectionInv /\ CallOK(c)
      /\ ident[c] \in Identity
  BY DEF Write, At, IInv, TypeOK
<1>2. /\ lock = c /\ g \in exists \cap Candidate /\ g \in Collection /\ g # NoCollection
      /\ space[g] = ident[c]
  BY <1>1, CollectionFacts DEF CallOK
<1>3. \A x \in Client \ {c} : Same(x)
  BY <1>1, EndFacts DEF Write, Same
<1>4. \A x \in Client \ {c} : CallOK(x)' /\ BuildOK(x)' /\ ~Writing(x)'
  BY <1>2, <1>3, Bystanders DEF Write
<1>5. CallOK(c)' /\ BuildOK(c)' /\ ~Writing(c)'
  BY <1>1, EndFacts, IdleIsOK DEF Write
<1>6. PICK v \in {ident[c], Absent} :
        /\ points' = [points EXCEPT ![g][d] = v]
        /\ held' = IF v = Absent THEN held \ {d} ELSE held \cup {d}
  <2>1. ident[c] # Absent
    BY <1>1, MigrationAssumption
  <2>2. QED
    BY <2>1 DEF Write
<1>7. /\ \A h \in Collection, e \in Document :
           points'[h][e] = IF h = g /\ e = d THEN v ELSE points[h][e]
      /\ \A h \in Collection \ {g} : points'[h] = points[h]
  <2>1. \A h \in Collection, e \in Document :
          [points EXCEPT ![g][d] = v][h][e] = IF h = g /\ e = d THEN v ELSE points[h][e]
    BY <1>1, <1>2, PointsType
  <2>2. \A h \in Collection \ {g} : [points EXCEPT ![g][d] = v][h] = points[h]
    BY <1>1 DEF TypeOK
  <2>3. QED
    BY <1>6, <2>1, <2>2
<1>8. CollectionInv'
  <2>1. \A h \in Candidate : \A e \in Document : points'[h][e] \in {space[h], Absent}
    BY <1>1, <1>2, <1>7, CollectionFacts DEF CollectionInv
  <2>2. \A h \in Candidate : h \notin exists => points'[h] = Empty /\ manifest[h] = "none"
    BY <1>1, <1>2, <1>7, CollectionFacts DEF CollectionInv
  <2>3. QED
    BY <1>1, <2>1, <2>2 DEF Write, CollectionInv, Empty
<1>9. Active' = Active /\ UNCHANGED <<late, excused, passed, overtaken>>
  BY DEF Write, Active
<1>10. lock' = Nobody
  BY <1>1, <1>2, EndFacts DEF Write
<1>11. LateInv'
  <2>1. late \ passed = {}
    BY <1>2, MigrationAssumption DEF IInv, LateInv
  <2>2. QED
    BY <1>9, <1>10, <2>1 DEF IInv, LateInv
<1>12. ~overtaken' => IF Active' = NoCollection THEN held' = {} ELSE Stored(Active)' = held'
  <2> SUFFICES ASSUME ~overtaken PROVE Active' # NoCollection /\ Stored(Active)' = held'
    BY <1>9
  <2>1. g = Active
    BY <1>1 DEF IInv, WritesGoToTheActive
  <2>2. \A e \in Document : points[g][e] # Absent <=> e \in held
    BY <1>2, <2>1 DEF IInv, WholeInv, Stored
  <2>3. \A e \in Document : points'[g][e] # Absent <=> e \in held'
    BY <1>2, <1>6, <1>7, <2>2
  <2>4. held' \subseteq Document
    BY DEF TypeOK
  <2>5. Stored(Active)' = held'
    BY <1>9, <2>1, <2>3, <2>4 DEF Stored
  <2>6. QED
    BY <1>2, <1>9, <2>1, <2>5
<1>13. QED
  BY <1>4, <1>5, <1>8, <1>11, <1>12, StepOf

\* The server catches up with a publication; if anybody has the lock, it comes after them.
LEMMA StepExecuteLate ==
  ASSUME IInv, TypeOK', NEW g \in Candidate, ExecuteLate(g) PROVE IInv'
<1>1. TypeOK /\ LateInv /\ g \in late /\ g # NoCollection /\ Active' = g
  BY PublishedIsActive, CollectionFacts DEF IInv, ExecuteLate
<1>2. CollectionInv'
  BY DEF ExecuteLate, IInv, CollectionInv
<1>3. \A x \in Client : CallOK(x)'
  <2> SUFFICES ASSUME NEW x \in Client PROVE CallOK(x)'
    OBVIOUS
  <2>1. CallOK(x)
    BY DEF IInv
  <2>2. QED
    BY <1>1, <2>1 DEF ExecuteLate, CallOK, locals
<1>4. CASE lock # Nobody
  <2>1. overtaken'
    BY <1>1, <1>4 DEF ExecuteLate, LateInv
  <2>2. LateInv'
    BY <1>1, <2>1 DEF ExecuteLate, LateInv
  <2>3. QED
    BY <1>2, <1>3, <2>1, <2>2 DEF IInv, WholeInv, WritesGoToTheActive
<1>5. CASE lock = Nobody
  <2>1. \A x \in Client : pc[x] \in {"idle", "check", "confirm", "lock", "use"}
    BY <1>1, <1>5, MigrationAssumption DEF TypeOK
  <2>2. \A x \in Client : BuildOK(x)'
    BY <2>1 DEF ExecuteLate, BuildOK, Building
  <2>3. WritesGoToTheActive'
    <3>1. \A x \in Client : ~(pc[x] = "use" /\ kind[x] = "write")
      BY <1>5, MigrationAssumption DEF IInv, CallOK
    <3>2. QED
      BY <3>1 DEF ExecuteLate, WritesGoToTheActive
  <2>4. LateInv'
    BY <1>1, <1>5 DEF ExecuteLate, LateInv, Stored
  <2>5. ~overtaken' => Stored(g)' = held'
    BY <1>1 DEF ExecuteLate, LateInv, Stored
  <2>6. WholeInv'
    BY <1>1, <2>2, <2>5 DEF WholeInv, Stored
  <2>7. QED
    BY <1>2, <1>3, <2>3, <2>4, <2>6 DEF IInv
<1>6. QED
  BY <1>4, <1>5

-----------------------------------------------------------------------------
(* The invariant is inductive.                                             *)
LEMMA StepIInv == IInv /\ [Next]_vars => IInv'
<1> SUFFICES ASSUME IInv, [Next]_vars PROVE IInv'
  OBVIOUS
<1>1. TypeOK'
  BY StepTypeOK
<1>2. CASE Next
  <2>1. ASSUME NEW c \in Client, Start(c) \/ CheckAlias(c) \/ Confirm(c) \/ Acquire(c) \/ ReadSource(c)
        PROVE  IInv'
    BY <1>1, <2>1, StepStart, StepCheckAlias, StepConfirm, StepAcquire, StepReadSource
  <2>2. ASSUME NEW c \in Client, Bind(c) \/ Superseded(c) \/ Create(c) \/ StampBuilding(c)
        PROVE  IInv'
    BY <1>1, <2>2, StepBind, StepSuperseded, StepCreate, StepStampBuilding
  <2>3. ASSUME NEW c \in Client, NEW d \in Document, Copy(c, d) \/ Write(c, d)
        PROVE  IInv'
    BY <1>1, <2>3, StepCopy, StepWrite
  <2>4. ASSUME NEW c \in Client,
               CountPoints(c) \/ Finalize(c) \/ StampReady(c) \/ Publish(c) \/ PublishFails(c)
        PROVE  IInv'
    BY <1>1, <2>4, StepCountPoints, StepFinalize, StepStampReady, StepPublish, StepPublishFails
  <2>5. ASSUME NEW c \in Client, Fail(c) \/ Cancel(c) \/ Restart(c) \/ Search(c) \/ Release(c)
        PROVE  IInv'
    BY <1>1, <2>5, StepFail, StepCancel, StepRestart, StepSearch, StepRelease
  <2>6. ASSUME NEW g \in Candidate, ExecuteLate(g) PROVE IInv'
    BY <1>1, <2>6, StepExecuteLate
  <2>7. QED
    BY <1>2, <2>1, <2>2, <2>3, <2>4, <2>5, <2>6 DEF Next
<1>3. CASE UNCHANGED vars
  <2>1. CollectionInv' /\ LateInv' /\ WritesGoToTheActive'
    BY <1>3 DEF vars, server, locals, history, IInv, CollectionInv, LateInv, WritesGoToTheActive,
                Stored, Active
  <2>2. \A c \in Client : CallOK(c)'
    BY <1>3 DEF vars, server, locals, IInv, CallOK
  <2>3. WholeInv'
    BY <1>3 DEF vars, server, locals, history, IInv, WholeInv, BuildOK, Stored, Active
  <2>4. QED
    BY <1>1, <2>1, <2>2, <2>3 DEF IInv
<1>4. QED
  BY <1>2, <1>3

THEOREM Inductive == Spec => []IInv
<1>1. Init => IInv
  BY InitIInv
<1>2. IInv /\ [Next]_vars => IInv'
  BY StepIInv
<1>3. QED
  BY <1>1, <1>2, PTL DEF Spec

-----------------------------------------------------------------------------
(* Through every interleaving of the clients' calls, and whatever fails,   *)
(* is cancelled or dies in ensure_embedding_collection, the active         *)
(* collection holds exactly the documents that were acknowledged.          *)
THEOREM ActiveSafety == Spec => []ActiveIsWhole
<1>1. IInv => ActiveIsWhole
  BY DEF IInv, WholeInv, ActiveIsWhole, ActiveIsComplete
<1>2. QED
  BY <1>1, Inductive, PTL

(* What a client reads or writes in has vectors of its own space only.     *)
THEOREM SpaceSafety == Spec => []SpacesNeverMix
<1>1. IInv => SpacesNeverMix
  BY DEF IInv, CollectionInv, CallOK, SpacesNeverMix
<1>2. QED
  BY <1>1, Inductive, PTL

(* A write goes to the collection that searches are sent to.               *)
THEOREM WriteSafety == Spec => []WritesGoToTheActive
<1>1. IInv => WritesGoToTheActive
  BY DEF IInv
<1>2. QED
  BY <1>1, Inductive, PTL
=============================================================================
