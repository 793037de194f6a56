------------------------ MODULE FragmentGroupProofs ------------------------
(* Proofs about FragmentGroup, for every set of writers, ids and versions, *)
(* and, with state of their own, about the lock that orders the writers,   *)
(* FileLock, the other parts of storage/qdrant.py: QdrantClient,           *)
(* EnsureCollection and UpsertBatch, and searches: HybridSearch.           *)
EXTENDS FragmentGroup, StorageAccess, Services, Induction, Integers, FiniteSets, SequenceTheorems,
        FiniteSetTheorems, TLAPS

-----------------------------------------------------------------------------
(* Facts about the operators.                                              *)
LEMMA IdsFacts ==
  /\ \A w \in Writer : NewIds(w) \subseteq Id /\ NewIds(w) # {} /\ Writes[w] \in Version
  /\ \A w \in Writer : PreviousIds(w) \subseteq Id
  /\ Nothing \in Request
  /\ \A i \in Id : Nothing[i] = Keep
BY FragmentAssumption DEF NewIds, PreviousIds, Nothing, Request

LEMMA ExecutedCells ==
  ASSUME store \in [Id -> Cell], NEW r \in Request, NEW part \in SUBSET Id
  PROVE  /\ Executed(r, part) \in [Id -> Cell]
         /\ \A i \in Id : Executed(r, part)[i] =
              IF i \in part /\ r[i] # Keep THEN r[i] ELSE store[i]
BY DEF Executed, Request

LEMMA RequestNothing ==
  ASSUME NEW r \in Request
  PROVE  r = Nothing <=> \A i \in Id : r[i] = Keep
BY DEF Request, Nothing

LEMMA CellsType ==
  ASSUME TypeOK, NEW w \in Writer, NEW i \in Id
  PROVE  Cells(w, i) \in Cell
BY FragmentAssumption DEF TypeOK, Cells, Cell

-----------------------------------------------------------------------------
(* Type correctness.                                                       *)
LEMMA InitTypeOK == Init => TypeOK
<1> SUFFICES ASSUME Init PROVE TypeOK
  OBVIOUS
<1>1. store \in [Id -> Cell] /\ committed \in Version
  BY FragmentAssumption DEF Init, Group, Cell
<1>2. late \in Seq(Request)
  BY DEF Init
<1>3. previous \in [Writer -> [Id -> Cell]] /\ request \in [Writer -> Request]
  BY IdsFacts DEF Init, Cell
<1>4. QED
  BY <1>1, <1>2, <1>3 DEF Init, TypeOK, Places

LEMMA StepTypeOK == TypeOK /\ [Next]_vars => TypeOK'
<1> SUFFICES ASSUME TypeOK, [Next]_vars PROVE TypeOK'
  OBVIOUS
<1> USE IdsFacts
<1>1. ASSUME NEW w \in Writer, Acquire(w) PROVE TypeOK'
  BY <1>1 DEF Acquire, Goto, TypeOK, Places
<1>2. ASSUME NEW w \in Writer, CollectPrevious(w) PROVE TypeOK'
  BY <1>2 DEF CollectPrevious, Goto, TypeOK, Places
<1>3. ASSUME NEW w \in Writer, ReadError(w) PROVE TypeOK'
  BY <1>3 DEF ReadError, End, Goto, TypeOK, Places
<1>4. ASSUME NEW w \in Writer, OpenJournal(w) PROVE TypeOK'
  BY <1>4 DEF OpenJournal, Goto, TypeOK, Places
<1>5. ASSUME NEW w \in Writer, SaveJournal(w) PROVE TypeOK'
  BY <1>5 DEF SaveJournal, Goto, TypeOK, Places, Replacing
<1>6. ASSUME NEW w \in Writer, JournalError(w) PROVE TypeOK'
  <2>1. journal' \in [Writer -> {"none", "torn", "durable"}]
    BY <1>6 DEF JournalError, TypeOK
  <2>2. /\ pc' = [pc EXCEPT ![w] = "done"] /\ lock' = NoWriter
        /\ outcome' = [outcome EXCEPT ![w] = "raised"]
    BY <1>6 DEF JournalError, End, Goto
  <2>3. UNCHANGED <<store, late, previous, todo, request, cancelled, told, committed, orderly>>
    BY <1>6 DEF JournalError
  <2>4. QED
    BY <2>1, <2>2, <2>3 DEF TypeOK, Places
<1>7. ASSUME NEW w \in Writer, Send(w) PROVE TypeOK'
  <2>1. PICK batch \in SUBSET todo[w] \ {{}} :
          request' = [request EXCEPT ![w] =
                        [i \in Id |-> IF i \in batch THEN Cells(w, i) ELSE Keep]]
    BY <1>7 DEF Send
  <2>2. [i \in Id |-> IF i \in batch THEN Cells(w, i) ELSE Keep] \in Request
    BY CellsType DEF Request
  <2>3. request' \in [Writer -> Request]
    BY <2>1, <2>2 DEF TypeOK
  <2>4. QED
    BY <1>7, <2>3 DEF Send, TypeOK
<1>8. ASSUME NEW w \in Writer, Answer(w) PROVE TypeOK'
  <2>1. store' \in [Id -> Cell]
    BY <1>8, ExecutedCells DEF Answer, TypeOK
  <2>2. QED
    BY <1>8, <2>1 DEF Answer, TypeOK
<1>9. ASSUME NEW w \in Writer, RequestRaises(w)
      PROVE  /\ pc' \in [Writer -> Places]
             /\ lock' \in Writer \cup {NoWriter}
             /\ todo' \in [Writer -> SUBSET Id]
             /\ request' \in [Writer -> Request]
             /\ outcome' \in [Writer -> {"none", "returned", "raised", "recovery", "killed"}]
  <2>1. request' \in [Writer -> Request] /\ PreviousIds(w) \subseteq Id
    BY <1>9 DEF RequestRaises, TypeOK, PreviousIds
  <2>2. CASE pc[w] \in Replacing
    <3>1. /\ pc' = [pc EXCEPT ![w] = "restore"] /\ lock' = lock /\ outcome' = outcome
          /\ todo' = [todo EXCEPT ![w] = PreviousIds(w)]
      BY <1>9, <2>2 DEF RequestRaises, Goto
    <3> HIDE IdsFacts
    <3>2. QED
      BY <2>1, <3>1 DEF TypeOK, Places, Compensating
  <2>3. CASE pc[w] \notin Replacing
    <3>1. /\ pc' = [pc EXCEPT ![w] = "done"] /\ lock' = NoWriter /\ todo' = todo
          /\ outcome' = [outcome EXCEPT ![w] = "recovery"]
      BY <1>9, <2>3 DEF RequestRaises, End, Goto
    <3> HIDE IdsFacts
    <3>2. QED
      BY <2>1, <3>1 DEF TypeOK, Places
  <2>4. QED
    BY <2>2, <2>3
<1>10. ASSUME NEW w \in Writer, Fail(w) PROVE TypeOK'
  <2>1. store' \in [Id -> Cell]
    BY <1>10, ExecutedCells DEF Fail, TypeOK
  <2>2. QED
    BY <1>9, <1>10, <2>1 DEF Fail, TypeOK
<1>11. ASSUME NEW w \in Writer, Refuse(w) PROVE TypeOK'
  BY <1>9, <1>11 DEF Refuse, TypeOK
<1>12. ASSUME NEW w \in Writer, Timeout(w) PROVE TypeOK'
  <2>1. late' \in Seq(Request)
    BY <1>12 DEF Timeout, TypeOK
  <2>2. QED
    BY <1>9, <1>12, <2>1 DEF Timeout, TypeOK
<1>13. ASSUME ExecuteLate PROVE TypeOK'
  <2>1. Head(late) \in Request /\ Tail(late) \in Seq(Request)
    BY <1>13 DEF ExecuteLate, TypeOK
  <2>2. store' \in [Id -> Cell]
    BY <1>13, <2>1, ExecutedCells DEF ExecuteLate, TypeOK
  <2>3. QED
    BY <1>13, <2>1, <2>2 DEF ExecuteLate, TypeOK
<1>14. ASSUME NEW w \in Writer,
              Upserted(w) \/ UndoCancelled(w) \/ Restored(w) \/ Retracted(w)
       PROVE  TypeOK'
  <2>1. CASE Upserted(w)
    BY <2>1 DEF Upserted, Goto, TypeOK, Places, Replacing
  <2>2. CASE UndoCancelled(w)
    BY <2>2 DEF UndoCancelled, Goto, TypeOK, Places, Compensating
  <2>3. CASE Restored(w)
    BY <2>3 DEF Restored, Goto, TypeOK, Places, Compensating
  <2>4. CASE Retracted(w)
    BY <2>4 DEF Retracted, Goto, TypeOK, Places
  <2>5. QED
    BY <1>14, <2>1, <2>2, <2>3, <2>4
<1>15. ASSUME NEW w \in Writer, Commit(w) PROVE TypeOK'
  BY <1>15 DEF Commit, Goto, TypeOK, Places
<1>16. ASSUME NEW w \in Writer, RemoveJournal(w) PROVE TypeOK'
  BY <1>16 DEF RemoveJournal, End, Goto, TypeOK, Places
<1>17. ASSUME NEW w \in Writer, Cancel(w) PROVE TypeOK'
  BY <1>17 DEF Cancel, TypeOK
<1>18. ASSUME NEW w \in Writer, Kill(w) PROVE TypeOK'
  <2>1. late' \in Seq(Request)
    BY <1>18 DEF Kill, TypeOK
  <2>2. QED
    BY <1>18, <2>1 DEF Kill, End, Goto, TypeOK, Places
<1>19. CASE UNCHANGED vars
  BY <1>19 DEF vars, TypeOK
<1>20. QED
  BY <1>1, <1>2, <1>3, <1>4, <1>5, <1>6, <1>7, <1>8, <1>10, <1>11, <1>12, <1>13, <1>14,
     <1>15, <1>16, <1>17, <1>18, <1>19 DEF Next, Progress, Trouble

(* The variables of FragmentGroup keep their types.                        *)
THEOREM TypeCorrect == Spec => []TypeOK
BY InitTypeOK, StepTypeOK, PTL DEF Spec
-----------------------------------------------------------------------------
(* What the replies and exceptions do to the holder's series.              *)
LEMMA HolderAlone ==
  ASSUME IInv, NEW w \in Writer, pc[w] \notin {"idle", "done"}
  PROVE  lock = w /\ \A v \in Writer : v # w => pc[v] \in {"idle", "done"}
BY DEF IInv, ControlInv

LEMMA RequestPending ==
  ASSUME IInv, NEW w \in Writer, request[w] # Nothing
  PROVE  /\ pc[w] \in Replacing \cup Compensating
         /\ request[w] \in Request
         /\ \A i \in Id : request[w][i] # Keep => i \in todo[w] /\ request[w][i] = Cells(w, i)
         /\ \E i \in Id : i \in todo[w]
         /\ todo[w] \subseteq Ours(w)
<1>1. request[w] \in Request
  BY DEF IInv, TypeOK
<1>2. \E i \in Id : request[w][i] # Keep
  BY <1>1, RequestNothing
<1>3. QED
  BY <1>1, <1>2 DEF IInv, ControlInv, SeriesInv, Replacing, Compensating

LEMMA AnswerEffect ==
  ASSUME IInv, NEW w \in Writer, Answer(w)
  PROVE  /\ \A i \in Id : store'[i] = IF request[w][i] # Keep THEN Cells(w, i) ELSE store[i]
         /\ \A i \in Id : i \in todo'[w] <=> i \in todo[w] /\ request[w][i] = Keep
         /\ todo'[w] \subseteq Id
         /\ \A v \in Writer : v # w => todo'[v] = todo[v]
<1>1. request[w] \in Request /\ \A i \in Id : request[w][i] # Keep => request[w][i] = Cells(w, i)
  BY RequestPending DEF Answer
<1>2. store \in [Id -> Cell] /\ todo \in [Writer -> SUBSET Id]
  BY DEF IInv, TypeOK
<1>3. QED
  BY <1>1, <1>2, ExecutedCells DEF Answer

LEMMA FailEffect ==
  ASSUME IInv, NEW w \in Writer, Fail(w)
  PROVE  \A i \in Id : \/ store'[i] = store[i]
                       \/ i \in todo[w] /\ store'[i] = Cells(w, i)
<1>1. /\ request[w] \in Request
      /\ \A i \in Id : request[w][i] # Keep => i \in todo[w] /\ request[w][i] = Cells(w, i)
  BY RequestPending DEF Fail
<1>2. PICK part \in SUBSET Id : store' = Executed(request[w], part)
  BY DEF Fail
<1>3. \A i \in Id : store'[i] = IF i \in part /\ request[w][i] # Keep
                                  THEN request[w][i] ELSE store[i]
  BY <1>1, <1>2, ExecutedCells DEF IInv, TypeOK
<1>4. QED
  BY <1>1, <1>3

LEMMA RaiseEffect ==
  ASSUME IInv, NEW w \in Writer, request[w] # Nothing, RequestRaises(w)
  PROVE  /\ \A v \in Writer : v # w => pc'[v] = pc[v] /\ todo'[v] = todo[v]
         /\ pc[w] \in Replacing =>
              /\ pc'[w] = "restore"
              /\ todo'[w] = PreviousIds(w)
              /\ outcome' = outcome /\ lock' = lock
         /\ pc[w] \in Compensating =>
              /\ pc'[w] = "done"
              /\ todo' = todo
              /\ outcome'[w] = "recovery"
              /\ \A v \in Writer : v # w => outcome'[v] = outcome[v]
BY RequestPending DEF RequestRaises, End, Goto, IInv, TypeOK, Replacing, Compensating

LEMMA LateEffect ==
  ASSUME IInv, ExecuteLate
  PROVE  /\ late # <<>>
         /\ late[1] \in Request
         /\ \A i \in Id : store'[i] = store[i] \/ late[1][i] # Keep
         /\ late' \in Seq(Request)
         /\ \A k \in 1 .. Len(late') : late'[k] = late[k + 1] /\ k + 1 \in 1 .. Len(late)
<1>1. late \in Seq(Request) /\ late # <<>>
  BY DEF IInv, TypeOK, ExecuteLate
<1>2. Head(late) = late[1] /\ late[1] \in Request
  BY <1>1
<1>3. PICK part \in SUBSET Id : store' = Executed(Head(late), part)
  BY DEF ExecuteLate
<1>4. \A i \in Id : store'[i] = store[i] \/ late[1][i] # Keep
  BY <1>2, <1>3, ExecutedCells DEF IInv, TypeOK
<1>5. QED
  BY <1>1, <1>2, <1>4 DEF ExecuteLate

-----------------------------------------------------------------------------
(* The control points, the lock, the journal and the outcome agree.       *)
LEMMA StepControlInv ==
  ASSUME IInv, TypeOK', [Next]_vars
  PROVE  ControlInv'
<1> USE IdsFacts, FragmentAssumption DEF IInv, TypeOK, ControlInv, Replacing, Compensating, Cells
<1>1. ASSUME NEW w \in Writer, Acquire(w) PROVE ControlInv'
  BY <1>1 DEF Acquire, Goto
<1>2. ASSUME NEW w \in Writer, CollectPrevious(w) PROVE ControlInv'
  BY <1>2 DEF CollectPrevious, Goto, PreviousIds
<1>3. ASSUME NEW w \in Writer, ReadError(w) PROVE ControlInv'
  BY <1>3 DEF ReadError, End, Goto
<1>4. ASSUME NEW w \in Writer, OpenJournal(w) PROVE ControlInv'
  BY <1>4 DEF OpenJournal, Goto
<1>5. ASSUME NEW w \in Writer, SaveJournal(w) PROVE ControlInv'
  BY <1>5 DEF SaveJournal, Goto
<1>6. ASSUME NEW w \in Writer, JournalError(w) PROVE ControlInv'
  BY <1>6 DEF JournalError, End, Goto
<1>7. ASSUME NEW w \in Writer, Send(w) PROVE ControlInv'
  BY <1>7 DEF Send
<1>8. ASSUME NEW w \in Writer, Answer(w) PROVE ControlInv'
  BY <1>8 DEF Answer
<1>9. ASSUME NEW w \in Writer, Fail(w) PROVE ControlInv'
  BY <1>9 DEF Fail, RequestRaises, End, Goto
<1>10. ASSUME NEW w \in Writer, Refuse(w) PROVE ControlInv'
  BY <1>10 DEF Refuse, RequestRaises, End, Goto
<1>11. ASSUME NEW w \in Writer, Timeout(w) PROVE ControlInv'
  BY <1>11 DEF Timeout, RequestRaises, End, Goto
<1>12. ASSUME NEW w \in Writer, Upserted(w) PROVE ControlInv'
  BY <1>12 DEF Upserted, PhaseDone, Goto
<1>13. ASSUME NEW w \in Writer, Commit(w) PROVE ControlInv'
  BY <1>13 DEF Commit, PhaseDone, Goto
<1>14. ASSUME NEW w \in Writer, UndoCancelled(w) PROVE ControlInv'
  BY <1>14 DEF UndoCancelled, PhaseDone, Goto
<1>15. ASSUME NEW w \in Writer, Restored(w) PROVE ControlInv'
  BY <1>15 DEF Restored, PhaseDone, Goto
<1>16. ASSUME NEW w \in Writer, Retracted(w) PROVE ControlInv'
  BY <1>16 DEF Retracted, PhaseDone, Goto
<1>17. ASSUME NEW w \in Writer, RemoveJournal(w) PROVE ControlInv'
  BY <1>17 DEF RemoveJournal, End, Goto
<1>18. ASSUME NEW w \in Writer, Cancel(w) PROVE ControlInv'
  BY <1>18 DEF Cancel
<1>19. ASSUME NEW w \in Writer, Kill(w) PROVE ControlInv'
  BY <1>19 DEF Kill, End, Goto
<1>20. ASSUME ExecuteLate PROVE ControlInv'
  BY <1>20 DEF ExecuteLate
<1>21. CASE UNCHANGED vars
  BY <1>21 DEF vars
<1>22. QED
  BY <1>1, <1>2, <1>3, <1>4, <1>5, <1>6, <1>7, <1>8, <1>9, <1>10, <1>11, <1>12, <1>13, <1>14, <1>15, <1>16, <1>17, <1>18, <1>19, <1>20, <1>21 DEF Next, Progress, Trouble

LEMMA StepSeriesInv ==
  ASSUME IInv, TypeOK', [Next]_vars
  PROVE  SeriesInv'
<1> USE IdsFacts, FragmentAssumption DEF IInv, TypeOK, ControlInv, SeriesInv, Replacing, Compensating, Cells, Ours, PreviousIds, Executed
<1>1. ASSUME NEW w \in Writer, Acquire(w) PROVE SeriesInv'
  BY <1>1 DEF Acquire, Goto
<1>2. ASSUME NEW w \in Writer, CollectPrevious(w) PROVE SeriesInv'
  BY <1>2 DEF CollectPrevious, Goto, PreviousIds
<1>3. ASSUME NEW w \in Writer, ReadError(w) PROVE SeriesInv'
  BY <1>3 DEF ReadError, End, Goto
<1>4. ASSUME NEW w \in Writer, OpenJournal(w) PROVE SeriesInv'
  BY <1>4 DEF OpenJournal, Goto
<1>5. ASSUME NEW w \in Writer, SaveJournal(w) PROVE SeriesInv'
  BY <1>5 DEF SaveJournal, Goto
<1>6. ASSUME NEW w \in Writer, JournalError(w) PROVE SeriesInv'
  BY <1>6 DEF JournalError, End, Goto
<1>7. ASSUME NEW w \in Writer, Send(w) PROVE SeriesInv'
  BY <1>7 DEF Send
<1>8. ASSUME NEW w \in Writer, Answer(w) PROVE SeriesInv'
  <2> HIDE DEF IInv, TypeOK, ControlInv, Executed, PreviousIds, SeriesInv
  <2>1. /\ pc' = pc /\ late' = late /\ late = <<>> /\ previous' = previous
        /\ pc[w] \in Replacing \cup Compensating
        /\ \A v \in Writer : PreviousIds(v)' = PreviousIds(v)
    BY <1>8, RequestPending DEF Answer, PreviousIds
  <2>2. \A v \in Writer : v # w => pc'[v] \in {"idle", "done"}
    BY <2>1, HolderAlone DEF Replacing, Compensating
  <2>3. SeriesInv
    BY DEF IInv
  <2>4. QED
    <3>1. ASSUME NEW v \in Writer, v # w
          PROVE  todo'[v] = todo[v] /\ pc'[v] = pc[v] /\ pc[v] \in {"idle", "done"}
      BY <1>8, <2>1, <2>2, <3>1, AnswerEffect
    <3>2. /\ \A i \in Id : store'[i] = IF request[w][i] # Keep THEN Cells(w, i) ELSE store[i]
          /\ \A i \in Id : i \in todo'[w] <=> i \in todo[w] /\ request[w][i] = Keep
          /\ \A i \in Id : request[w][i] # Keep => i \in todo[w]
          /\ todo'[w] \subseteq todo[w] /\ todo[w] \subseteq Id
      BY <1>8, AnswerEffect, RequestPending DEF Answer, IInv, TypeOK
    <3>3. CASE pc[w] = "upsert"
      BY <2>1, <2>3, <3>1, <3>2, <3>3 DEF SeriesInv
    <3>4. CASE pc[w] = "prune"
      BY <2>1, <2>3, <3>1, <3>2, <3>4 DEF SeriesInv
    <3>5. CASE pc[w] = "restore"
      BY <2>1, <2>3, <3>1, <3>2, <3>5 DEF SeriesInv
    <3>6. CASE pc[w] = "retract"
      BY <2>1, <2>3, <3>1, <3>2, <3>6 DEF SeriesInv
    <3>7. QED
      BY <2>1, <3>3, <3>4, <3>5, <3>6 DEF Replacing, Compensating
<1>9. ASSUME NEW w \in Writer, Fail(w) PROVE SeriesInv'
  <2> HIDE DEF IInv, TypeOK, ControlInv, Executed, SeriesInv, PreviousIds
  <2>1. request[w] # Nothing /\ RequestRaises(w) /\ previous' = previous
    BY <1>9 DEF Fail
  <2>2. pc[w] \in Replacing \cup Compensating /\ todo[w] \subseteq Ours(w)
    BY <2>1, RequestPending
  <2>3. \A v \in Writer : v # w => pc'[v] \in {"idle", "done"}
    BY <2>1, <2>2, HolderAlone, RaiseEffect
  <2>4. CASE pc[w] \in Replacing
    BY <2>1, <2>3, <2>4, RaiseEffect DEF SeriesInv, PreviousIds
  <2>5. CASE pc[w] \in Compensating
    BY <2>1, <2>3, <2>5, RaiseEffect DEF SeriesInv
  <2>6. QED
    BY <2>2, <2>4, <2>5
<1>10. ASSUME NEW w \in Writer, Refuse(w) PROVE SeriesInv'
  <2> HIDE DEF IInv, TypeOK, ControlInv, Executed, SeriesInv, PreviousIds
  <2>1. request[w] # Nothing /\ RequestRaises(w) /\ previous' = previous
    BY <1>10 DEF Refuse
  <2>2. pc[w] \in Replacing \cup Compensating /\ todo[w] \subseteq Ours(w)
    BY <2>1, RequestPending
  <2>3. \A v \in Writer : v # w => pc'[v] \in {"idle", "done"}
    BY <2>1, <2>2, HolderAlone, RaiseEffect
  <2>4. CASE pc[w] \in Replacing
    BY <2>1, <2>3, <2>4, RaiseEffect DEF SeriesInv, PreviousIds
  <2>5. CASE pc[w] \in Compensating
    BY <2>1, <2>3, <2>5, RaiseEffect DEF SeriesInv
  <2>6. QED
    BY <2>2, <2>4, <2>5
<1>11. ASSUME NEW w \in Writer, Timeout(w) PROVE SeriesInv'
  <2> HIDE DEF IInv, TypeOK, ControlInv, Executed, SeriesInv, PreviousIds
  <2>1. request[w] # Nothing /\ RequestRaises(w) /\ previous' = previous
    BY <1>11 DEF Timeout
  <2>2. pc[w] \in Replacing \cup Compensating /\ todo[w] \subseteq Ours(w)
    BY <2>1, RequestPending
  <2>3. \A v \in Writer : v # w => pc'[v] \in {"idle", "done"}
    BY <2>1, <2>2, HolderAlone, RaiseEffect
  <2>4. CASE pc[w] \in Replacing
    BY <2>1, <2>3, <2>4, RaiseEffect DEF SeriesInv, PreviousIds
  <2>5. CASE pc[w] \in Compensating
    BY <2>1, <2>3, <2>5, RaiseEffect DEF SeriesInv
  <2>6. QED
    BY <2>2, <2>4, <2>5
<1>12. ASSUME NEW w \in Writer, Upserted(w) PROVE SeriesInv'
  BY <1>12 DEF Upserted, PhaseDone, Goto
<1>13. ASSUME NEW w \in Writer, Commit(w) PROVE SeriesInv'
  BY <1>13 DEF Commit, PhaseDone, Goto
<1>14. ASSUME NEW w \in Writer, UndoCancelled(w) PROVE SeriesInv'
  BY <1>14 DEF UndoCancelled, PhaseDone, Goto
<1>15. ASSUME NEW w \in Writer, Restored(w) PROVE SeriesInv'
  BY <1>15 DEF Restored, PhaseDone, Goto
<1>16. ASSUME NEW w \in Writer, Retracted(w) PROVE SeriesInv'
  BY <1>16 DEF Retracted, PhaseDone, Goto
<1>17. ASSUME NEW w \in Writer, RemoveJournal(w) PROVE SeriesInv'
  BY <1>17 DEF RemoveJournal, End, Goto
<1>18. ASSUME NEW w \in Writer, Cancel(w) PROVE SeriesInv'
  BY <1>18 DEF Cancel
<1>19. ASSUME NEW w \in Writer, Kill(w) PROVE SeriesInv'
  BY <1>19 DEF Kill, End, Goto
<1>20. ASSUME ExecuteLate PROVE SeriesInv'
  BY <1>20 DEF ExecuteLate
<1>21. CASE UNCHANGED vars
  BY <1>21 DEF vars
<1>22. QED
  BY <1>1, <1>2, <1>3, <1>4, <1>5, <1>6, <1>7, <1>8, <1>9, <1>10, <1>11, <1>12, <1>13, <1>14, <1>15, <1>16, <1>17, <1>18, <1>19, <1>20, <1>21 DEF Next, Progress, Trouble

LEMMA StepOrderlyInv ==
  ASSUME IInv, TypeOK', [Next]_vars
  PROVE  OrderlyInv'
<1> USE IdsFacts, FragmentAssumption DEF IInv, TypeOK, ControlInv, SeriesInv, OrderlyInv, Replacing, Compensating, Cells, Ours, PreviousIds, Executed, Inside, Untouched
<1>1. ASSUME NEW w \in Writer, Acquire(w) PROVE OrderlyInv'
  BY <1>1 DEF Acquire, Goto
<1>2. ASSUME NEW w \in Writer, CollectPrevious(w) PROVE OrderlyInv'
  BY <1>2 DEF CollectPrevious, Goto, PreviousIds
<1>3. ASSUME NEW w \in Writer, ReadError(w) PROVE OrderlyInv'
  BY <1>3 DEF ReadError, End, Goto
<1>4. ASSUME NEW w \in Writer, OpenJournal(w) PROVE OrderlyInv'
  BY <1>4 DEF OpenJournal, Goto
<1>5. ASSUME NEW w \in Writer, SaveJournal(w) PROVE OrderlyInv'
  BY <1>5 DEF SaveJournal, Goto
<1>6. ASSUME NEW w \in Writer, JournalError(w) PROVE OrderlyInv'
  BY <1>6 DEF JournalError, End, Goto
<1>7. ASSUME NEW w \in Writer, Send(w) PROVE OrderlyInv'
  BY <1>7 DEF Send
<1>8. ASSUME NEW w \in Writer, Answer(w) PROVE OrderlyInv'
  <2> HIDE DEF IInv, TypeOK, ControlInv, Executed, SeriesInv, PreviousIds, OrderlyInv, Ours
  <2>1. /\ pc' = pc /\ late' = late /\ late = <<>> /\ previous' = previous /\ orderly' = orderly
        /\ pc[w] \in Replacing \cup Compensating
        /\ todo[w] \subseteq Ours(w)
        /\ \A i \in Id : request[w][i] # Keep => i \in todo[w]
        /\ \A v \in Writer : Ours(v)' = Ours(v)
    BY <1>8, RequestPending DEF Answer, PreviousIds, Ours
  <2>2. \A v \in Writer : v # w => pc'[v] \in {"idle", "done"}
    BY <2>1, HolderAlone
  <2>3. \A i \in Id \ Ours(w) : store'[i] = store[i]
    BY <1>8, <2>1, AnswerEffect
  <2>4. OrderlyInv
    BY DEF IInv
  <2>5. QED
    BY <2>1, <2>2, <2>3, <2>4 DEF OrderlyInv
<1>9. ASSUME NEW w \in Writer, Fail(w) PROVE OrderlyInv'
  <2> HIDE DEF IInv, TypeOK, ControlInv, Executed, SeriesInv, PreviousIds, OrderlyInv, Ours
  <2>1. /\ request[w] # Nothing /\ RequestRaises(w)
        /\ previous' = previous /\ orderly' = orderly /\ late' = late
        /\ \A v \in Writer : Ours(v)' = Ours(v)
    BY <1>9 DEF Fail, PreviousIds, Ours
  <2>2. pc[w] \in Replacing \cup Compensating /\ todo[w] \subseteq Ours(w)
    BY <2>1, RequestPending
  <2>3. \A v \in Writer : v # w => pc'[v] \in {"idle", "done"}
    BY <2>1, <2>2, HolderAlone, RaiseEffect
  <2>4. \A i \in Id \ Ours(w) : store'[i] = store[i]
    BY <1>9, <2>2, FailEffect
  <2>5. OrderlyInv
    BY DEF IInv
  <2>6. pc'[w] \in {"restore", "done"}
    BY <2>1, <2>2, RaiseEffect
  <2>7. QED
    BY <2>1, <2>2, <2>3, <2>4, <2>5, <2>6 DEF OrderlyInv
<1>10. ASSUME NEW w \in Writer, Refuse(w) PROVE OrderlyInv'
  BY <1>10 DEF Refuse, RequestRaises, End, Goto
<1>11. ASSUME NEW w \in Writer, Timeout(w) PROVE OrderlyInv'
  <2> HIDE DEF IInv, TypeOK, ControlInv, Executed, SeriesInv, PreviousIds, OrderlyInv, Ours
  <2>1. /\ request[w] # Nothing /\ RequestRaises(w) /\ late' = Append(late, request[w])
        /\ previous' = previous /\ orderly' = orderly /\ store' = store
        /\ \A v \in Writer : Ours(v)' = Ours(v)
    BY <1>11 DEF Timeout, PreviousIds, Ours
  <2>2. /\ pc[w] \in Replacing \cup Compensating
        /\ \A i \in Id : request[w][i] # Keep => i \in Ours(w)
        /\ request[w] \in Request /\ late \in Seq(Request)
    BY <2>1, RequestPending DEF IInv, TypeOK
  <2>3. \A v \in Writer : v # w => pc'[v] \in {"idle", "done"}
    BY <2>1, <2>2, HolderAlone, RaiseEffect
  <2>4. OrderlyInv
    BY DEF IInv
  <2>5. pc'[w] = IF pc[w] \in Replacing THEN "restore" ELSE "done"
    BY <2>1, <2>2, RaiseEffect
  <2>6. CASE pc[w] \in Compensating
    BY <2>3, <2>5, <2>6 DEF OrderlyInv
  <2>7. CASE pc[w] \in Replacing /\ orderly[w]
    <3>1. late = <<>> /\ \A i \in Id \ Ours(w) : store[i] = Absent
      BY <2>4, <2>7 DEF OrderlyInv
    <3>2. late' = <<request[w]>> /\ Len(late') = 1 /\ late'[1] = request[w]
      BY <2>1, <2>2, <3>1
    <3>3. QED
      BY <2>1, <2>2, <2>3, <2>5, <2>7, <3>1, <3>2 DEF OrderlyInv
  <2>8. CASE pc[w] \in Replacing /\ ~orderly[w]
    BY <2>1, <2>3, <2>8 DEF OrderlyInv
  <2>9. QED
    BY <2>2, <2>6, <2>7, <2>8
<1>12. ASSUME NEW w \in Writer, Upserted(w) PROVE OrderlyInv'
  BY <1>12 DEF Upserted, PhaseDone, Goto
<1>13. ASSUME NEW w \in Writer, Commit(w) PROVE OrderlyInv'
  BY <1>13 DEF Commit, PhaseDone, Goto
<1>14. ASSUME NEW w \in Writer, UndoCancelled(w) PROVE OrderlyInv'
  BY <1>14 DEF UndoCancelled, PhaseDone, Goto
<1>15. ASSUME NEW w \in Writer, Restored(w) PROVE OrderlyInv'
  BY <1>15 DEF Restored, PhaseDone, Goto
<1>16. ASSUME NEW w \in Writer, Retracted(w) PROVE OrderlyInv'
  BY <1>16 DEF Retracted, PhaseDone, Goto
<1>17. ASSUME NEW w \in Writer, RemoveJournal(w) PROVE OrderlyInv'
  BY <1>17 DEF RemoveJournal, End, Goto
<1>18. ASSUME NEW w \in Writer, Cancel(w) PROVE OrderlyInv'
  BY <1>18 DEF Cancel
<1>19. ASSUME NEW w \in Writer, Kill(w) PROVE OrderlyInv'
  BY <1>19 DEF Kill, End, Goto
<1>20. ASSUME ExecuteLate PROVE OrderlyInv'
  <2> HIDE DEF IInv, TypeOK, ControlInv, Executed, SeriesInv, PreviousIds, OrderlyInv, Ours
  <2>1. /\ pc' = pc /\ previous' = previous /\ orderly' = orderly
        /\ \A v \in Writer : Ours(v)' = Ours(v)
    BY <1>20 DEF ExecuteLate, PreviousIds, Ours
  <2>2. OrderlyInv
    BY DEF IInv
  <2>3. late \in Seq(Request) /\ late # <<>> /\ 1 \in 1 .. Len(late)
    BY <1>20 DEF ExecuteLate, IInv, TypeOK
  <2>4. ASSUME NEW v \in Writer, orderly[v], pc[v] \notin {"idle", "read", "done"}
        PROVE  /\ \A i \in Id \ Ours(v) : store'[i] = Absent
               /\ \A k \in 1 .. Len(late') : Inside(late'[k], Ours(v))
               /\ pc[v] \notin Untouched \cup Replacing
    <3>1. /\ \A i \in Id \ Ours(v) : store[i] = Absent
          /\ \A k \in 1 .. Len(late) : Inside(late[k], Ours(v))
          /\ pc[v] \notin Untouched \cup Replacing
      BY <2>2, <2>3, <2>4 DEF OrderlyInv
    <3>2. \A i \in Id : store'[i] = store[i] \/ late[1][i] # Keep
      BY <1>20, LateEffect
    <3>3. Inside(late[1], Ours(v))
      BY <2>3, <3>1
    <3>4. \A k \in 1 .. Len(late') : Inside(late'[k], Ours(v))
      BY <1>20, <3>1, LateEffect
    <3>5. QED
      BY <3>1, <3>2, <3>3, <3>4
  <2>5. QED
    BY <2>1, <2>4 DEF OrderlyInv
<1>21. CASE UNCHANGED vars
  BY <1>21 DEF vars
<1>22. QED
  BY <1>1, <1>2, <1>3, <1>4, <1>5, <1>6, <1>7, <1>8, <1>9, <1>10, <1>11, <1>12, <1>13, <1>14, <1>15, <1>16, <1>17, <1>18, <1>19, <1>20, <1>21 DEF Next, Progress, Trouble

LEMMA StepResolvedInv ==
  ASSUME IInv, TypeOK', [Next]_vars
  PROVE  ResolvedInv'
<1> USE IdsFacts, FragmentAssumption DEF IInv, TypeOK, ControlInv, SeriesInv, OrderlyInv, ResolvedInv, Replacing, Compensating, Ours, PreviousIds, Inside, Untouched, Unresolved, Group
<1>1. ASSUME NEW w \in Writer, Acquire(w) PROVE ResolvedInv'
  BY <1>1 DEF Acquire, Goto
<1>2. ASSUME NEW w \in Writer, CollectPrevious(w) PROVE ResolvedInv'
  <2> HIDE DEF IInv, TypeOK, ControlInv, SeriesInv, PreviousIds, OrderlyInv, ResolvedInv, Ours, Group, Unresolved
  <2>1. /\ pc'[w] = "open" /\ previous'[w] = store /\ orderly'[w] = (late = <<>>)
        /\ late' = late /\ store' = store /\ committed' = committed
        /\ \A v \in Writer : v # w => pc'[v] = pc[v]
        /\ Unresolved' = Unresolved
    BY <1>2 DEF CollectPrevious, Goto, IInv, TypeOK, Unresolved
  <2>2. pc[w] = "read" /\ \A v \in Writer : v # w => pc[v] \in {"idle", "done"}
    BY <1>2, HolderAlone DEF CollectPrevious
  <2>3. ResolvedInv /\ Group(committed)' = Group(committed)
    BY <2>1 DEF IInv, Group
  <2> HIDE IdsFacts, FragmentAssumption
  <2>4. ASSUME Unresolved = {}
        PROVE  late = <<>> /\ store = Group(committed)
    <3>1. \A v \in Writer : pc[v] \in {"idle", "read", "done"}
      BY <2>2
    <3>2. QED
      BY <2>3, <2>4, <3>1 DEF ResolvedInv
  <2>5. ASSUME Unresolved' = {}, NEW v \in Writer, pc'[v] \notin {"idle", "read", "done"}
        PROVE  orderly'[v] /\ (pc'[v] # "cleanup" => previous'[v] = Group(committed)')
    <3>1. v = w /\ Unresolved = {}
      BY <2>1, <2>2, <2>5
    <3>2. QED
      BY <2>1, <2>3, <2>4, <3>1
  <2>6. ~(\A v \in Writer : pc'[v] \in {"idle", "read", "done"})
    BY <2>1
  <2>7. QED
    BY <2>5, <2>6 DEF ResolvedInv
<1>3. ASSUME NEW w \in Writer, ReadError(w) PROVE ResolvedInv'
  BY <1>3 DEF ReadError, End, Goto
<1>4. ASSUME NEW w \in Writer, OpenJournal(w) PROVE ResolvedInv'
  BY <1>4 DEF OpenJournal, Goto
<1>5. ASSUME NEW w \in Writer, SaveJournal(w) PROVE ResolvedInv'
  BY <1>5 DEF SaveJournal, Goto
<1>6. ASSUME NEW w \in Writer, JournalError(w) PROVE ResolvedInv'
  BY <1>6 DEF JournalError, End, Goto
<1>7. ASSUME NEW w \in Writer, Send(w) PROVE ResolvedInv'
  BY <1>7 DEF Send
<1>8. ASSUME NEW w \in Writer, Answer(w) PROVE ResolvedInv'
  <2> HIDE DEF IInv, TypeOK, ControlInv, SeriesInv, PreviousIds, OrderlyInv, ResolvedInv, Ours, Group, Unresolved
  <2>1. /\ pc' = pc /\ previous' = previous /\ orderly' = orderly
        /\ Unresolved' = Unresolved /\ Group(committed)' = Group(committed)
    BY <1>8 DEF Answer, Unresolved, Group
  <2>2. pc[w] \notin {"idle", "read", "done"}
    BY <1>8, RequestPending DEF Answer
  <2>3. ResolvedInv
    BY DEF IInv
  <2>4. QED
    BY <2>1, <2>2, <2>3 DEF ResolvedInv
<1>9. ASSUME NEW w \in Writer, Fail(w) PROVE ResolvedInv'
  <2> HIDE DEF IInv, TypeOK, ControlInv, SeriesInv, PreviousIds, OrderlyInv, ResolvedInv, Ours, Group, Unresolved
  <2>1. /\ request[w] # Nothing /\ RequestRaises(w)
        /\ previous' = previous /\ orderly' = orderly /\ journal' = journal
        /\ Group(committed)' = Group(committed)
    BY <1>9 DEF Fail, Group
  <2>2. pc[w] \in Replacing \cup Compensating
    BY <2>1, RequestPending
  <2>3. ResolvedInv
    BY DEF IInv
  <2>4. CASE pc[w] \in Replacing
    <3>1. Unresolved' = Unresolved
      BY <2>1, <2>4, RaiseEffect DEF Unresolved
    <3>2. /\ pc'[w] = "restore" /\ pc[w] \notin {"idle", "read", "done", "cleanup"}
          /\ \A v \in Writer : v # w => pc'[v] = pc[v]
      BY <2>1, <2>4, RaiseEffect
    <3>3. QED
      BY <2>1, <2>3, <3>1, <3>2 DEF ResolvedInv
  <2>5. CASE pc[w] \in Compensating
    <3>1. journal[w] = "durable"
      BY <2>5 DEF IInv, ControlInv
    <3>2. w \in Unresolved'
      BY <2>1, <2>5, <3>1, RaiseEffect DEF Unresolved
    <3>3. QED
      BY <3>2 DEF ResolvedInv
  <2>6. QED
    BY <2>2, <2>4, <2>5
<1>10. ASSUME NEW w \in Writer, Refuse(w) PROVE ResolvedInv'
  <2> HIDE DEF IInv, TypeOK, ControlInv, SeriesInv, PreviousIds, OrderlyInv, ResolvedInv, Ours, Group, Unresolved
  <2>1. /\ request[w] # Nothing /\ RequestRaises(w)
        /\ previous' = previous /\ orderly' = orderly /\ journal' = journal
        /\ Group(committed)' = Group(committed)
    BY <1>10 DEF Refuse, Group
  <2>2. pc[w] \in Replacing \cup Compensating
    BY <2>1, RequestPending
  <2>3. ResolvedInv
    BY DEF IInv
  <2>4. CASE pc[w] \in Replacing
    <3>1. Unresolved' = Unresolved
      BY <2>1, <2>4, RaiseEffect DEF Unresolved
    <3>2. /\ pc'[w] = "restore" /\ pc[w] \notin {"idle", "read", "done", "cleanup"}
          /\ \A v \in Writer : v # w => pc'[v] = pc[v]
      BY <2>1, <2>4, RaiseEffect
    <3>3. QED
      BY <2>1, <2>3, <3>1, <3>2 DEF ResolvedInv
  <2>5. CASE pc[w] \in Compensating
    <3>1. journal[w] = "durable"
      BY <2>5 DEF IInv, ControlInv
    <3>2. w \in Unresolved'
      BY <2>1, <2>5, <3>1, RaiseEffect DEF Unresolved
    <3>3. QED
      BY <3>2 DEF ResolvedInv
  <2>6. QED
    BY <2>2, <2>4, <2>5
<1>11. ASSUME NEW w \in Writer, Timeout(w) PROVE ResolvedInv'
  <2> HIDE DEF IInv, TypeOK, ControlInv, SeriesInv, PreviousIds, OrderlyInv, ResolvedInv, Ours, Group, Unresolved
  <2>1. /\ request[w] # Nothing /\ RequestRaises(w)
        /\ previous' = previous /\ orderly' = orderly /\ journal' = journal
        /\ Group(committed)' = Group(committed)
    BY <1>11 DEF Timeout, Group
  <2>2. pc[w] \in Replacing \cup Compensating
    BY <2>1, RequestPending
  <2>3. ResolvedInv
    BY DEF IInv
  <2>4. CASE pc[w] \in Replacing
    <3>1. Unresolved' = Unresolved
      BY <2>1, <2>4, RaiseEffect DEF Unresolved
    <3>2. /\ pc'[w] = "restore" /\ pc[w] \notin {"idle", "read", "done", "cleanup"}
          /\ \A v \in Writer : v # w => pc'[v] = pc[v]
      BY <2>1, <2>4, RaiseEffect
    <3>3. QED
      BY <2>1, <2>3, <3>1, <3>2 DEF ResolvedInv
  <2>5. CASE pc[w] \in Compensating
    <3>1. journal[w] = "durable"
      BY <2>5 DEF IInv, ControlInv
    <3>2. w \in Unresolved'
      BY <2>1, <2>5, <3>1, RaiseEffect DEF Unresolved
    <3>3. QED
      BY <3>2 DEF ResolvedInv
  <2>6. QED
    BY <2>2, <2>4, <2>5
<1>12. ASSUME NEW w \in Writer, Upserted(w) PROVE ResolvedInv'
  BY <1>12 DEF Upserted, PhaseDone, Goto
<1>13. ASSUME NEW w \in Writer, Commit(w) PROVE ResolvedInv'
  BY <1>13 DEF Commit, PhaseDone, Goto
<1>14. ASSUME NEW w \in Writer, UndoCancelled(w) PROVE ResolvedInv'
  BY <1>14 DEF UndoCancelled, PhaseDone, Goto
<1>15. ASSUME NEW w \in Writer, Restored(w) PROVE ResolvedInv'
  BY <1>15 DEF Restored, PhaseDone, Goto
<1>16. ASSUME NEW w \in Writer, Retracted(w) PROVE ResolvedInv'
  BY <1>16 DEF Retracted, PhaseDone, Goto
<1>17. ASSUME NEW w \in Writer, RemoveJournal(w) PROVE ResolvedInv'
  <2> HIDE DEF IInv, TypeOK, ControlInv, SeriesInv, PreviousIds, OrderlyInv, ResolvedInv, Ours, Group, Unresolved
  <2>1. /\ pc[w] \in {"abandon", "forget", "cleanup"}
        /\ pc'[w] = "done" /\ outcome'[w] \in {"raised", "returned"}
        /\ \A v \in Writer : v # w => /\ pc'[v] = pc[v] /\ outcome'[v] = outcome[v]
                                      /\ journal'[v] = journal[v]
        /\ store' = store /\ late' = late /\ previous' = previous /\ orderly' = orderly
        /\ Group(committed)' = Group(committed)
    BY <1>17 DEF RemoveJournal, End, Goto, IInv, TypeOK, Group
  <2>2. \A v \in Writer : v # w => pc[v] \in {"idle", "done"}
    BY <2>1, HolderAlone
  <2>3. Unresolved = {} \/ Unresolved' # {}
    <3>1. outcome[w] = "none"
      BY <2>1 DEF IInv, ControlInv
    <3>2. QED
      BY <2>1, <3>1 DEF Unresolved
  <2>4. ASSUME Unresolved = {} PROVE late = <<>> /\ store = Group(committed)
    <3>1. orderly[w] /\ (pc[w] # "cleanup" => previous[w] = Group(committed))
      BY <2>1, <2>4 DEF IInv, ResolvedInv
    <3>2. CASE pc[w] = "abandon"
      BY <3>1, <3>2 DEF IInv, OrderlyInv
    <3>3. store \in [Id -> Cell] /\ previous[w] \in [Id -> Cell]
      BY DEF IInv, TypeOK
    <3>4. \A i \in Id \ Ours(w) : store[i] = Absent
      BY <2>1, <3>1 DEF IInv, OrderlyInv
    <3>5. CASE pc[w] = "forget"
      <4>1. /\ late = <<>> /\ todo[w] = {}
            /\ \A i \in PreviousIds(w) : store[i] = previous[w][i]
            /\ \A i \in NewIds(w) \ (PreviousIds(w) \cup todo[w]) : store[i] = Absent
        BY <3>5 DEF IInv, SeriesInv
      <4>2. \A i \in Id : store[i] = previous[w][i]
        BY <3>4, <4>1 DEF PreviousIds, Ours
      <4>3. QED
        BY <3>1, <3>3, <3>5, <4>1, <4>2
    <3>6. CASE pc[w] = "cleanup"
      <4>1. /\ late = <<>> /\ todo[w] = {} /\ committed = Writes[w]
            /\ \A i \in NewIds(w) : store[i] = Writes[w]
            /\ \A i \in PreviousIds(w) \ (NewIds(w) \cup todo[w]) : store[i] = Absent
        BY <3>6 DEF IInv, SeriesInv, ControlInv
      <4>2. \A i \in Id : store[i] = IF i \in IdsOf[committed] THEN committed ELSE Absent
        BY <3>4, <4>1 DEF Ours, NewIds
      <4>3. QED
        BY <3>3, <4>1, <4>2 DEF Group
    <3>7. QED
      BY <2>1, <3>2, <3>5, <3>6
  <2>5. QED
    BY <2>1, <2>2, <2>3, <2>4 DEF ResolvedInv
<1>18. ASSUME NEW w \in Writer, Cancel(w) PROVE ResolvedInv'
  BY <1>18 DEF Cancel
<1>19. ASSUME NEW w \in Writer, Kill(w) PROVE ResolvedInv'
  <2> HIDE DEF IInv, TypeOK, ControlInv, SeriesInv, PreviousIds, OrderlyInv, ResolvedInv, Ours, Group, Unresolved
  <2>1. /\ lock = w /\ pc'[w] = "done" /\ outcome'[w] = "killed"
        /\ \A v \in Writer : v # w => pc'[v] = pc[v] /\ outcome'[v] = outcome[v]
        /\ store' = store /\ journal' = journal
        /\ Group(committed)' = Group(committed)
    BY <1>19 DEF Kill, End, Goto, IInv, TypeOK, Group
  <2>2. /\ pc[w] \notin {"idle", "done"} /\ outcome[w] = "none"
        /\ \A v \in Writer : v # w => pc[v] \in {"idle", "done"}
    BY <2>1, HolderAlone DEF IInv, ControlInv
  <2>3. CASE journal[w] = "durable"
    BY <2>1, <2>3 DEF ResolvedInv, Unresolved
  <2>4. CASE journal[w] # "durable"
    <3>1. Unresolved' = Unresolved
      BY <2>1, <2>2, <2>4 DEF Unresolved
    <3>2. pc[w] \in {"read", "open", "save"} /\ request[w] = Nothing
      <4>1. pc[w] \in Places
        BY DEF IInv, TypeOK
      <4>2. QED
        BY <2>2, <2>4, <4>1 DEF Places, IInv, ControlInv
    <3>3. late' = late
      BY <1>19, <3>2 DEF Kill
    <3>4. Unresolved = {} => late = <<>> /\ store = Group(committed)
      <4>1. CASE pc[w] = "read"
        BY <2>2, <4>1 DEF IInv, ResolvedInv
      <4>2. CASE pc[w] \in {"open", "save"}
        BY <2>2, <4>2 DEF IInv, ResolvedInv, OrderlyInv
      <4>3. QED
        BY <3>2, <4>1, <4>2
    <3>5. QED
      BY <2>1, <2>2, <3>1, <3>3, <3>4 DEF ResolvedInv
  <2>5. QED
    BY <2>3, <2>4
<1>20. ASSUME ExecuteLate PROVE ResolvedInv'
  BY <1>20 DEF ExecuteLate
<1>21. CASE UNCHANGED vars
  BY <1>21 DEF vars
<1>22. QED
  BY <1>1, <1>2, <1>3, <1>4, <1>5, <1>6, <1>7, <1>8, <1>9, <1>10, <1>11, <1>12, <1>13, <1>14, <1>15, <1>16, <1>17, <1>18, <1>19, <1>20, <1>21 DEF Next, Progress, Trouble

LEMMA InitIInv == Init => IInv
<1> SUFFICES ASSUME Init PROVE IInv
  OBVIOUS
<1>1. TypeOK
  BY InitTypeOK
<1>2. ControlInv
  BY FragmentAssumption, IdsFacts DEF Init, ControlInv, Replacing, Compensating
<1>3. SeriesInv
  BY DEF Init, SeriesInv
<1>4. OrderlyInv
  BY DEF Init, OrderlyInv
<1>5. ResolvedInv
  BY DEF Init, ResolvedInv
<1>6. QED
  BY <1>1, <1>2, <1>3, <1>4, <1>5 DEF IInv

LEMMA StepIInv == IInv /\ [Next]_vars => IInv'
<1> SUFFICES ASSUME IInv, [Next]_vars PROVE IInv'
  OBVIOUS
<1>1. TypeOK'
  BY StepTypeOK DEF IInv
<1>2. QED
  BY <1>1, StepControlInv, StepSeriesInv, StepOrderlyInv, StepResolvedInv DEF IInv

-----------------------------------------------------------------------------
(* Outside a replacement the collection holds the version committed last,  *)
(* unless a call left its journal.                                         *)
LEMMA StoreIsGroup ==
  ASSUME IInv, Unresolved = {}, Mutating = {}
  PROVE  store = Group(committed)
<1>1. CASE \A w \in Writer : pc[w] \in {"idle", "read", "done"}
  BY <1>1 DEF IInv, ResolvedInv
<1>2. CASE \E w \in Writer : pc[w] \notin {"idle", "read", "done"}
  <2>1. PICK w \in Writer : pc[w] \notin {"idle", "read", "done"}
    BY <1>2
  <2>2. pc[w] \in Places /\ store \in [Id -> Cell]
    BY DEF IInv, TypeOK
  <2>3. pc[w] \in {"open", "save", "abandon", "cleanup"}
    BY <2>1, <2>2 DEF Places, Mutating
  <2>4. orderly[w] /\ (pc[w] # "cleanup" => previous[w] = Group(committed))
    BY <2>1 DEF IInv, ResolvedInv
  <2>5. CASE pc[w] # "cleanup"
    BY <2>3, <2>4, <2>5 DEF IInv, OrderlyInv, Untouched
  <2>6. CASE pc[w] = "cleanup"
    <3>1. \A i \in Id \ Ours(w) : store[i] = Absent
      BY <2>4, <2>6 DEF IInv, OrderlyInv
    <3>2. /\ committed = Writes[w] /\ todo[w] = {}
          /\ \A i \in NewIds(w) : store[i] = Writes[w]
          /\ \A i \in PreviousIds(w) \ (NewIds(w) \cup todo[w]) : store[i] = Absent
      BY <2>6 DEF IInv, ControlInv, SeriesInv
    <3>3. \A i \in Id : store[i] = IF i \in IdsOf[committed] THEN committed ELSE Absent
      BY <3>1, <3>2 DEF Ours, NewIds
    <3>4. QED
      BY <2>2, <3>3 DEF Group
  <2>7. QED
    BY <2>5, <2>6
<1>3. QED
  BY <1>1, <1>2

(* Every failure leaves the prior group in place or a journal behind.      *)
THEOREM GroupSafety == Spec => []WholeOrJournaled
<1>1. IInv => WholeOrJournaled
  BY StoreIsGroup DEF WholeOrJournaled
<1>2. QED
  BY InitIInv, StepIInv, <1>1, PTL DEF Spec

(* The journal of a replacement under way is on the disk, and holds the    *)
(* version that was committed last if every earlier call was resolved.     *)
THEOREM JournalSafety == Spec => []JournalIsPrior
<1>1. IInv => JournalIsPrior
  BY DEF IInv, ControlInv, ResolvedInv, JournalIsPrior, Mutating, Replacing, Compensating
<1>2. QED
  BY InitIInv, StepIInv, <1>1, PTL DEF Spec

(* While every call was resolved, the server has requests of nobody but    *)
(* the writer that has the lock.                                           *)
THEOREM FlightSafety == Spec => []NothingInFlight
<1>1. ASSUME IInv PROVE NothingInFlight
  <2>1. \A w \in Writer : request[w] # Nothing => lock = w
    BY <1>1, RequestPending DEF IInv, ControlInv, Replacing, Compensating
  <2>2. ASSUME Unresolved = {}, late # <<>>
        PROVE  lock # NoWriter /\ pc[lock] \in Compensating
    <3>1. PICK w \in Writer : pc[w] \notin {"idle", "read", "done"}
      BY <1>1, <2>2 DEF IInv, ResolvedInv
    <3>2. orderly[w] /\ lock = w /\ pc[w] \in Places
      BY <1>1, <2>2, <3>1 DEF IInv, TypeOK, ResolvedInv, ControlInv
    <3>3. pc[w] \notin Untouched \cup Replacing
      BY <1>1, <2>2, <3>1, <3>2 DEF IInv, OrderlyInv
    <3>4. pc[w] \notin {"cleanup", "forget"}
      BY <1>1, <2>2 DEF IInv, SeriesInv
    <3>5. QED
      BY <3>1, <3>2, <3>3, <3>4, FragmentAssumption DEF Places, Untouched
  <2>3. QED
    BY <2>1, <2>2 DEF NothingInFlight
<1>2. QED
  BY InitIInv, StepIInv, <1>1, PTL DEF Spec

-----------------------------------------------------------------------------
(* The steps with which a call returns or raises to a caller that goes on. *)
LEMMA EndingSteps ==
  ASSUME IInv, [Next]_vars, NEW w \in Writer, Ends(w)
  PROVE  ReadError(w) \/ JournalError(w) \/ RemoveJournal(w)
<1>1. outcome \in [Writer -> {"none", "returned", "raised", "recovery", "killed"}]
  BY DEF IInv, TypeOK
<1> USE <1>1 DEF Ends, End
<1>2. ASSUME NEW v \in Writer, Acquire(v) \/ Progress(v) PROVE RemoveJournal(w)
  BY <1>2 DEF Acquire, Progress, CollectPrevious, OpenJournal, SaveJournal, Send, Answer,
              Upserted, Commit, UndoCancelled, Restored, Retracted, RemoveJournal
<1>3. ASSUME NEW v \in Writer, Trouble(v) PROVE ReadError(w) \/ JournalError(w)
  BY <1>3 DEF Trouble, ReadError, JournalError, Fail, Refuse, Timeout, RequestRaises,
              Cancel, Kill
<1>4. CASE ExecuteLate
  BY <1>4 DEF ExecuteLate
<1>5. CASE UNCHANGED vars
  BY <1>5 DEF vars
<1>6. QED
  BY <1>2, <1>3, <1>4, <1>5 DEF Next

\* What is stored when _remove_journal starts.
LEMMA StoredAtTheEnd ==
  ASSUME IInv, NEW w \in Writer, pc[w] \in {"abandon", "forget", "cleanup"}, orderly[w]
  PROVE  store = IF told[w] THEN Group(Writes[w]) ELSE previous[w]
<1>1. /\ told[w] <=> pc[w] = "cleanup"
      /\ \A i \in Id \ Ours(w) : store[i] = Absent
      /\ store \in [Id -> Cell] /\ previous[w] \in [Id -> Cell]
  BY DEF IInv, ControlInv, OrderlyInv, TypeOK
<1>2. CASE pc[w] = "abandon"
  BY <1>1, <1>2 DEF IInv, OrderlyInv, Untouched
<1>3. CASE pc[w] = "forget"
  <2>1. /\ todo[w] = {}
        /\ \A i \in PreviousIds(w) : store[i] = previous[w][i]
        /\ \A i \in NewIds(w) \ (PreviousIds(w) \cup todo[w]) : store[i] = Absent
    BY <1>3 DEF IInv, SeriesInv
  <2>2. \A i \in Id : store[i] = previous[w][i]
    BY <1>1, <2>1 DEF PreviousIds, Ours
  <2>3. QED
    BY <1>1, <1>3, <2>2
<1>4. CASE pc[w] = "cleanup"
  <2>1. /\ todo[w] = {}
        /\ \A i \in NewIds(w) : store[i] = Writes[w]
        /\ \A i \in PreviousIds(w) \ (NewIds(w) \cup todo[w]) : store[i] = Absent
    BY <1>4 DEF IInv, SeriesInv
  <2>2. \A i \in Id : store[i] = IF i \in IdsOf[Writes[w]] THEN Writes[w] ELSE Absent
    BY <1>1, <2>1 DEF Ours, NewIds
  <2>3. QED
    BY <1>1, <1>4, <2>2 DEF Group
<1>5. QED
  BY <1>2, <1>3, <1>4

(* on_commit tells the caller which group the collection holds.            *)
THEOREM CommitSafety == Spec => OnCommitTellsTheGroup
<1>1. ASSUME IInv, [Next]_vars, NEW w \in Writer, Ends(w), orderly[w]
      PROVE  store = IF told[w] THEN Group(Writes[w]) ELSE previous[w]
  <2>1. CASE ReadError(w)
    BY <1>1, <2>1 DEF ReadError, IInv, ControlInv
  <2>2. CASE JournalError(w)
    BY <1>1, <2>2 DEF JournalError, IInv, ControlInv, OrderlyInv, Untouched
  <2>3. CASE RemoveJournal(w)
    BY <1>1, <2>3, StoredAtTheEnd DEF RemoveJournal
  <2>4. QED
    BY <1>1, <2>1, <2>2, <2>3, EndingSteps
<1>2. ASSUME IInv, [Next]_vars
      PROVE  [\A w \in Writer : Ends(w) /\ orderly[w] =>
                store = IF told[w] THEN Group(Writes[w]) ELSE previous[w]]_vars
  BY <1>1, <1>2
<1>3. QED
  BY InitIInv, StepIInv, <1>2, PTL DEF Spec, OnCommitTellsTheGroup

(* A replacement that reports success has stored its points.               *)
THEOREM SuccessSafety == Spec => SuccessIsStored
<1>1. ASSUME IInv, [Next]_vars, NEW w \in Writer, Ends(w), told[w]
      PROVE  /\ \A i \in NewIds(w) : store[i] = Writes[w]
             /\ \A i \in PreviousIds(w) \ NewIds(w) : store[i] = Absent
  <2>1. pc[w] # "done"
    BY <1>1 DEF Ends, IInv, ControlInv
  <2>2. pc[w] = "cleanup"
    BY <1>1, <2>1 DEF IInv, ControlInv
  <2>3. /\ todo[w] = {}
        /\ \A i \in NewIds(w) : store[i] = Writes[w]
        /\ \A i \in PreviousIds(w) \ (NewIds(w) \cup todo[w]) : store[i] = Absent
    BY <1>1, <2>2 DEF IInv, SeriesInv
  <2>4. QED
    BY <2>3
<1>2. ASSUME IInv, [Next]_vars
      PROVE  [\A w \in Writer : Ends(w) /\ told[w] =>
                 /\ \A i \in NewIds(w) : store[i] = Writes[w]
                 /\ \A i \in PreviousIds(w) \ NewIds(w) : store[i] = Absent]_vars
  BY <1>1, <1>2
<1>3. QED
  BY InitIInv, StepIInv, <1>2, PTL DEF Spec, SuccessIsStored


(* The journal is on the disk and as it has to be, and nobody but the      *)
(* holder of the lock has requests on their way.                           *)
THEOREM OrderSafety == Spec => []JournalIsInOrder
  BY TypeCorrect, JournalSafety, FlightSafety, PTL DEF JournalIsInOrder

(* The caller of a replacement is told which group is stored, and success  *)
(* means that it is the new one.                                           *)
THEOREM OutcomeSafety == Spec => OutcomeIsTold
  BY CommitSafety, SuccessSafety, PTL DEF OutcomeIsTold

-----------------------------------------------------------------------------
(* The lock file: FileLock, where a process is of Process, a task a Locker *)
(* that OwnerOf runs, `pc` is `locking`, and `cancelled` `abandoned`.      *)

\* The locks of descriptions whose last descriptor is closed are dropped.
LEMMA ClosedFacts ==
  ASSUME File!TypeOK, NEW p \in Process, NEW ts \in SUBSET Locker, File!Closed(p, ts)
  PROVE  /\ refs' \in [Locker -> SUBSET Process] /\ locked' \in [Locker -> BOOLEAN]
         /\ \A t \in Locker : refs'[t] = IF t \in ts THEN refs[t] \ {p} ELSE refs[t]
         /\ \A t \in Locker : locked'[t] = (locked[t] /\ refs'[t] # {})
BY DEF File!TypeOK, File!Closed

\* A task goes on, and the others are where they were.
LEMMA LockGotoFacts ==
  ASSUME File!TypeOK, NEW t \in Locker, NEW p \in File!Place, File!Goto(t, p)
  PROVE  /\ locking' \in [Locker -> File!Place] /\ locking'[t] = p
         /\ \A u \in Locker \ {t} : locking'[u] = locking[u]
BY DEF File!TypeOK, File!Goto

LEMMA LockInitIInv ==
  ASSUME File!FileLockAssumption, File!Init
  PROVE  File!IInv
<1>1. File!TypeOK
  BY DEF File!FileLockAssumption, File!Init, File!TypeOK, File!Place
<1>2. File!FlockInv /\ File!ForkInv /\ File!NothingLeftBehind
  BY DEF File!Init, File!FlockInv, File!ForkInv, File!NothingLeftBehind
<1>3. \A t \in Locker : File!CallOK(t)
  BY DEF File!Init, File!CallOK, File!Owning
<1>4. QED
  BY <1>1, <1>2, <1>3 DEF File!IInv

-----------------------------------------------------------------------------
(* The steps of a call.                                                    *)

LEMMA StepCall ==
  ASSUME File!FileLockAssumption, File!IInv, NEW t \in Locker, File!Call(t) PROVE File!IInv'
<1> USE DEF File!At, File!Runs
<1>1. File!TypeOK /\ OwnerOf[t] \in Process
  BY DEF File!IInv, File!FileLockAssumption
<1>2. File!TypeOK'
  BY <1>1 DEF File!Call, File!Goto, File!TypeOK, File!Place, File!Owning, File!forks, File!kernel,
              File!IInv, File!CallOK, File!NothingLeftBehind
<1>3. File!FlockInv'
  BY <1>1 DEF File!Call, File!IInv, File!FlockInv, File!TypeOK, File!forks, File!kernel
<1>4. File!ForkInv'
  BY <1>1 DEF File!Call, File!IInv, File!ForkInv, File!TypeOK, File!forks, File!kernel, File!CallOK,
              File!FileLockAssumption
<1>5. File!NothingLeftBehind'
  BY <1>1 DEF File!Call, File!Goto, File!IInv, File!NothingLeftBehind, File!TypeOK, File!forks,
              File!kernel, File!Owning
<1>6. \A u \in Locker : File!CallOK(u)'
  BY <1>1 DEF File!Call, File!Goto, File!IInv, File!CallOK, File!TypeOK, File!forks, File!kernel,
              File!Owning, File!FileLockAssumption
<1>7. QED
  BY <1>2, <1>3, <1>4, <1>5, <1>6 DEF File!IInv

LEMMA StepEnterOpen ==
  ASSUME File!FileLockAssumption, File!IInv, NEW t \in Locker, File!EnterOpen(t) PROVE File!IInv'
<1> USE DEF File!At, File!Runs
<1>1. File!TypeOK /\ OwnerOf[t] \in Process
  BY DEF File!IInv, File!FileLockAssumption
<1>2. File!TypeOK'
  BY <1>1 DEF File!EnterOpen, File!Goto, File!TypeOK, File!Place, File!Owning, File!forks,
              File!kernel, File!IInv, File!CallOK, File!NothingLeftBehind
<1>3. File!FlockInv'
  BY <1>1 DEF File!EnterOpen, File!IInv, File!FlockInv, File!TypeOK, File!forks, File!kernel
<1>4. File!ForkInv'
  BY <1>1 DEF File!EnterOpen, File!IInv, File!ForkInv, File!TypeOK, File!forks, File!kernel,
              File!CallOK, File!FileLockAssumption
<1>5. File!NothingLeftBehind'
  BY <1>1 DEF File!EnterOpen, File!Goto, File!IInv, File!NothingLeftBehind, File!TypeOK, File!forks,
              File!kernel, File!Owning
<1>6. \A u \in Locker : File!CallOK(u)'
  BY <1>1 DEF File!EnterOpen, File!Goto, File!IInv, File!CallOK, File!TypeOK, File!forks,
              File!kernel, File!Owning, File!FileLockAssumption
<1>7. QED
  BY <1>2, <1>3, <1>4, <1>5, <1>6 DEF File!IInv

LEMMA StepOpen ==
  ASSUME File!FileLockAssumption, File!IInv, NEW t \in Locker, File!Open(t) PROVE File!IInv'
<1> USE DEF File!At, File!Runs
<1>1. File!TypeOK /\ OwnerOf[t] \in Process
  BY DEF File!IInv, File!FileLockAssumption
<1>2. File!TypeOK'
  <2>1. /\ refs' \in [Locker -> SUBSET Process] /\ inode' \in [Locker -> 1 .. MaxInode]
        /\ locking' \in [Locker -> File!Place]
    BY <1>1 DEF File!Open, File!Goto, File!TypeOK, File!Place
  <2>2. ASSUME NEW u \in Locker, locked[u] PROVE refs'[u] # {}
    <3>1. refs[u] # {}
      BY <2>2, <1>1 DEF File!TypeOK
    <3>2. refs'[u] = refs[u] \/ refs'[u] = {OwnerOf[t]}
      BY <1>1 DEF File!Open, File!TypeOK
    <3>3. QED
      BY <3>1, <3>2
  <2>3. \A p \in Process : \A u \in opens[p] : locking'[u] \in {"open", "register"}
    BY <1>1 DEF File!Open, File!Goto, File!TypeOK
  <2>4. QED
    BY <1>1, <2>1, <2>2, <2>3 DEF File!Open, File!TypeOK, File!forks
<1>3. File!FlockInv'
  BY <1>1 DEF File!Open, File!IInv, File!FlockInv, File!TypeOK, File!forks, File!kernel
<1>4. File!ForkInv'
  BY <1>1 DEF File!Open, File!IInv, File!ForkInv, File!TypeOK, File!forks, File!kernel, File!CallOK,
              File!FileLockAssumption
<1>5. File!NothingLeftBehind'
  BY <1>1 DEF File!Open, File!Goto, File!IInv, File!NothingLeftBehind, File!TypeOK, File!forks,
              File!kernel, File!Owning
<1>6. \A u \in Locker : File!CallOK(u)'
  BY <1>1 DEF File!Open, File!Goto, File!IInv, File!CallOK, File!TypeOK, File!forks, File!kernel,
              File!Owning, File!FileLockAssumption
<1>7. QED
  BY <1>2, <1>3, <1>4, <1>5, <1>6 DEF File!IInv

LEMMA StepLeaveOpen ==
  ASSUME File!FileLockAssumption, File!IInv, NEW t \in Locker, File!LeaveOpen(t) PROVE File!IInv'
<1> USE DEF File!At, File!Runs
<1>1. File!TypeOK /\ OwnerOf[t] \in Process
  BY DEF File!IInv, File!FileLockAssumption
<1>2. File!TypeOK'
  <2>1. PICK x \in {"over", "close", "try"} : File!Goto(t, x)
    BY DEF File!LeaveOpen
  <2>2. locking' \in [Locker -> File!Place] /\ \A u \in Locker \ {t} : locking'[u] = locking[u]
    BY <1>1, <2>1, LockGotoFacts DEF File!Place, File!Owning
  <2>3. registered' \in [Process -> SUBSET Locker] /\ opens' \in [Process -> SUBSET Locker]
    BY <1>1 DEF File!LeaveOpen, File!TypeOK
  <2>4. \A p \in Process : t \notin opens'[p] /\ opens'[p] \subseteq opens[p]
    BY <1>1 DEF File!LeaveOpen, File!TypeOK, File!IInv, File!ForkInv
  <2>5. QED
    BY <1>1, <2>2, <2>3, <2>4 DEF File!LeaveOpen, File!TypeOK, File!kernel
<1>3. File!FlockInv'
  BY <1>1 DEF File!LeaveOpen, File!IInv, File!FlockInv, File!TypeOK, File!forks, File!kernel
<1>4. File!ForkInv'
  BY <1>1 DEF File!LeaveOpen, File!IInv, File!ForkInv, File!TypeOK, File!forks, File!kernel,
              File!CallOK, File!FileLockAssumption
<1>5. File!NothingLeftBehind'
  BY <1>1 DEF File!LeaveOpen, File!Goto, File!IInv, File!NothingLeftBehind, File!TypeOK, File!forks,
              File!kernel, File!Owning
<1>6. \A u \in Locker : File!CallOK(u)'
  BY <1>1 DEF File!LeaveOpen, File!Goto, File!IInv, File!CallOK, File!TypeOK, File!forks,
              File!kernel, File!Owning, File!FileLockAssumption
<1>7. QED
  BY <1>2, <1>3, <1>4, <1>5, <1>6 DEF File!IInv

LEMMA StepTry ==
  ASSUME File!FileLockAssumption, File!IInv, NEW t \in Locker, File!Try(t) PROVE File!IInv'
<1> USE DEF File!At, File!Runs
<1>1. File!TypeOK /\ OwnerOf[t] \in Process
  BY DEF File!IInv, File!FileLockAssumption
<1>2. File!TypeOK'
  <2>1. PICK x \in File!Owning : File!Goto(t, x)
    BY DEF File!Try, File!Owning
  <2>2. locking' \in [Locker -> File!Place] /\ \A u \in Locker \ {t} : locking'[u] = locking[u]
    BY <1>1, <2>1, LockGotoFacts DEF File!Place
  <2>3. refs[t] # {}
    BY <1>1 DEF File!Try, File!IInv, File!CallOK, File!Owning
  <2>4. /\ locked' \in [Locker -> BOOLEAN] /\ acquired' \in [Locker -> BOOLEAN]
        /\ \A u \in Locker \ {t} : locked'[u] = locked[u]
    BY <1>1 DEF File!Try, File!TypeOK
  <2>5. \A p \in Process : t \notin opens[p]
    BY <1>1 DEF File!Try, File!TypeOK
  <2>6. QED
    BY <1>1, <2>2, <2>3, <2>4, <2>5 DEF File!Try, File!TypeOK, File!forks
<1>3. File!FlockInv'
  BY <1>1 DEF File!Try, File!IInv, File!FlockInv, File!TypeOK, File!forks, File!kernel, File!Blocked
<1>4. File!ForkInv'
  BY <1>1 DEF File!Try, File!IInv, File!ForkInv, File!TypeOK, File!forks, File!kernel, File!CallOK,
              File!FileLockAssumption
<1>5. File!NothingLeftBehind'
  BY <1>1 DEF File!Try, File!Goto, File!IInv, File!NothingLeftBehind, File!TypeOK, File!forks,
              File!kernel, File!Owning
<1>6. \A u \in Locker : File!CallOK(u)'
  BY <1>1 DEF File!Try, File!Goto, File!IInv, File!CallOK, File!TypeOK, File!forks, File!kernel,
              File!Owning, File!FileLockAssumption
<1>7. QED
  BY <1>2, <1>3, <1>4, <1>5, <1>6 DEF File!IInv

LEMMA StepTimeout ==
  ASSUME File!FileLockAssumption, File!IInv, NEW t \in Locker, File!Timeout(t) PROVE File!IInv'
<1> USE DEF File!At, File!Runs
<1>1. File!TypeOK /\ OwnerOf[t] \in Process
  BY DEF File!IInv, File!FileLockAssumption
<1>2. File!TypeOK'
  BY <1>1 DEF File!Timeout, File!Goto, File!TypeOK, File!Place, File!Owning, File!forks, File!kernel,
              File!IInv, File!CallOK, File!NothingLeftBehind
<1>3. File!FlockInv'
  BY <1>1 DEF File!Timeout, File!IInv, File!FlockInv, File!TypeOK, File!forks, File!kernel
<1>4. File!ForkInv'
  BY <1>1 DEF File!Timeout, File!IInv, File!ForkInv, File!TypeOK, File!forks, File!kernel,
              File!CallOK, File!FileLockAssumption
<1>5. File!NothingLeftBehind'
  BY <1>1 DEF File!Timeout, File!Goto, File!IInv, File!NothingLeftBehind, File!TypeOK, File!forks,
              File!kernel, File!Owning
<1>6. \A u \in Locker : File!CallOK(u)'
  BY <1>1 DEF File!Timeout, File!Goto, File!IInv, File!CallOK, File!TypeOK, File!forks, File!kernel,
              File!Owning, File!FileLockAssumption
<1>7. QED
  BY <1>2, <1>3, <1>4, <1>5, <1>6 DEF File!IInv

LEMMA StepWake ==
  ASSUME File!FileLockAssumption, File!IInv, NEW t \in Locker, File!Wake(t) PROVE File!IInv'
<1> USE DEF File!At, File!Runs
<1>1. File!TypeOK /\ OwnerOf[t] \in Process
  BY DEF File!IInv, File!FileLockAssumption
<1>2. File!TypeOK'
  BY <1>1 DEF File!Wake, File!Goto, File!TypeOK, File!Place, File!Owning, File!forks, File!kernel,
              File!IInv, File!CallOK, File!NothingLeftBehind
<1>3. File!FlockInv'
  BY <1>1 DEF File!Wake, File!IInv, File!FlockInv, File!TypeOK, File!forks, File!kernel
<1>4. File!ForkInv'
  BY <1>1 DEF File!Wake, File!IInv, File!ForkInv, File!TypeOK, File!forks, File!kernel, File!CallOK,
              File!FileLockAssumption
<1>5. File!NothingLeftBehind'
  BY <1>1 DEF File!Wake, File!Goto, File!IInv, File!NothingLeftBehind, File!TypeOK, File!forks,
              File!kernel, File!Owning
<1>6. \A u \in Locker : File!CallOK(u)'
  BY <1>1 DEF File!Wake, File!Goto, File!IInv, File!CallOK, File!TypeOK, File!forks, File!kernel,
              File!Owning, File!FileLockAssumption
<1>7. QED
  BY <1>2, <1>3, <1>4, <1>5, <1>6 DEF File!IInv

LEMMA StepLeave ==
  ASSUME File!FileLockAssumption, File!IInv, NEW t \in Locker, File!Leave(t) PROVE File!IInv'
<1> USE DEF File!At, File!Runs
<1>1. File!TypeOK /\ OwnerOf[t] \in Process
  BY DEF File!IInv, File!FileLockAssumption
<1>2. File!TypeOK'
  BY <1>1 DEF File!Leave, File!Goto, File!TypeOK, File!Place, File!Owning, File!forks, File!kernel,
              File!IInv, File!CallOK, File!NothingLeftBehind
<1>3. File!FlockInv'
  BY <1>1 DEF File!Leave, File!IInv, File!FlockInv, File!TypeOK, File!forks, File!kernel
<1>4. File!ForkInv'
  BY <1>1 DEF File!Leave, File!IInv, File!ForkInv, File!TypeOK, File!forks, File!kernel, File!CallOK,
              File!FileLockAssumption
<1>5. File!NothingLeftBehind'
  BY <1>1 DEF File!Leave, File!Goto, File!IInv, File!NothingLeftBehind, File!TypeOK, File!forks,
              File!kernel, File!Owning
<1>6. \A u \in Locker : File!CallOK(u)'
  BY <1>1 DEF File!Leave, File!Goto, File!IInv, File!CallOK, File!TypeOK, File!forks, File!kernel,
              File!Owning, File!FileLockAssumption
<1>7. QED
  BY <1>2, <1>3, <1>4, <1>5, <1>6 DEF File!IInv

LEMMA StepCancel ==
  ASSUME File!FileLockAssumption, File!IInv, NEW t \in Locker, File!Cancel(t) PROVE File!IInv'
<1> USE DEF File!At, File!Runs
<1>1. File!TypeOK /\ OwnerOf[t] \in Process
  BY DEF File!IInv, File!FileLockAssumption
<1>2. File!TypeOK'
  <2>1. CASE locking[t] \in {"sleep", "hold"}
    BY <1>1, <2>1 DEF File!Cancel, File!Goto, File!TypeOK, File!Place, File!Owning, File!forks,
                      File!kernel
  <2>2. CASE locking[t] \notin {"sleep", "hold"}
    BY <1>1, <2>2 DEF File!Cancel, File!TypeOK, File!forks, File!kernel
  <2>3. QED
    BY <2>1, <2>2
<1>3. File!FlockInv'
  BY <1>1 DEF File!Cancel, File!IInv, File!FlockInv, File!TypeOK, File!forks, File!kernel
<1>4. File!ForkInv'
  BY <1>1 DEF File!Cancel, File!IInv, File!ForkInv, File!TypeOK, File!forks, File!kernel,
              File!CallOK, File!FileLockAssumption
<1>5. File!NothingLeftBehind'
  BY <1>1 DEF File!Cancel, File!Goto, File!IInv, File!NothingLeftBehind, File!TypeOK, File!forks,
              File!kernel, File!Owning
<1>6. \A u \in Locker : File!CallOK(u)'
  BY <1>1 DEF File!Cancel, File!Goto, File!IInv, File!CallOK, File!TypeOK, File!forks, File!kernel,
              File!Owning, File!FileLockAssumption
<1>7. QED
  BY <1>2, <1>3, <1>4, <1>5, <1>6 DEF File!IInv

LEMMA StepClose ==
  ASSUME File!FileLockAssumption, File!IInv, NEW t \in Locker, File!Close(t) PROVE File!IInv'
<1> USE DEF File!At, File!Runs
<1>1. File!TypeOK /\ OwnerOf[t] \in Process
  BY DEF File!IInv, File!FileLockAssumption
<1>0. /\ locked' \in [Locker -> BOOLEAN]
      /\ locked' = [u \in Locker |-> IF u = t THEN FALSE ELSE locked[u]]
  <2>1. locked[t] => acquired[t]
    BY <1>1 DEF File!Close, File!IInv, File!CallOK
  <2>2. QED
    BY <1>1, <2>1 DEF File!Close, File!TypeOK
<1>2. File!TypeOK'
  <2>1. locking' \in [Locker -> File!Place] /\ \A u \in Locker \ {t} : locking'[u] = locking[u]
    BY <1>1, LockGotoFacts DEF File!Close, File!Place
  <2>2. /\ refs' \in [Locker -> SUBSET Process] /\ registered' \in [Process -> SUBSET Locker]
        /\ \A u \in Locker \ {t} : refs'[u] = refs[u]
    BY <1>1 DEF File!Close, File!TypeOK
  <2>3. locked' \in [Locker -> BOOLEAN] /\ \A u \in Locker : locked'[u] => refs'[u] # {}
    BY <1>1, <1>0, <2>2 DEF File!TypeOK
  <2>4. \A p \in Process : t \notin opens[p]
    BY <1>1 DEF File!Close, File!TypeOK
  <2>5. QED
    BY <1>1, <2>1, <2>2, <2>3, <2>4 DEF File!Close, File!TypeOK
<1>3. File!FlockInv'
  BY <1>1 DEF File!Close, File!IInv, File!FlockInv, File!TypeOK, File!forks, File!kernel
<1>4. File!ForkInv'
  BY <1>1 DEF File!Close, File!IInv, File!ForkInv, File!TypeOK, File!forks, File!kernel, File!CallOK,
              File!FileLockAssumption
<1>5. File!NothingLeftBehind'
  BY <1>1 DEF File!Close, File!Goto, File!IInv, File!NothingLeftBehind, File!TypeOK, File!forks,
              File!kernel, File!Owning
<1>6. \A u \in Locker : File!CallOK(u)'
  <2> SUFFICES ASSUME NEW u \in Locker PROVE File!CallOK(u)'
    OBVIOUS
  <2>1. File!CallOK(u)
    BY DEF File!IInv
  <2>2. CASE u = t
    <3>1. locking'[t] = "over" /\ ~locked'[t] /\ life' = life /\ opens' = opens
      BY <1>0, <1>1, LockGotoFacts DEF File!Close, File!Place
    <3>2. QED
      BY <2>2, <3>1 DEF File!Close, File!CallOK, File!Owning
  <2>3. CASE u # t
    <3>1. locking'[u] = locking[u] /\ locked'[u] = locked[u] /\ refs'[u] = refs[u]
      BY <1>0, <1>1, <2>3 DEF File!Close, File!Goto, File!TypeOK
    <3>2. QED
      BY <2>1, <3>1 DEF File!Close, File!CallOK
  <2>4. QED
    BY <2>2, <2>3
<1>7. QED
  BY <1>2, <1>3, <1>4, <1>5, <1>6 DEF File!IInv

LEMMA StepReturn ==
  ASSUME File!FileLockAssumption, File!IInv, NEW t \in Locker, File!Return(t) PROVE File!IInv'
<1> USE DEF File!At, File!Runs
<1>1. File!TypeOK /\ OwnerOf[t] \in Process
  BY DEF File!IInv, File!FileLockAssumption
<1>2. File!TypeOK'
  BY <1>1 DEF File!Return, File!Goto, File!TypeOK, File!Place, File!Owning, File!forks, File!kernel,
              File!IInv, File!CallOK, File!NothingLeftBehind
<1>3. File!FlockInv'
  BY <1>1 DEF File!Return, File!IInv, File!FlockInv, File!TypeOK, File!forks, File!kernel
<1>4. File!ForkInv'
  BY <1>1 DEF File!Return, File!IInv, File!ForkInv, File!TypeOK, File!forks, File!kernel,
              File!CallOK, File!FileLockAssumption
<1>5. File!NothingLeftBehind'
  BY <1>1 DEF File!Return, File!Goto, File!IInv, File!NothingLeftBehind, File!TypeOK, File!forks,
              File!kernel, File!Owning
<1>6. \A u \in Locker : File!CallOK(u)'
  BY <1>1 DEF File!Return, File!Goto, File!IInv, File!CallOK, File!TypeOK, File!forks, File!kernel,
              File!Owning, File!FileLockAssumption
<1>7. QED
  BY <1>2, <1>3, <1>4, <1>5, <1>6 DEF File!IInv

-----------------------------------------------------------------------------
(* The steps of a process.                                                 *)

LEMMA StepBeforeFork ==
  ASSUME File!FileLockAssumption, File!IInv, NEW p \in Process, File!BeforeFork(p) PROVE File!IInv'
<1>1. File!TypeOK
  BY DEF File!IInv
<1>2. File!TypeOK'
  BY <1>1, ClosedFacts DEF File!BeforeFork, File!TypeOK, File!kernel
<1>3. File!FlockInv'
  BY <1>1, ClosedFacts DEF File!BeforeFork, File!IInv, File!FlockInv, File!TypeOK, File!kernel
<1>4. File!ForkInv'
  BY <1>1, ClosedFacts DEF File!BeforeFork, File!IInv, File!ForkInv, File!NothingLeftBehind,
                           File!TypeOK, File!kernel, File!FileLockAssumption, File!Runs
<1>5. File!NothingLeftBehind'
  BY <1>1, ClosedFacts DEF File!BeforeFork, File!IInv, File!ForkInv, File!NothingLeftBehind,
                           File!TypeOK, File!kernel, File!CallOK, File!FileLockAssumption
<1>6. \A u \in Locker : File!CallOK(u)'
  BY <1>1, ClosedFacts DEF File!BeforeFork, File!IInv, File!CallOK, File!ForkInv, File!TypeOK,
                           File!kernel, File!FileLockAssumption, File!Runs
<1>7. QED
  BY <1>2, <1>3, <1>4, <1>5, <1>6 DEF File!IInv

LEMMA StepOpensDone ==
  ASSUME File!FileLockAssumption, File!IInv, NEW p \in Process, File!OpensDone(p) PROVE File!IInv'
<1>1. File!TypeOK
  BY DEF File!IInv
<1>2. File!TypeOK'
  BY <1>1, ClosedFacts DEF File!OpensDone, File!TypeOK, File!kernel
<1>3. File!FlockInv'
  BY <1>1, ClosedFacts DEF File!OpensDone, File!IInv, File!FlockInv, File!TypeOK, File!kernel
<1>4. File!ForkInv'
  BY <1>1, ClosedFacts DEF File!OpensDone, File!IInv, File!ForkInv, File!NothingLeftBehind,
                           File!TypeOK, File!kernel, File!FileLockAssumption, File!Runs
<1>5. File!NothingLeftBehind'
  BY <1>1, ClosedFacts DEF File!OpensDone, File!IInv, File!ForkInv, File!NothingLeftBehind,
                           File!TypeOK, File!kernel, File!CallOK, File!FileLockAssumption
<1>6. \A u \in Locker : File!CallOK(u)'
  BY <1>1, ClosedFacts DEF File!OpensDone, File!IInv, File!CallOK, File!ForkInv, File!TypeOK,
                           File!kernel, File!FileLockAssumption, File!Runs
<1>7. QED
  BY <1>2, <1>3, <1>4, <1>5, <1>6 DEF File!IInv

LEMMA StepForkFails ==
  ASSUME File!FileLockAssumption, File!IInv, NEW p \in Process, File!ForkFails(p) PROVE File!IInv'
<1>1. File!TypeOK
  BY DEF File!IInv
<1>2. File!TypeOK'
  BY <1>1, ClosedFacts DEF File!ForkFails, File!TypeOK, File!kernel
<1>3. File!FlockInv'
  BY <1>1, ClosedFacts DEF File!ForkFails, File!IInv, File!FlockInv, File!TypeOK, File!kernel
<1>4. File!ForkInv'
  BY <1>1, ClosedFacts DEF File!ForkFails, File!IInv, File!ForkInv, File!NothingLeftBehind,
                           File!TypeOK, File!kernel, File!FileLockAssumption, File!Runs
<1>5. File!NothingLeftBehind'
  BY <1>1, ClosedFacts DEF File!ForkFails, File!IInv, File!ForkInv, File!NothingLeftBehind,
                           File!TypeOK, File!kernel, File!CallOK, File!FileLockAssumption
<1>6. \A u \in Locker : File!CallOK(u)'
  BY <1>1, ClosedFacts DEF File!ForkFails, File!IInv, File!CallOK, File!ForkInv, File!TypeOK,
                           File!kernel, File!FileLockAssumption, File!Runs
<1>7. QED
  BY <1>2, <1>3, <1>4, <1>5, <1>6 DEF File!IInv

LEMMA StepAfterForkChild ==
  ASSUME File!FileLockAssumption, File!IInv, NEW p \in Process, File!AfterForkChild(p) PROVE File!IInv'
<1>1. File!TypeOK
  BY DEF File!IInv
<1>0. /\ life[p] = "booting" /\ life'[p] = "alive" /\ \A q \in Process \ {p} : life'[q] = life[q]
      /\ registered'[p] = {} /\ \A q \in Process \ {p} : registered'[q] = registered[q]
      /\ \A t \in Locker : /\ refs'[t] = IF t \in registered[p] THEN refs[t] \ {p} ELSE refs[t]
                         /\ locked'[t] = (locked[t] /\ refs'[t] # {})
      /\ UNCHANGED <<fork, opens, locking, acquired>>
  <2>1. registered[p] \in SUBSET Locker
    BY <1>1 DEF File!TypeOK
  <2>2. \A t \in Locker : /\ refs'[t] = IF t \in registered[p] THEN refs[t] \ {p} ELSE refs[t]
                       /\ locked'[t] = (locked[t] /\ refs'[t] # {})
    <3>1. File!Closed(p, registered[p])
      BY DEF File!AfterForkChild
    <3>2. QED
      BY <1>1, <2>1, <3>1 DEF File!Closed, File!TypeOK
  <2>3. life[p] = "booting" /\ life'[p] = "alive" /\ \A q \in Process \ {p} : life'[q] = life[q]
    BY <1>1 DEF File!AfterForkChild, File!TypeOK
  <2>4. registered'[p] = {} /\ \A q \in Process \ {p} : registered'[q] = registered[q]
    BY <1>1 DEF File!AfterForkChild, File!TypeOK
  <2>5. QED
    <3>1. UNCHANGED <<fork, opens, locking, acquired>>
      BY DEF File!AfterForkChild
    <3>2. QED
      BY <2>2, <2>3, <2>4, <3>1
<1>9. \A t \in Locker : p \notin refs'[t]
  <2> SUFFICES ASSUME NEW t \in Locker, p \in refs[t] PROVE t \in registered[p]
    BY <1>0
  <2>1. p # OwnerOf[t]
    BY <1>0 DEF File!IInv, File!CallOK
  <2>2. QED
    BY <2>1 DEF File!IInv, File!ForkInv
<1>2. File!TypeOK'
  BY <1>1, ClosedFacts DEF File!AfterForkChild, File!TypeOK, File!kernel
<1>3. File!FlockInv'
  BY <1>1, ClosedFacts DEF File!AfterForkChild, File!IInv, File!FlockInv, File!TypeOK, File!kernel
<1>4. File!ForkInv'
  <2>1. \A q \in Process :
          /\ fork'[q] = "forking" => opens'[q] = {}
          /\ \A t \in opens'[q] : OwnerOf[t] = q
    BY <1>0 DEF File!IInv, File!ForkInv
  <2>2. ASSUME NEW t \in Locker, NEW q \in Process, q \in refs'[t]
        PROVE  IF q = OwnerOf[t] THEN File!Runs(t)' /\ t \in opens'[q] \cup registered'[q]
               ELSE t \in registered'[q]
    <3>1. q # p /\ q \in refs[t]
      BY <1>0, <1>9, <2>2
    <3>2. IF q = OwnerOf[t] THEN File!Runs(t) /\ t \in opens[q] \cup registered[q]
          ELSE t \in registered[q]
      BY <3>1 DEF File!IInv, File!ForkInv
    <3>3. QED
      BY <1>0, <3>1, <3>2 DEF File!Runs
  <2>3. QED
    BY <2>1, <2>2 DEF File!ForkInv
<1>5. File!NothingLeftBehind'
  <2> SUFFICES ASSUME NEW t \in Locker, NEW q \in Process, q \in refs'[t]
               PROVE  IF q = OwnerOf[t] THEN locking'[t] \in {"register"} \cup File!Owning
                      ELSE life'[q] = "booting"
    BY DEF File!NothingLeftBehind
  <2>1. q # p /\ q \in refs[t]
    BY <1>0, <1>9
  <2>2. QED
    BY <1>0, <2>1 DEF File!IInv, File!NothingLeftBehind
<1>6. \A u \in Locker : File!CallOK(u)'
  <2> SUFFICES ASSUME NEW u \in Locker PROVE File!CallOK(u)'
    OBVIOUS
  <2>1. File!CallOK(u) /\ OwnerOf[u] \in Process
    BY DEF File!IInv, File!FileLockAssumption
  <2>2. CASE OwnerOf[u] = p
    <3>1. locking[u] = "idle" /\ refs[u] = {} /\ ~locked[u]
      BY <1>0, <1>1, <2>1, <2>2 DEF File!CallOK, File!TypeOK
    <3>2. QED
      BY <1>0, <2>2, <3>1 DEF File!CallOK, File!Owning
  <2>3. CASE OwnerOf[u] # p
    <3>1. life'[OwnerOf[u]] = life[OwnerOf[u]] /\ refs'[u] \subseteq refs[u]
      BY <1>0, <2>1, <2>3
    <3>2. OwnerOf[u] \in refs[u] => OwnerOf[u] \in refs'[u]
      BY <1>0, <2>3
    <3>3. File!Runs(u) /\ locking[u] = "hold" => locked'[u]
      BY <1>0, <2>1, <3>2 DEF File!CallOK, File!Owning
    <3>4. File!Runs(u)' <=> File!Runs(u)
      BY <3>1 DEF File!Runs
    <3>5. QED
      BY <1>0, <2>1, <3>1, <3>2, <3>3, <3>4 DEF File!CallOK
  <2>4. QED
    BY <2>2, <2>3
<1>7. QED
  BY <1>2, <1>3, <1>4, <1>5, <1>6 DEF File!IInv

LEMMA StepDie ==
  ASSUME File!FileLockAssumption, File!IInv, NEW p \in Process, File!Die(p) PROVE File!IInv'
<1>1. File!TypeOK
  BY DEF File!IInv
<1>0. /\ life'[p] = "dead" /\ \A q \in Process \ {p} : life'[q] = life[q]
      /\ registered'[p] = {} /\ \A q \in Process \ {p} : registered'[q] = registered[q]
      /\ opens'[p] = {} /\ \A q \in Process \ {p} : opens'[q] = opens[q]
      /\ fork'[p] = "no" /\ \A q \in Process \ {p} : fork'[q] = fork[q]
      /\ \A t \in Locker : /\ refs'[t] = refs[t] \ {p}
                         /\ locked'[t] = (locked[t] /\ refs'[t] # {})
      /\ UNCHANGED <<locking, acquired>>
  <2>1. \A t \in Locker : /\ refs'[t] = refs[t] \ {p}
                       /\ locked'[t] = (locked[t] /\ refs'[t] # {})
    BY <1>1, ClosedFacts DEF File!Die
  <2>2. life'[p] = "dead" /\ \A q \in Process \ {p} : life'[q] = life[q]
    BY <1>1 DEF File!Die, File!TypeOK
  <2>3. /\ registered'[p] = {} /\ \A q \in Process \ {p} : registered'[q] = registered[q]
        /\ opens'[p] = {} /\ \A q \in Process \ {p} : opens'[q] = opens[q]
    BY <1>1 DEF File!Die, File!TypeOK
  <2>4. fork'[p] = "no" /\ \A q \in Process \ {p} : fork'[q] = fork[q]
    BY <1>1 DEF File!Die, File!TypeOK
  <2>5. QED
    <3>1. UNCHANGED <<locking, acquired>>
      BY DEF File!Die
    <3>2. QED
      BY <2>1, <2>2, <2>3, <2>4, <3>1
<1>2. File!TypeOK'
  BY <1>1, ClosedFacts DEF File!Die, File!TypeOK, File!kernel
<1>3. File!FlockInv'
  BY <1>1, ClosedFacts DEF File!Die, File!IInv, File!FlockInv, File!TypeOK, File!kernel
<1>4. File!ForkInv'
  BY <1>0, <1>1 DEF File!IInv, File!ForkInv, File!FileLockAssumption, File!Runs
<1>5. File!NothingLeftBehind'
  BY <1>0, <1>1 DEF File!IInv, File!NothingLeftBehind
<1>6. \A u \in Locker : File!CallOK(u)'
  <2> SUFFICES ASSUME NEW u \in Locker PROVE File!CallOK(u)'
    OBVIOUS
  <2>1. File!CallOK(u) /\ OwnerOf[u] \in Process
    BY DEF File!IInv, File!FileLockAssumption
  <2>2. CASE OwnerOf[u] = p
    BY <1>0, <2>2 DEF File!CallOK, File!Runs
  <2>3. CASE OwnerOf[u] # p
    <3>1. life'[OwnerOf[u]] = life[OwnerOf[u]] /\ refs'[u] \subseteq refs[u]
      BY <1>0, <2>1, <2>3
    <3>2. OwnerOf[u] \in refs[u] => OwnerOf[u] \in refs'[u]
      BY <1>0, <2>3
    <3>3. File!Runs(u) /\ locking[u] = "hold" => locked'[u]
      BY <1>0, <2>1, <3>2 DEF File!CallOK, File!Owning
    <3>4. (File!Runs(u)' <=> File!Runs(u)) /\ opens'[OwnerOf[u]] = opens[OwnerOf[u]]
      BY <1>0, <2>1, <2>3, <3>1 DEF File!Runs
    <3>5. QED
      BY <1>0, <2>1, <3>1, <3>2, <3>3, <3>4 DEF File!CallOK
  <2>4. QED
    BY <2>2, <2>3
<1>7. QED
  BY <1>2, <1>3, <1>4, <1>5, <1>6 DEF File!IInv

LEMMA StepFork ==
  ASSUME File!FileLockAssumption, File!IInv, NEW p \in Process, NEW q \in Process, File!Fork(p, q)
  PROVE  File!IInv'
<1>1. File!TypeOK
  BY DEF File!IInv
<1>2. File!TypeOK'
  BY <1>1 DEF File!Fork, File!TypeOK, File!kernel
<1>3. File!FlockInv'
  BY <1>1 DEF File!Fork, File!IInv, File!FlockInv, File!TypeOK, File!kernel
<1>4. File!ForkInv'
  BY <1>1 DEF File!Fork, File!IInv, File!ForkInv, File!TypeOK, File!NothingLeftBehind, File!CallOK,
              File!kernel, File!FileLockAssumption, File!Runs
<1>5. File!NothingLeftBehind'
  BY <1>1 DEF File!Fork, File!IInv, File!ForkInv, File!NothingLeftBehind, File!TypeOK, File!kernel,
              File!CallOK, File!FileLockAssumption
<1>6. \A u \in Locker : File!CallOK(u)'
  BY <1>1 DEF File!Fork, File!IInv, File!CallOK, File!NothingLeftBehind, File!TypeOK, File!kernel,
              File!FileLockAssumption, File!Runs
<1>7. QED
  BY <1>2, <1>3, <1>4, <1>5, <1>6 DEF File!IInv

-----------------------------------------------------------------------------
(* The invariant is inductive.                                             *)
LEMMA LockStepIInv ==
  ASSUME File!FileLockAssumption, File!IInv, [File!Next]_File!vars
  PROVE  File!IInv'
<1>1. ASSUME NEW t \in Locker, File!Call(t) \/ File!Step(t) \/ File!Cancel(t) PROVE File!IInv'
  BY <1>1, StepCall, StepEnterOpen, StepOpen, StepLeaveOpen, StepTry, StepTimeout, StepWake,
     StepLeave, StepClose, StepReturn, StepCancel DEF File!Step
<1>2. ASSUME NEW p \in Process,
             \/ File!BeforeFork(p) \/ File!OpensDone(p) \/ File!ForkFails(p)
             \/ File!AfterForkChild(p) \/ File!Die(p)
      PROVE  File!IInv'
  BY <1>2, StepBeforeFork, StepOpensDone, StepForkFails, StepAfterForkChild, StepDie
<1>3. ASSUME NEW p \in Process, NEW q \in Process, File!Fork(p, q) PROVE File!IInv'
  BY <1>3, StepFork
<1>4. CASE File!Sweep \/ UNCHANGED File!vars
  BY <1>4 DEF File!Sweep, File!vars, File!forks, File!kernel, File!IInv, File!TypeOK, File!FlockInv,
              File!ForkInv, File!NothingLeftBehind,
              File!CallOK, File!Runs
<1>5. QED
  BY <1>1, <1>2, <1>3, <1>4 DEF File!Next

THEOREM LocksInductive ==
  ASSUME File!FileLockAssumption
  PROVE  File!Spec => []File!IInv
<1>1. File!Init => File!IInv
  BY LockInitIInv
<1>2. File!IInv /\ [File!Next]_File!vars => File!IInv'
  BY LockStepIInv
<1>3. QED
  BY <1>1, <1>2, PTL DEF File!Spec

-----------------------------------------------------------------------------
(* Locks exclude each other as flock says, for any number of processes and *)
(* tasks that fork, die and are abandoned anywhere; and a call that is     *)
(* over keeps no descriptor and no lock, not even through a child.         *)
THEOREM LockSafety ==
  ASSUME File!FileLockAssumption
  PROVE  File!Spec => []FileLocksHold
<1>1. File!IInv => FileLocksHold
  <2> SUFFICES ASSUME File!IInv PROVE FileLocksHold
    OBVIOUS
  <2>1. File!Exclusion
    BY DEF File!IInv, File!FlockInv, File!CallOK, File!Exclusion, File!At
  <2>2. File!ReleasedAtOnce
    BY DEF File!IInv, File!CallOK, File!ReleasedAtOnce
  <2>3. QED
    BY <2>1, <2>2 DEF File!IInv, File!FileLocksHold, FileLocksHold
<1>2. QED
  BY <1>1, LocksInductive, PTL

(* A lock is kept until its call closes it or its process is gone: no      *)
(* child that closes its duplicates, dies or forks takes it away.          *)
THEOREM LocksAreKept ==
  ASSUME File!FileLockAssumption
  PROVE  File!Spec =>
           [][\A t \in Locker : locked[t] /\ ~locked'[t] /\ File!Runs(t) =>
                File!At(t, "close") \/ ~File!Runs(t)']_File!vars
<1> DEFINE Kept == \A t \in Locker : locked[t] /\ ~locked'[t] /\ File!Runs(t) =>
                     File!At(t, "close") \/ ~File!Runs(t)'
<1>1. File!IInv /\ File!IInv' /\ [File!Next]_File!vars => [Kept]_File!vars
  <2> SUFFICES ASSUME File!IInv, File!Next, NEW t \in Locker, locked[t], File!Runs(t), File!Runs(t)',
                      locking[t] # "close"
               PROVE  locked'[t]
    BY DEF File!At
  <2>1. /\ File!TypeOK /\ OwnerOf[t] \in Process
        /\ locking[t] = "hold" /\ OwnerOf[t] \in refs[t] /\ life[OwnerOf[t]] = "alive"
    BY DEF File!IInv, File!CallOK, File!FileLockAssumption, File!Owning, File!Runs
  <2>2. ASSUME NEW u \in Locker, File!Try(u) PROVE locked'[t]
    BY <2>1, <2>2 DEF File!Try, File!TypeOK
  <2>3. ASSUME NEW u \in Locker, File!Close(u) PROVE locked'[t]
    BY <2>1, <2>3 DEF File!Close, File!At, File!TypeOK
  <2>4. ASSUME NEW p \in Process, File!AfterForkChild(p) PROVE locked'[t]
    <3>1. registered[p] \in SUBSET Locker /\ OwnerOf[t] # p
      BY <2>1, <2>4 DEF File!AfterForkChild, File!TypeOK
    <3>2. File!Closed(p, registered[p])
      BY <2>4 DEF File!AfterForkChild
    <3>3. OwnerOf[t] \in refs'[t] /\ (locked'[t] = (locked[t] /\ refs'[t] # {}))
      BY <2>1, <3>1, <3>2 DEF File!Closed, File!TypeOK
    <3>4. QED
      BY <3>3
  <2>5. ASSUME NEW p \in Process, File!Die(p) PROVE locked'[t]
    <3>1. OwnerOf[t] # p
      BY <2>1, <2>5 DEF File!Die, File!Runs, File!TypeOK
    <3>2. File!Closed(p, Locker)
      BY <2>5 DEF File!Die
    <3>3. OwnerOf[t] \in refs'[t] /\ (locked'[t] = (locked[t] /\ refs'[t] # {}))
      BY <2>1, <3>1, <3>2 DEF File!Closed, File!TypeOK
    <3>4. QED
      BY <3>3
  <2>6. CASE UNCHANGED locked
    BY <2>6
  <2>7. QED
    BY <2>2, <2>3, <2>4, <2>5, <2>6
       DEF File!Next, File!Step, File!Call, File!EnterOpen, File!Open, File!LeaveOpen, File!Timeout,
           File!Wake, File!Leave, File!Return, File!Cancel,
           File!BeforeFork, File!OpensDone, File!ForkFails, File!Fork, File!Sweep, File!kernel
<1>2. QED
  BY <1>1, LocksInductive, PTL DEF File!Spec

-----------------------------------------------------------------------------
(* The client of the storage: QdrantClient, where None is called NoClient  *)
(* and `faults` `failedChecks`.                                            *)
TaskPlaces == {"idle", "checking", "closing", "using", "shutting"}
IdleTask == [at |-> "idle", with |-> NoClient]

\* A task is at another place, with a client that was made by then.
LEMMA GotoFacts ==
  ASSUME Storage!TypeOK, NEW t \in Task, NEW m, \A n : n \in 1 .. made => n \in 1 .. m,
         NEW at \in TaskPlaces, NEW c \in 1 .. m \cup {NoClient}, Storage!Goto(t, at, c)
  PROVE  /\ task' \in [Task -> [at : TaskPlaces, with : 1 .. m \cup {NoClient}]]
         /\ task'[t] = [at |-> at, with |-> c] /\ \A u \in Task \ {t} : task'[u] = task[u]
BY DEF Storage!TypeOK, Storage!Goto, TaskPlaces

\* A task makes a client.
LEMMA NewClientStep ==
  ASSUME Storage!ClientAssumption, Storage!TypeOK, NEW t \in Task, NEW at \in TaskPlaces,
         Storage!NewClient, open' = open \cup {made + 1}, UNCHANGED botched,
         healthy' = FALSE, due' = TRUE,
         overlapped' \in BOOLEAN, shut' \in BOOLEAN, Storage!Goto(t, at, made + 1)
  PROVE  /\ Storage!TypeOK' /\ made' > 0 /\ client' = made + 1 /\ client' # NoClient
         /\ task'[t] = [at |-> at, with |-> client'] /\ \A u \in Task \ {t} : task'[u] = task[u]
<1>1. made \in Nat /\ made < Clients /\ made' = made + 1 /\ client' = made + 1
  BY DEF Storage!TypeOK, Storage!NewClient, Storage!ClientAssumption
<1>2. /\ made' \in 0 .. Clients /\ client' \in 1 .. made' /\ client' # NoClient
      /\ open' \subseteq 1 .. made' /\ botched' \subseteq 1 .. made'
  BY <1>1 DEF Storage!TypeOK, Storage!ClientAssumption
<1>3. /\ task' \in [Task -> [at : TaskPlaces, with : 1 .. made' \cup {NoClient}]]
      /\ task'[t] = [at |-> at, with |-> made + 1] /\ \A u \in Task \ {t} : task'[u] = task[u]
  <2>1. made + 1 \in 1 .. made' \cup {NoClient} /\ \A n : n \in 1 .. made => n \in 1 .. made'
    BY <1>1
  <2>2. QED
    BY <2>1, GotoFacts
<1>4. healthy' \in BOOLEAN /\ ~healthy' /\ due' \in BOOLEAN
  OBVIOUS
<1>5. Storage!TypeOK'
  BY <1>2, <1>3, <1>4 DEF Storage!TypeOK, TaskPlaces
<1>6. QED
  BY <1>1, <1>2, <1>3, <1>5

\* A task goes on with the client that there is, or with none.
LEMMA OldClientStep ==
  ASSUME Storage!TypeOK, NEW t \in Task, NEW at \in TaskPlaces, NEW c \in {client, NoClient},
         UNCHANGED made, open' \subseteq open, botched' \subseteq 1 .. made,
         healthy' \in BOOLEAN, due' \in BOOLEAN, client' \in {client, NoClient},
         overlapped' \in BOOLEAN, shut' \in BOOLEAN, Storage!Goto(t, at, c)
  PROVE  /\ Storage!TypeOK' /\ task'[t] = [at |-> at, with |-> c]
         /\ \A u \in Task \ {t} : task'[u] = task[u]
<1>1. c \in 1 .. made \cup {NoClient}
  BY DEF Storage!TypeOK
<1>2. /\ task' \in [Task -> [at : TaskPlaces, with : 1 .. made \cup {NoClient}]]
      /\ task'[t] = [at |-> at, with |-> c] /\ \A u \in Task \ {t} : task'[u] = task[u]
  BY <1>1, GotoFacts
<1>3. QED
  BY <1>2 DEF Storage!TypeOK, TaskPlaces

\* When a call begins and none has overlapped, no other one is under way.
LEMMA BeginsAlone ==
  ASSUME Storage!TypeOK, NEW t \in Task, Storage!Begins(t)
  PROVE  /\ task[t] = IdleTask /\ overlapped' \in BOOLEAN /\ (overlapped => overlapped')
         /\ ~overlapped' => \A u \in Task : task[u].at = "idle"
<1> DEFINE others == \E u \in Task \ {t} : task[u] # IdleTask
<1>1. task[t] = IdleTask /\ overlapped' = (overlapped \/ others)
  BY DEF Storage!Begins, Storage!Idle, IdleTask
<1>2. ~others => \A u \in Task : task[u].at = "idle"
  BY <1>1 DEF IdleTask
<1> HIDE DEF others
<1>3. overlapped' \in BOOLEAN
  BY <1>1
<1>4. (overlapped => overlapped') /\ (~overlapped' => ~others)
  BY <1>1
<1>5. QED
  BY <1>1, <1>2, <1>3, <1>4

LEMMA ClientStep ==
  ASSUME Storage!ClientAssumption, Storage!IInv, [Storage!Next]_Storage!vars
  PROVE  Storage!IInv'
<1> USE DEF Storage!AlwaysAClient, Storage!AloneInv, IdleTask, Storage!Idle
<1>0. /\ Storage!TypeOK /\ made \in Nat /\ NoClient \notin open /\ (made = 0 => 1 .. made = {})
      /\ overlapped \in BOOLEAN /\ shut \in BOOLEAN
  <2>1. Storage!TypeOK
    BY DEF Storage!IInv
  <2>2. made \in Nat /\ open \subseteq 1 .. made /\ 1 .. made \subseteq Nat
    BY <2>1 DEF Storage!TypeOK, Storage!ClientAssumption
  <2>3. made = 0 => 1 .. made = {}
    OBVIOUS
  <2>4. QED
    BY <2>1, <2>2, <2>3 DEF Storage!ClientAssumption, Storage!TypeOK
<1>c. ASSUME Storage!CloseClient
      PROVE  /\ open' \subseteq open /\ botched \subseteq botched' /\ botched' \subseteq 1 .. made
             /\ client \notin open' \ botched'
  BY <1>0, <1>c DEF Storage!CloseClient, Storage!TypeOK
<1>1. ASSUME NEW t \in Task, Storage!GetClient(t) PROVE Storage!IInv'
  <2>0. /\ task[t] = IdleTask /\ overlapped' \in BOOLEAN /\ (overlapped => overlapped')
        /\ ~overlapped' => \A u \in Task : task[u].at = "idle"
        /\ shut' = shut
    BY <1>0, <1>1, BeginsAlone DEF Storage!GetClient
  <2>1. CASE client = NoClient
    <3>1. /\ Storage!NewClient /\ open' = open \cup {made + 1} /\ healthy' = FALSE /\ due' = TRUE
          /\ UNCHANGED botched /\ Storage!Goto(t, "checking", made + 1)
      BY <1>1, <2>1 DEF Storage!GetClient, Storage!NewClient
    <3>2. /\ Storage!TypeOK' /\ made' > 0 /\ client' = made + 1 /\ client' # NoClient
          /\ task'[t] = [at |-> "checking", with |-> client']
          /\ \A u \in Task \ {t} : task'[u] = task[u]
      BY <1>0, <2>0, <3>1, NewClientStep DEF TaskPlaces
    <3>3. QED
      BY <2>0, <2>1, <3>1, <3>2, <1>0 DEF Storage!IInv
  <2>2. CASE client # NoClient
    <3>1. /\ UNCHANGED <<client, made, open, botched, healthy, due>>
          /\ (Storage!Goto(t, "checking", client) \/ Storage!Goto(t, "using", client))
      BY <1>1, <2>2 DEF Storage!GetClient
    <3>2. PICK at \in {"checking", "using"} : Storage!Goto(t, at, client)
      BY <3>1
    <3>3. /\ Storage!TypeOK' /\ task'[t] = [at |-> at, with |-> client]
          /\ \A u \in Task \ {t} : task'[u] = task[u]
      BY <1>0, <2>0, <3>1, <3>2, OldClientStep, <2>2 DEF TaskPlaces, Storage!TypeOK
    <3>4. QED
      BY <2>0, <2>2, <3>1, <3>3, <1>0 DEF Storage!IInv
  <2>3. QED
    BY <2>1, <2>2
<1>2. ASSUME NEW t \in Task, Storage!Replace(t) PROVE Storage!IInv'
  <2>1. /\ Storage!NewClient /\ open' = open \cup {made + 1} /\ healthy' = FALSE /\ due' = TRUE
        /\ Storage!Goto(t, "using", made + 1) /\ task[t].at = "closing"
        /\ UNCHANGED <<botched, overlapped, shut>>
    BY <1>2 DEF Storage!Replace
  <2>2. /\ Storage!TypeOK' /\ made' > 0 /\ client' = made + 1 /\ client' # NoClient
        /\ task'[t] = [at |-> "using", with |-> client'] /\ \A u \in Task \ {t} : task'[u] = task[u]
    BY <1>0, <2>1, NewClientStep DEF TaskPlaces
  <2>3. QED
    BY <2>1, <2>2, <1>0 DEF Storage!IInv
<1>3. ASSUME NEW t \in Task, Storage!CheckPasses(t) PROVE Storage!IInv'
  <2>1. /\ UNCHANGED <<client, made, open, botched, overlapped, shut>>
        /\ healthy' = TRUE /\ due' = FALSE
        /\ Storage!Goto(t, "using", client) /\ task[t].at = "checking" /\ task[t].with \in open
    BY <1>3 DEF Storage!CheckPasses
  <2>2. (~overlapped \/ ~shut) => client # NoClient
    <3>1. made # 0
      BY <2>1, <1>0 DEF Storage!TypeOK
    <3>2. QED
      BY <2>1, <3>1, <1>0 DEF Storage!IInv
  <2>3. /\ Storage!TypeOK' /\ task'[t] = [at |-> "using", with |-> client]
        /\ \A u \in Task \ {t} : task'[u] = task[u]
    BY <1>0, <2>1, <2>2, OldClientStep DEF TaskPlaces, Storage!TypeOK
  <2>4. QED
    BY <2>1, <2>2, <2>3, <1>0 DEF Storage!IInv
<1>4. ASSUME NEW t \in Task, Storage!CheckFails(t) PROVE Storage!IInv'
  <2>1. /\ UNCHANGED <<client, made, due, overlapped, shut>> /\ healthy' = FALSE
        /\ Storage!CloseClient
        /\ Storage!Goto(t, "closing", client) /\ task[t].at = "checking"
    BY <1>4 DEF Storage!CheckFails
  <2>2. /\ Storage!TypeOK' /\ task'[t] = [at |-> "closing", with |-> client]
        /\ \A u \in Task \ {t} : task'[u] = task[u]
    BY <1>0, <1>c, <2>1, OldClientStep DEF TaskPlaces, Storage!TypeOK
  <2>3. ~shut => client # NoClient
    <3>1. task[t].with \in 1 .. made \cup {NoClient}
      BY <1>0 DEF Storage!TypeOK
    <3>2. ~shut => task[t].with # NoClient
      BY <2>1 DEF Storage!IInv
    <3>3. QED
      BY <1>0, <3>1, <3>2 DEF Storage!IInv
  <2>4. QED
    BY <2>1, <2>2, <2>3, <1>0, <1>c DEF Storage!IInv
<1>5. ASSUME NEW t \in Task, Storage!Use(t) PROVE Storage!IInv'
  <2>1. /\ UNCHANGED <<client, made, open, botched, healthy, due, overlapped, shut>>
        /\ Storage!Goto(t, "idle", NoClient) /\ task[t].at = "using"
    BY <1>5 DEF Storage!Use
  <2>2. /\ Storage!TypeOK' /\ task'[t] = [at |-> "idle", with |-> NoClient]
        /\ \A u \in Task \ {t} : task'[u] = task[u]
    BY <1>0, <2>1, OldClientStep DEF TaskPlaces, Storage!TypeOK
  <2>3. QED
    BY <2>1, <2>2, <1>0 DEF Storage!IInv
<1>6. ASSUME NEW t \in Task, Storage!Close(t) PROVE Storage!IInv'
  <2>0. /\ task[t] = IdleTask /\ overlapped' \in BOOLEAN /\ (overlapped => overlapped')
        /\ ~overlapped' => \A u \in Task : task[u].at = "idle"
    BY <1>0, <1>6, BeginsAlone DEF Storage!Close
  <2>1. /\ shut' = TRUE /\ UNCHANGED <<client, made, healthy, due>> /\ Storage!CloseClient
        /\ Storage!Goto(t, "shutting", client) /\ client # NoClient
    BY <1>6 DEF Storage!Close
  <2>2. /\ Storage!TypeOK' /\ task'[t] = [at |-> "shutting", with |-> client]
        /\ \A u \in Task \ {t} : task'[u] = task[u]
    BY <1>0, <1>c, <2>0, <2>1, OldClientStep DEF TaskPlaces, Storage!TypeOK
  <2>3. QED
    BY <2>0, <2>1, <2>2, <1>0, <1>c DEF Storage!IInv
<1>7. ASSUME NEW t \in Task, Storage!EndClose(t) PROVE Storage!IInv'
  <2>1. /\ UNCHANGED <<made, open, botched, overlapped, shut>> /\ client' = NoClient
        /\ healthy' = FALSE /\ due' = TRUE /\ Storage!Goto(t, "idle", NoClient)
        /\ task[t].at = "shutting" /\ task[t].with \notin open
    BY <1>7 DEF Storage!EndClose
  <2>2. /\ Storage!TypeOK' /\ task'[t] = [at |-> "idle", with |-> NoClient]
        /\ \A u \in Task \ {t} : task'[u] = task[u]
    BY <1>0, <2>1, OldClientStep DEF TaskPlaces, Storage!TypeOK
  <2>3. shut
    BY <1>0, <2>1 DEF Storage!IInv
  <2>4. QED
    BY <2>1, <2>2, <2>3, <1>0 DEF Storage!IInv
<1>8. ASSUME NEW t \in Task, Storage!CloseFails(t) PROVE Storage!IInv'
  <2>1. /\ UNCHANGED <<client, made, open, healthy, due, overlapped, shut>>
        /\ botched' = botched \cup {task[t].with}
        /\ Storage!Goto(t, "idle", NoClient) /\ task[t].at = "shutting"
    BY <1>8 DEF Storage!CloseFails
  <2>2. shut /\ task[t].with \in 1 .. made
    BY <1>0, <2>1 DEF Storage!IInv, Storage!TypeOK
  <2>3. /\ Storage!TypeOK' /\ task'[t] = [at |-> "idle", with |-> NoClient]
        /\ \A u \in Task \ {t} : task'[u] = task[u]
    BY <1>0, <2>1, <2>2, OldClientStep DEF TaskPlaces, Storage!TypeOK
  <2>4. QED
    BY <2>1, <2>2, <2>3, <1>0 DEF Storage!IInv
<1>9. ASSUME NEW t \in Task, Storage!Cancel(t) PROVE Storage!IInv'
  <2>1. /\ UNCHANGED <<client, made, open, healthy, due, overlapped, shut>>
        /\ botched' = IF task[t].at = "closing" THEN botched \cup {task[t].with} ELSE botched
        /\ Storage!Goto(t, "idle", NoClient) /\ task[t].at \in {"checking", "closing"}
    BY <1>9 DEF Storage!Cancel
  <2>2. task[t].with \in 1 .. made
    BY <1>0, <1>9 DEF Storage!TypeOK, Storage!Cancel
  <2>3. /\ Storage!TypeOK' /\ task'[t] = [at |-> "idle", with |-> NoClient]
        /\ \A u \in Task \ {t} : task'[u] = task[u]
    BY <1>0, <2>1, <2>2, OldClientStep DEF TaskPlaces, Storage!TypeOK
  <2>4. QED
    BY <2>1, <2>2, <2>3, <1>0 DEF Storage!IInv
<1>10. ASSUME Storage!Expire PROVE Storage!IInv'
  BY <1>10 DEF Storage!Expire, Storage!IInv, Storage!TypeOK
<1>11. ASSUME UNCHANGED Storage!vars PROVE Storage!IInv'
  BY <1>11 DEF Storage!vars, Storage!IInv, Storage!TypeOK
<1>12. QED
  BY <1>1, <1>2, <1>3, <1>4, <1>5, <1>6, <1>7, <1>8, <1>9, <1>10, <1>11 DEF Storage!Next

(* For any number of tasks, failed checks and closes, of which any may     *)
(* fail or be cancelled: as long as no two calls have overlapped, each     *)
(* gets a client that is open, and no other is left open, but for those    *)
(* whose close failed; and as long as nobody has closed the storage, calls *)
(* that overlap get a client in any case.                                  *)
THEOREM ClientSafety ==
  ASSUME Storage!ClientAssumption
  PROVE  Storage!Spec => []ClientsAreKept
<1>1. Storage!Init => Storage!IInv
  <2> SUFFICES ASSUME Storage!Init PROVE Storage!IInv
    OBVIOUS
  <2>1. Storage!TypeOK
    <3>1. /\ made = 0 /\ made \in 0 .. Clients /\ client = NoClient /\ open = {} /\ botched = {}
          /\ due = TRUE /\ healthy = FALSE /\ overlapped = FALSE /\ shut = FALSE
          /\ task = [t \in Task |-> [at |-> "idle", with |-> NoClient]]
      BY DEF Storage!Init, Storage!Idle, Storage!ClientAssumption
    <3>2. due \in BOOLEAN /\ healthy \in BOOLEAN /\ overlapped \in BOOLEAN /\ shut \in BOOLEAN
      BY <3>1
    <3>3. QED
      BY <3>1, <3>2 DEF Storage!TypeOK
  <2>2. QED
    BY <2>1 DEF Storage!Init, Storage!Idle, Storage!IInv, Storage!AlwaysAClient, Storage!AloneInv
<1>2. Storage!IInv /\ [Storage!Next]_Storage!vars => Storage!IInv'
  BY ClientStep
<1>3. Storage!IInv => ClientsAreKept
  BY DEF Storage!IInv, Storage!ClientsAreKept, Storage!AloneInv, Storage!OneOpenClient, ClientsAreKept
<1>4. QED
  BY <1>1, <1>2, <1>3, PTL DEF Storage!Spec

-----------------------------------------------------------------------------
(* The creation of a collection: EnsureCollection, where `outcome` is      *)
(* called `ending` and `faults` `lost`.                                    *)

LEMMA EnsureStep ==
  ASSUME Ensure!EnsureAssumption, Ensure!IInv, [Ensure!Next]_Ensure!vars
  PROVE  Ensure!IInv'
<1> USE DEF Ensure!Goto, Ensure!Ends
<1>0. \A s \in Server : Len(Fields[s]) \in Nat /\ DOMAIN Fields[s] = 1 .. Len(Fields[s])
  BY DEF Ensure!EnsureAssumption
<1>1. ASSUME NEW s \in Server, Ensure!Look(s) PROVE Ensure!IInv'
  <2>1. step'[s] = "index" => exists
    BY <1>1 DEF Ensure!Look, Ensure!IInv, Ensure!TypeOK
  <2>2. QED
    BY <1>0, <1>1, <2>1 DEF Ensure!Look, Ensure!IInv, Ensure!TypeOK, Ensure!Wanted
<1>2. ASSUME NEW s \in Server, Ensure!Create(s) PROVE Ensure!IInv'
  <2>1. CASE exists
    BY <1>0, <1>2, <2>1 DEF Ensure!Create, Ensure!IInv, Ensure!TypeOK, Ensure!Wanted
  <2>2. CASE ~exists
    <3>1. /\ exists' /\ exists' = TRUE /\ creators' = {s} /\ indexes' = indexes
          /\ next' = next /\ ending' = ending /\ step' = [step EXCEPT ![s] = "index"]
          /\ step[s] = "create"
      BY <1>2, <2>2 DEF Ensure!Create, Ensure!IInv
    <3>2. Ensure!TypeOK'
      BY <1>0, <3>1 DEF Ensure!IInv, Ensure!TypeOK
    <3>3. \A t \in Server : ~(ending[t] = "ok") /\ step[t] # "index"
      BY <2>2 DEF Ensure!IInv, Ensure!TypeOK
    <3>4. next[s] = 1
      BY <3>1 DEF Ensure!IInv
    <3>5. QED
      BY <3>1, <3>2, <3>3, <3>4 DEF Ensure!IInv, Ensure!TypeOK, Ensure!Wanted
  <2>3. QED
    BY <2>1, <2>2
<1>3. ASSUME NEW s \in Server, Ensure!Index(s) PROVE Ensure!IInv'
  <2>1. CASE next[s] > Len(Fields[s])
    <3>1. Ensure!Wanted(s) \subseteq indexes
      BY <1>0, <1>3, <2>1 DEF Ensure!Index, Ensure!IInv, Ensure!TypeOK, Ensure!Wanted
    <3>2. /\ exists /\ UNCHANGED <<exists, creators, indexes, next>>
          /\ step' = [step EXCEPT ![s] = "idle"] /\ ending' = [ending EXCEPT ![s] = "ok"]
      BY <1>3, <2>1 DEF Ensure!Index, Ensure!IInv, Ensure!TypeOK
    <3>3. Ensure!TypeOK'
      BY <1>0, <3>2 DEF Ensure!IInv, Ensure!TypeOK
    <3>4. \A t \in Server : Ensure!Wanted(t)' = Ensure!Wanted(t)
      BY DEF Ensure!Wanted
    <3>5. QED
      BY <3>1, <3>2, <3>3, <3>4 DEF Ensure!IInv, Ensure!TypeOK
  <2>2. CASE ~(next[s] > Len(Fields[s]))
    <3>1. /\ step[s] = "index" /\ UNCHANGED <<exists, creators, step, ending>>
          /\ indexes' = indexes \cup {Fields[s][next[s]]}
          /\ next' = [next EXCEPT ![s] = @ + 1]
      BY <1>3, <2>2 DEF Ensure!Index
    <3>2. next' \in [Server -> Nat] /\ next[s] <= Len(Fields[s]) /\ next'[s] = next[s] + 1
      BY <1>0, <2>2, <3>1 DEF Ensure!IInv, Ensure!TypeOK
    <3>3. Ensure!TypeOK'
      BY <1>0, <3>1, <3>2 DEF Ensure!IInv, Ensure!TypeOK
    <3>4. \A t \in Server : step[t] = "index" => \A i \in 1 .. next'[t] - 1 : Fields[t][i] \in indexes'
      BY <3>1, <3>2 DEF Ensure!IInv, Ensure!TypeOK
    <3>5. \A t \in Server : ending[t] = "ok" => Ensure!Wanted(t) \subseteq indexes'
      BY <3>1 DEF Ensure!IInv
    <3>6. QED
      BY <3>1, <3>3, <3>4, <3>5 DEF Ensure!IInv, Ensure!Wanted
  <2>3. QED
    BY <2>1, <2>2
<1>4. ASSUME NEW s \in Server, Ensure!Fail(s) PROVE Ensure!IInv'
  <2>0. exists' \in BOOLEAN /\ (exists => exists')
    <3>1. exists' = exists \/ exists' = TRUE
      BY <1>4 DEF Ensure!Fail
    <3>2. QED
      BY <3>1 DEF Ensure!IInv, Ensure!TypeOK
  <2>1. /\ indexes \subseteq indexes'
        /\ next' = next /\ creators' = creators
        /\ step' = [step EXCEPT ![s] = "idle"] /\ ending' = [ending EXCEPT ![s] = "failed"]
    BY <1>4 DEF Ensure!Fail
  <2>2. Ensure!TypeOK'
    BY <2>0, <2>1 DEF Ensure!IInv, Ensure!TypeOK
  <2>3. QED
    BY <2>0, <2>1, <2>2 DEF Ensure!IInv, Ensure!TypeOK, Ensure!Wanted
<1>5. ASSUME UNCHANGED Ensure!vars PROVE Ensure!IInv'
  BY <1>0, <1>5 DEF Ensure!vars, Ensure!IInv, Ensure!TypeOK, Ensure!Wanted
<1>6. QED
  BY <1>1, <1>2, <1>3, <1>4, <1>5 DEF Ensure!Next

(* For any number of servers, fields and failures: a call that returns has *)
(* left the collection with all of its indexes, whoever created it.        *)
THEOREM EnsureSafety ==
  ASSUME Ensure!EnsureAssumption
  PROVE  Ensure!Spec => []EnsuredIsIndexed
<1>1. Ensure!Init => Ensure!IInv
  <2> SUFFICES ASSUME Ensure!Init PROVE Ensure!IInv
    OBVIOUS
  <2>1. \A s \in Server : Len(Fields[s]) \in Nat
    BY DEF Ensure!EnsureAssumption
  <2>2. exists = FALSE /\ exists \in BOOLEAN
    BY DEF Ensure!Init
  <2>3. QED
    BY <2>1, <2>2 DEF Ensure!Init, Ensure!IInv, Ensure!TypeOK
<1>2. Ensure!IInv /\ [Ensure!Next]_Ensure!vars => Ensure!IInv'
  BY EnsureStep
<1>3. Ensure!IInv => EnsuredIsIndexed
  <2> SUFFICES ASSUME Ensure!IInv PROVE Ensure!EnsuredIsIndexed
    BY DEF Ensure!IInv, EnsuredIsIndexed
  <2>1. \A S : Ensure!Cardinality(S) = Cardinality(S)
    BY DEF Ensure!Cardinality, Cardinality
  <2>2. Cardinality(creators) <= 1
    <3>1. CASE creators = {}
      BY <3>1, FS_EmptySet
    <3>2. ASSUME NEW s \in creators PROVE Cardinality(creators) <= 1
      <4>1. creators = {s}
        BY DEF Ensure!IInv
      <4>2. Cardinality({s}) = 1
        BY FS_Singleton
      <4>3. QED
        BY <4>1, <4>2
    <3>3. QED
      BY <3>1, <3>2
  <2>3. QED
    BY <2>1, <2>2 DEF Ensure!IInv, Ensure!EnsuredIsIndexed
<1>4. QED
  BY <1>1, <1>2, <1>3, PTL DEF Ensure!Spec

-----------------------------------------------------------------------------
(* The batches of an upsert: UpsertBatch, where `lock` is called `held`,   *)
(* and `task` `batches`.                                                   *)

States == Upsert!InSemaphore \cup {"none", "queued", "done", "orphan", "dead"}

\* The semaphore counts: fewer inside are not more, and one more is one more.
LEMMA InsideCounts ==
  ASSUME Upsert!UpsertAssumption, NEW S \in SUBSET Upsert!Batch, NEW T \in SUBSET Upsert!Batch
  PROVE  /\ Upsert!Cardinality(S) \in Nat
         /\ S \subseteq T => Upsert!Cardinality(S) <= Upsert!Cardinality(T)
         /\ \A b : S \subseteq T \cup {b} => Upsert!Cardinality(S) <= Upsert!Cardinality(T) + 1
<1>1. \A R : Upsert!Cardinality(R) = Cardinality(R)
  BY DEF Upsert!Cardinality, Cardinality
<1>2. IsFiniteSet(Upsert!Batch)
  BY FS_Interval DEF Upsert!UpsertAssumption, Upsert!Batch
<1>3. IsFiniteSet(S) /\ IsFiniteSet(T) /\ Cardinality(S) \in Nat /\ Cardinality(T) \in Nat
  BY <1>2, FS_Subset, FS_CardinalityType
<1>4. S \subseteq T => Cardinality(S) <= Cardinality(T)
  BY <1>3, FS_Subset
<1>5. ASSUME NEW b, S \subseteq T \cup {b} PROVE Cardinality(S) <= Cardinality(T) + 1
  <2>1. /\ IsFiniteSet(T \cup {b})
        /\ Cardinality(T \cup {b}) = IF b \in T THEN Cardinality(T) ELSE Cardinality(T) + 1
    BY <1>3, FS_AddElement
  <2>2. Cardinality(S) <= Cardinality(T \cup {b}) /\ Cardinality(T \cup {b}) \in Nat
    BY <1>5, <2>1, FS_Subset, FS_CardinalityType
  <2>3. QED
    BY <1>3, <2>1, <2>2
<1>6. QED
  BY <1>1, <1>3, <1>4, <1>5

\* The task of one batch goes on.
LEMMA BatchGoes ==
  ASSUME Upsert!TypeOK, NEW c \in Call, NEW b \in Upsert!Batch, NEW s \in States, Upsert!Goto(c, b, s)
  PROVE  /\ batches' \in [Call -> [Upsert!Batch -> States]] /\ batches'[c][b] = s
         /\ \A d \in Upsert!Batch \ {b} : batches'[c][d] = batches[c][d]
         /\ \A e \in Call \ {c} : batches'[e] = batches[e]
BY DEF Upsert!TypeOK, Upsert!Goto, States

\* A task takes a place in the semaphore only if one is free.
LEMMA SemaphoreHolds ==
  ASSUME Upsert!UpsertAssumption, Upsert!TypeOK, NEW c \in Call, NEW b \in Upsert!Batch,
         \A e \in Call \ {c} : batches'[e] = batches[e],
         \A d \in Upsert!Batch \ {b} : batches'[c][d] \in Upsert!InSemaphore => batches[c][d] \in Upsert!InSemaphore,
         \/ batches'[c][b] \in Upsert!InSemaphore => batches[c][b] \in Upsert!InSemaphore
         \/ Upsert!Cardinality(Upsert!Inside(c)) < Concurrency
  PROVE  \A e \in Call : Upsert!Cardinality(Upsert!Inside(e)') <= Concurrency
<1>1. \A e \in Call : /\ Upsert!Inside(e) \in SUBSET Upsert!Batch
                      /\ Upsert!Inside(e)' \in SUBSET Upsert!Batch
                      /\ Upsert!Cardinality(Upsert!Inside(e)) <= Concurrency
                      /\ Upsert!Cardinality(Upsert!Inside(e)) \in Nat
                      /\ Upsert!Cardinality(Upsert!Inside(e)') \in Nat
  <2>1. \A e \in Call : Upsert!Inside(e) \in SUBSET Upsert!Batch /\ Upsert!Inside(e)' \in SUBSET Upsert!Batch
    BY DEF Upsert!Inside, Upsert!Batch
  <2>2. QED
    BY <2>1, InsideCounts DEF Upsert!TypeOK
<1>2. \A e \in Call \ {c} : Upsert!Inside(e)' = Upsert!Inside(e)
  BY DEF Upsert!Inside, Upsert!Batch, Upsert!InSemaphore
<1>3. Upsert!Cardinality(Upsert!Inside(c)') <= Concurrency
  <2>1. CASE batches'[c][b] \in Upsert!InSemaphore => batches[c][b] \in Upsert!InSemaphore
    <3>1. Upsert!Inside(c)' \subseteq Upsert!Inside(c)
      BY <2>1 DEF Upsert!Inside, Upsert!Batch, Upsert!InSemaphore
    <3>2. Upsert!Cardinality(Upsert!Inside(c)') <= Upsert!Cardinality(Upsert!Inside(c))
      BY <1>1, <3>1, InsideCounts
    <3>3. QED
      BY <1>1, <3>2 DEF Upsert!UpsertAssumption
  <2>2. CASE Upsert!Cardinality(Upsert!Inside(c)) < Concurrency
    <3>1. Upsert!Inside(c)' \subseteq Upsert!Inside(c) \cup {b}
      BY DEF Upsert!Inside, Upsert!Batch, Upsert!InSemaphore
    <3>2. Upsert!Cardinality(Upsert!Inside(c)') <= Upsert!Cardinality(Upsert!Inside(c)) + 1
      BY <1>1, <3>1, InsideCounts
    <3>3. QED
      BY <1>1, <2>2, <3>2 DEF Upsert!UpsertAssumption
  <2>3. QED
    BY <2>1, <2>2
<1>4. QED
  BY <1>1, <1>2, <1>3

LEMMA UpsertBegin ==
  ASSUME Upsert!UpsertAssumption, Upsert!IInv, NEW c \in Call, Upsert!Begin(c)
  PROVE  Upsert!IInv'
<1> USE DEF Upsert!InSemaphore
<1>1. /\ call[c] = "idle" /\ held = None /\ held' = c /\ last' = c
      /\ call' = [call EXCEPT ![c] = "running"] /\ tries' = tries /\ stored' = stored
      /\ batches' = [batches EXCEPT ![c] = [b \in Upsert!Batch |-> "queued"]]
  BY DEF Upsert!Begin
<1>2. Upsert!TypeOK
  BY DEF Upsert!IInv
<1>3. \A e \in Call : Upsert!Cardinality(Upsert!Inside(e)') <= Concurrency
  <2>1. 1 \in Upsert!Batch
    BY DEF Upsert!Batch, Upsert!UpsertAssumption
  <2>2. /\ \A e \in Call \ {c} : batches'[e] = batches[e]
        /\ \A d \in Upsert!Batch : batches'[c][d] = "queued"
    BY <1>1, <1>2 DEF Upsert!TypeOK
  <2>3. QED
    BY <1>2, <2>1, <2>2, SemaphoreHolds
<1>4. Upsert!TypeOK'
  BY <1>1, <1>2, <1>3 DEF Upsert!TypeOK, Upsert!UpsertAssumption, Upsert!Batch
<1>5. Upsert!Undisturbed' \/ \E e \in Call : call'[e] \in {"failed", "timeout"}
  <2> SUFFICES ASSUME \A e \in Call : call'[e] \notin {"failed", "timeout"} PROVE Upsert!Undisturbed'
    OBVIOUS
  <2>1. Upsert!Undisturbed
    BY <1>1, <1>2 DEF Upsert!IInv, Upsert!TypeOK
  <2>2. /\ \A d \in Upsert!Batch : batches'[c][d] = "queued"
        /\ \A e \in Call \ {c} : batches'[e] = batches[e]
    BY <1>1, <1>2 DEF Upsert!TypeOK
  <2>3. \A e \in Call : held # e
    BY <1>1 DEF Upsert!UpsertAssumption
  <2>4. \A e \in Call \ {c}, d \in Upsert!Batch : batches'[e][d] \in {"none", "done"}
    BY <2>1, <2>2, <2>3 DEF Upsert!Undisturbed
  <2>5. held' = c /\ held' # None /\ last' = c
    BY <1>1 DEF Upsert!UpsertAssumption
  <2>6. QED
    BY <2>2, <2>4, <2>5 DEF Upsert!Undisturbed, Upsert!Batch
<1>6. QED
  BY <1>1, <1>2, <1>4, <1>5 DEF Upsert!IInv, Upsert!TypeOK, Upsert!Batch

\* One task goes on and its call does not end.
LEMMA UpsertGoes ==
  ASSUME Upsert!UpsertAssumption, Upsert!IInv, NEW c \in Call, NEW b \in Upsert!Batch,
         NEW s \in {"sending", "sleeping", "done", "dead"},
         Upsert!Goto(c, b, s), UNCHANGED <<held, call, last>>,
         batches[c][b] \in {"queued", "sending", "sleeping", "orphan"},
         batches[c][b] = "orphan" => s = "dead",
         s = "dead" => batches[c][b] = "orphan" \/ call[c] \in {"failed", "timeout"},
         batches[c][b] = "queued" => Upsert!Cardinality(Upsert!Inside(c)) < Concurrency,
         tries' \in [Call -> [Upsert!Batch -> 0 .. MaxAttempts]],
         \A e \in Call, d \in Upsert!Batch : tries'[e][d] = tries[e][d] \/ (e = c /\ d = b),
         s \in Upsert!InSemaphore => tries'[c][b] < MaxAttempts,
         stored' \in {stored, [stored EXCEPT ![b] = c]},
         s = "done" => stored' = [stored EXCEPT ![b] = c]
  PROVE  Upsert!IInv'
<1> USE DEF Upsert!InSemaphore
<1>1. Upsert!TypeOK /\ s \in States
  BY DEF Upsert!IInv, States
<1>2. /\ batches' \in [Call -> [Upsert!Batch -> States]] /\ batches'[c][b] = s
      /\ \A d \in Upsert!Batch \ {b} : batches'[c][d] = batches[c][d]
      /\ \A e \in Call \ {c} : batches'[e] = batches[e]
  BY <1>1, BatchGoes
<1>3. \A e \in Call : Upsert!Cardinality(Upsert!Inside(e)') <= Concurrency
  BY <1>1, <1>2, SemaphoreHolds
<1>4. /\ stored' \in [Upsert!Batch -> Call \cup {None}]
      /\ \A d \in Upsert!Batch \ {b} : stored'[d] = stored[d]
      /\ stored'[b] \in {stored[b], c} /\ (s = "done" => stored'[b] = c)
  BY <1>1 DEF Upsert!TypeOK
<1>5. Upsert!TypeOK'
  BY <1>1, <1>2, <1>3, <1>4 DEF Upsert!TypeOK, Upsert!Batch, States
<1>6. ASSUME \A e \in Call : call'[e] \notin {"failed", "timeout"} PROVE Upsert!Undisturbed'
  <2>1. Upsert!Undisturbed
    BY <1>6 DEF Upsert!IInv
  <2>2. held = c /\ last = c /\ c # None
    BY <2>1 DEF Upsert!Undisturbed, Upsert!UpsertAssumption
  <2>3. \A d \in Upsert!Batch : batches'[c][d] = "done" => stored'[d] = c
    BY <1>2, <1>4, <2>1, <2>2 DEF Upsert!Undisturbed
  <2>4. \A e \in Call \ {c}, d \in Upsert!Batch : batches'[e][d] \in {"none", "done"}
    BY <1>2, <2>1, <2>2 DEF Upsert!Undisturbed
  <2>5. QED
    BY <2>2, <2>3, <2>4 DEF Upsert!Undisturbed, Upsert!Batch
<1>7. \A e \in Call, d \in Upsert!Batch :
        /\ call'[e] = "ok" => batches'[e][d] = "done"
        /\ call'[e] = "idle" => batches'[e][d] = "none"
        /\ batches'[e][d] \notin {"done", "orphan", "dead"} => tries'[e][d] < MaxAttempts
        /\ call'[e] = "timeout" => batches'[e][d] \notin {"sending", "sleeping", "queued"}
  <2>1. SUFFICES ASSUME NEW e \in Call, NEW d \in Upsert!Batch
        PROVE  /\ call[e] = "ok" => batches'[e][d] = "done"
               /\ call[e] = "idle" => batches'[e][d] = "none"
               /\ batches'[e][d] \notin {"done", "orphan", "dead"} => tries'[e][d] < MaxAttempts
               /\ call[e] = "timeout" => batches'[e][d] \notin {"sending", "sleeping", "queued"}
    OBVIOUS
  <2>2. /\ call[e] = "ok" => batches[e][d] = "done"
        /\ call[e] = "idle" => batches[e][d] = "none"
        /\ batches[e][d] \notin {"done", "orphan", "dead"} => tries[e][d] < MaxAttempts
        /\ call[e] = "timeout" => batches[e][d] \notin {"sending", "sleeping", "queued"}
    BY DEF Upsert!IInv
  <2>3. CASE e = c /\ d = b
    BY <1>2, <2>2, <2>3
  <2>4. CASE e # c \/ d # b
    BY <1>2, <2>2, <2>4
  <2>5. QED
    BY <2>3, <2>4
<1>8. QED
  BY <1>5, <1>6, <1>7 DEF Upsert!IInv, Upsert!Batch

\* A call ends without a change of what is stored.
LEMMA UpsertEnds ==
  ASSUME Upsert!UpsertAssumption, Upsert!IInv, NEW c \in Call, NEW how \in {"ok", "failed", "timeout"},
         call[c] = "running", Upsert!End(c, how), UNCHANGED last,
         batches' \in [Call -> [Upsert!Batch -> States]],
         \A e \in Call \ {c} : batches'[e] = batches[e],
         \A d \in Upsert!Batch :
           /\ batches'[c][d] = batches[c][d] \/ batches'[c][d] \in {"orphan", "dead"}
           /\ how = "ok" => batches'[c][d] = "done"
           /\ how = "timeout" => batches'[c][d] \notin {"sending", "sleeping", "queued"},
         tries' \in [Call -> [Upsert!Batch -> 0 .. MaxAttempts]],
         \A e \in Call, d \in Upsert!Batch :
           tries'[e][d] = tries[e][d] \/ batches'[e][d] \in {"done", "orphan", "dead"},
         stored' \in [Upsert!Batch -> Call \cup {None}], how = "ok" => stored' = stored
  PROVE  Upsert!IInv'
<1> USE DEF Upsert!InSemaphore
<1>1. Upsert!TypeOK
  BY DEF Upsert!IInv
<1>2. call' = [call EXCEPT ![c] = how] /\ held' = None /\ held = c /\ c # None
  BY <1>1 DEF Upsert!End, Upsert!TypeOK, Upsert!UpsertAssumption
<1>3. \A e \in Call : Upsert!Cardinality(Upsert!Inside(e)') <= Concurrency
  <2>1. 1 \in Upsert!Batch
    BY DEF Upsert!Batch, Upsert!UpsertAssumption
  <2>2. QED
    BY <1>1, <2>1, SemaphoreHolds
<1>4. \A e \in Call : call'[e] = "running" <=> held' = e
  BY <1>1, <1>2 DEF Upsert!TypeOK, Upsert!UpsertAssumption
<1>5. Upsert!TypeOK'
  BY <1>1, <1>2, <1>3, <1>4 DEF Upsert!TypeOK, Upsert!Batch, States
<1>6. ASSUME \A e \in Call : call'[e] \notin {"failed", "timeout"} PROVE Upsert!Undisturbed'
  <2>1. how = "ok" /\ stored' = stored /\ \A d \in Upsert!Batch : batches'[c][d] = batches[c][d] /\ batches'[c][d] = "done"
    BY <1>1, <1>2, <1>6 DEF Upsert!TypeOK
  <2>2. Upsert!Undisturbed
    <3>1. \A e \in Call : call[e] \notin {"failed", "timeout"}
      BY <1>1, <1>2, <1>6 DEF Upsert!TypeOK
    <3>2. QED
      BY <3>1 DEF Upsert!IInv
  <2>3. last' = c /\ \A d \in Upsert!Batch : stored'[d] = c
    BY <1>2, <2>1, <2>2 DEF Upsert!Undisturbed
  <2>4. \A e \in Call, d \in Upsert!Batch : batches'[e][d] \in {"none", "done"}
    BY <1>2, <2>1, <2>2 DEF Upsert!Undisturbed
  <2>5. QED
    BY <1>2, <2>3, <2>4 DEF Upsert!Undisturbed, Upsert!Batch, Upsert!UpsertAssumption
<1>7. \A e \in Call, d \in Upsert!Batch :
        /\ call'[e] = "ok" => batches'[e][d] = "done"
        /\ call'[e] = "idle" => batches'[e][d] = "none"
        /\ batches'[e][d] \notin {"done", "orphan", "dead"} => tries'[e][d] < MaxAttempts
        /\ call'[e] = "timeout" => batches'[e][d] \notin {"sending", "sleeping", "queued"}
  <2>1. SUFFICES ASSUME NEW e \in Call, NEW d \in Upsert!Batch
        PROVE  /\ call'[e] = "ok" => batches'[e][d] = "done"
               /\ call'[e] = "idle" => batches'[e][d] = "none"
               /\ batches'[e][d] \notin {"done", "orphan", "dead"} => tries'[e][d] < MaxAttempts
               /\ call'[e] = "timeout" => batches'[e][d] \notin {"sending", "sleeping", "queued"}
    OBVIOUS
  <2>2. /\ call[e] = "ok" => batches[e][d] = "done"
        /\ call[e] = "idle" => batches[e][d] = "none"
        /\ batches[e][d] \notin {"done", "orphan", "dead"} => tries[e][d] < MaxAttempts
        /\ call[e] = "timeout" => batches[e][d] \notin {"sending", "sleeping", "queued"}
    BY DEF Upsert!IInv
  <2>3. CASE e = c
    <3>1. call'[e] = how
      BY <1>1, <1>2, <2>3 DEF Upsert!TypeOK
    <3>2. QED
      BY <2>2, <2>3, <3>1
  <2>4. CASE e # c
    <3>1. call'[e] = call[e] /\ batches'[e] = batches[e]
      BY <1>1, <1>2, <2>4 DEF Upsert!TypeOK
    <3>2. QED
      BY <2>2, <3>1
  <2>5. QED
    BY <2>3, <2>4
<1>8. QED
  BY <1>5, <1>6, <1>7 DEF Upsert!IInv, Upsert!Batch

LEMMA UpsertStep ==
  ASSUME Upsert!UpsertAssumption, Upsert!IInv, [Upsert!Next]_Upsert!vars
  PROVE  Upsert!IInv'
<1>0. Upsert!TypeOK /\ States = {"sending", "sleeping", "none", "queued", "done", "orphan", "dead"}
  BY DEF Upsert!IInv, States, Upsert!InSemaphore
<1>1. ASSUME NEW c \in Call, Upsert!Begin(c) PROVE Upsert!IInv'
  BY <1>1, UpsertBegin
<1>2. ASSUME NEW c \in Call, Upsert!Finish(c) PROVE Upsert!IInv'
  BY <1>0, <1>2, UpsertEnds DEF Upsert!Finish, Upsert!TypeOK, States
<1>3. ASSUME NEW c \in Call, Upsert!TimeOut(c) PROVE Upsert!IInv'
  <2>1. /\ batches' = [batches EXCEPT ![c] = [b \in Upsert!Batch |->
             CASE @[b] = "done" -> "done" [] @[b] = "sending" -> "orphan" [] OTHER -> "dead"]]
        /\ call[c] = "running" /\ Upsert!End(c, "timeout") /\ UNCHANGED <<tries, stored, last>>
    BY <1>3 DEF Upsert!TimeOut
  <2> DEFINE leaves(d) == CASE batches[c][d] = "done" -> "done"
                            [] batches[c][d] = "sending" -> "orphan"
                            [] OTHER -> "dead"
             row == [d \in Upsert!Batch |-> leaves(d)]
  <2>5. \A d \in Upsert!Batch :
          /\ leaves(d) \in {"done", "orphan", "dead"}
          /\ leaves(d) = batches[c][d] \/ leaves(d) \in {"orphan", "dead"}
    OBVIOUS
  <2>6. row \in [Upsert!Batch -> States] /\ \A d \in Upsert!Batch : row[d] = leaves(d)
    BY <1>0, <2>5
  <2>7. batches' = [batches EXCEPT ![c] = row]
    BY <1>0, <2>1 DEF Upsert!TypeOK
  <2> HIDE DEF leaves, row
  <2>2. /\ batches' \in [Call -> [Upsert!Batch -> States]]
        /\ \A e \in Call \ {c} : batches'[e] = batches[e]
        /\ \A d \in Upsert!Batch :
             /\ batches'[c][d] = batches[c][d] \/ batches'[c][d] \in {"orphan", "dead"}
             /\ batches'[c][d] \notin {"sending", "sleeping", "queued"}
    BY <1>0, <2>5, <2>6, <2>7 DEF Upsert!TypeOK, States
  <2>3. QED
    BY <1>0, <2>1, <2>2, UpsertEnds DEF Upsert!TypeOK
<1>4. ASSUME NEW c \in Call, NEW b \in Upsert!Batch, Upsert!Start(c, b) PROVE Upsert!IInv'
  <2>1. Upsert!Cardinality(Upsert!Inside(c)) < Concurrency
    BY <1>4 DEF Upsert!Start, Upsert!Inside
  <2>2. tries[c][b] < MaxAttempts
    BY <1>4 DEF Upsert!Start, Upsert!IInv
  <2>3. QED
    BY <1>0, <1>4, <2>1, <2>2, UpsertGoes DEF Upsert!Start, Upsert!TypeOK
<1>5. ASSUME NEW c \in Call, NEW b \in Upsert!Batch, Upsert!Succeed(c, b) PROVE Upsert!IInv'
  BY <1>0, <1>5, UpsertGoes DEF Upsert!Succeed, Upsert!TypeOK, Upsert!InSemaphore
<1>6. ASSUME NEW c \in Call, NEW b \in Upsert!Batch, Upsert!Wake(c, b) PROVE Upsert!IInv'
  <2>1. tries[c][b] < MaxAttempts
    BY <1>6 DEF Upsert!Wake, Upsert!IInv
  <2>2. QED
    BY <1>0, <1>6, <2>1, UpsertGoes DEF Upsert!Wake, Upsert!TypeOK
<1>7. ASSUME NEW c \in Call, NEW b \in Upsert!Batch, Upsert!Land(c, b) PROVE Upsert!IInv'
  BY <1>0, <1>7, UpsertGoes DEF Upsert!Land, Upsert!TypeOK, Upsert!InSemaphore
<1>8. ASSUME NEW c \in Call, NEW b \in Upsert!Batch, Upsert!Lose(c, b) PROVE Upsert!IInv'
  <2>1. /\ batches[c][b] = "sending" /\ last' = last
        /\ stored' \in {stored, [stored EXCEPT ![b] = c]}
        /\ tries' = [tries EXCEPT ![c][b] = @ + 1]
    BY <1>8 DEF Upsert!Lose
  <2>2. tries[c][b] < MaxAttempts /\ tries[c][b] \in 0 .. MaxAttempts /\ MaxAttempts \in Nat
    BY <1>0, <2>1 DEF Upsert!IInv, Upsert!TypeOK, Upsert!UpsertAssumption
  <2>3. /\ tries' \in [Call -> [Upsert!Batch -> 0 .. MaxAttempts]]
        /\ tries'[c][b] = tries[c][b] + 1
        /\ \A e \in Call, d \in Upsert!Batch : tries'[e][d] = tries[e][d] \/ (e = c /\ d = b)
    BY <1>0, <2>1, <2>2 DEF Upsert!TypeOK
  <2>4. CASE tries'[c][b] < MaxAttempts
    BY <1>8, <2>1, <2>3, <2>4, UpsertGoes DEF Upsert!Lose
  <2>5. CASE ~(tries'[c][b] < MaxAttempts) /\ call[c] = "running"
    <3>1. Upsert!Goto(c, b, "dead") /\ Upsert!End(c, "failed")
      BY <1>8, <2>5 DEF Upsert!Lose
    <3>2. /\ batches' \in [Call -> [Upsert!Batch -> States]] /\ batches'[c][b] = "dead"
          /\ \A d \in Upsert!Batch \ {b} : batches'[c][d] = batches[c][d]
          /\ \A e \in Call \ {c} : batches'[e] = batches[e]
      BY <1>0, <3>1, BatchGoes
    <3>3. stored' \in [Upsert!Batch -> Call \cup {None}]
      BY <1>0, <2>1 DEF Upsert!TypeOK
    <3>4. QED
      BY <2>1, <2>3, <2>5, <3>1, <3>2, <3>3, UpsertEnds
  <2>6. CASE ~(tries'[c][b] < MaxAttempts) /\ call[c] # "running"
    <3>1. Upsert!Goto(c, b, "dead") /\ UNCHANGED <<held, call, last>>
      BY <1>8, <2>6 DEF Upsert!Lose
    <3>2. call[c] \in {"failed", "timeout"}
      BY <1>0, <2>1, <2>6 DEF Upsert!IInv, Upsert!TypeOK
    <3>3. QED
      BY <2>1, <2>3, <3>1, <3>2, UpsertGoes DEF Upsert!InSemaphore
  <2>7. QED
    BY <2>4, <2>5, <2>6
<1>9. ASSUME UNCHANGED Upsert!vars PROVE Upsert!IInv'
  <2>1. \A e \in Call : Upsert!Inside(e)' = Upsert!Inside(e)
    BY <1>9 DEF Upsert!vars, Upsert!Inside, Upsert!Batch, Upsert!InSemaphore
  <2>2. Upsert!TypeOK'
    BY <1>0, <1>9, <2>1 DEF Upsert!vars, Upsert!TypeOK, Upsert!Batch, Upsert!InSemaphore
  <2>3. QED
    BY <1>9, <2>2 DEF Upsert!vars, Upsert!IInv, Upsert!Undisturbed, Upsert!Batch, Upsert!InSemaphore
<1>10. QED
  BY <1>1, <1>2, <1>3, <1>4, <1>5, <1>6, <1>7, <1>8, <1>9 DEF Upsert!Next, Upsert!Step

(* For any number of calls and batches: a call that returns has stored all *)
(* of its batches, what is stored is what the last call wrote as long as   *)
(* no call raises, and what has timed out sends nothing more.              *)
THEOREM UpsertSafety ==
  ASSUME Upsert!UpsertAssumption
  PROVE  Upsert!Spec => []LastCallWins
<1>1. Upsert!Init => Upsert!IInv
  <2> SUFFICES ASSUME Upsert!Init PROVE Upsert!IInv
    OBVIOUS
  <2>1. \A e \in Call : Upsert!Inside(e) = {}
    BY DEF Upsert!Init, Upsert!Inside, Upsert!InSemaphore
  <2>2. Upsert!Cardinality({}) = 0
    BY FS_EmptySet DEF Upsert!Cardinality, Cardinality
  <2>3. /\ Concurrency \in Nat /\ 0 \in 0 .. MaxAttempts /\ 0 <= Concurrency /\ 0 < MaxAttempts
        /\ \A e \in Call : e # None
    BY DEF Upsert!UpsertAssumption
  <2>4. Upsert!TypeOK
    BY <2>1, <2>2, <2>3 DEF Upsert!Init, Upsert!TypeOK, Upsert!InSemaphore
  <2>5. QED
    BY <2>3, <2>4 DEF Upsert!Init, Upsert!IInv, Upsert!Undisturbed, Upsert!InSemaphore
<1>2. Upsert!IInv /\ [Upsert!Next]_Upsert!vars => Upsert!IInv'
  BY UpsertStep
<1>3. Upsert!IInv => LastCallWins
  BY DEF Upsert!IInv, Upsert!Undisturbed, Upsert!LastCallWins, Upsert!TimeoutStops, LastCallWins
<1>4. QED
  BY <1>1, <1>2, <1>3, PTL DEF Upsert!Spec

-----------------------------------------------------------------------------
(* Searches and fusions: HybridSearch, where `in` is called `sought` and   *)
(* `out` `found`.                                                          *)
LEMMA LargerOfTwo ==
  ASSUME NEW a \in Int, NEW b \in Int
  PROVE  Search!Max({a, b}) = IF a >= b THEN a ELSE b
<1>1. \E x \in {a, b} : \A y \in {a, b} : x >= y
  OBVIOUS
<1>2. QED
  BY <1>1 DEF Search!Max

\* The first rank of a key is where a list has it and not before.
LEMMA FirstRankFacts ==
  ASSUME NEW S, NEW s \in Seq(S), NEW x
  PROVE  LET r == Search!FirstRank(x, s)
         IN /\ r \in 0 .. Len(s)
            /\ r = 0 <=> \A q \in DOMAIN s : s[q] # x
            /\ r > 0 => s[r] = x /\ \A q \in 1 .. r - 1 : s[q] # x
<1> DEFINE T == {r \in DOMAIN s : s[r] = x}
<1>1. Len(s) \in Nat /\ DOMAIN s = 1 .. Len(s)
  BY LenProperties
<1>2. x \in Search!Range(s) <=> T # {}
  BY DEF Search!Range
<1>3. CASE T = {}
  <2>1. Search!FirstRank(x, s) = 0
    BY <1>2, <1>3 DEF Search!FirstRank
  <2>2. QED
    BY <1>1, <1>3, <2>1
<1>4. CASE T # {}
  <2>1. T \subseteq Nat
    BY <1>1
  <2>2. PICK r \in T : \A y \in T : r <= y
    BY <2>1, <1>4, LeastElement
  <2> DEFINE m == CHOOSE z \in T : \A y \in T : z <= y
  <2>3. m \in T /\ \A y \in T : m <= y
    BY <2>2
  <2>4. Search!FirstRank(x, s) = m
    BY <1>2, <1>4 DEF Search!FirstRank, Search!Min
  <2> HIDE DEF m
  <2>5. m \in 1 .. Len(s) /\ s[m] = x
    BY <2>3, <1>1
  <2>6. \A q \in 1 .. m - 1 : s[q] # x
    <3>1. ASSUME NEW q \in 1 .. m - 1, s[q] = x PROVE FALSE
      <4>1. q \in DOMAIN s
        BY <1>1, <2>5
      <4>2. q \in T
        BY <4>1, <3>1
      <4>3. QED
        BY <4>2, <2>3, <2>5, <3>1
    <3>2. QED
      BY <3>1
  <2>7. QED
    BY <2>4, <2>5, <2>6, <1>1
<1>5. QED
  BY <1>3, <1>4

LEMMA IsFirstRank ==
  ASSUME NEW S, NEW s \in Seq(S), NEW r \in DOMAIN s, \A q \in 1 .. r - 1 : s[q] # s[r]
  PROVE  Search!FirstRank(s[r], s) = r
<1>1. Len(s) \in Nat /\ DOMAIN s = 1 .. Len(s)
  BY LenProperties
<1> DEFINE m == Search!FirstRank(s[r], s)
<1>2. /\ m \in 0 .. Len(s) /\ (m = 0 <=> \A q \in DOMAIN s : s[q] # s[r])
      /\ m > 0 => s[m] = s[r] /\ \A q \in 1 .. m - 1 : s[q] # s[r]
  BY FirstRankFacts
<1> HIDE DEF m
<1>3. m > 0
  BY <1>2
<1>4. ~(m < r)
  BY <1>1, <1>2, <1>3
<1>5. ~(r < m)
  BY <1>1, <1>2, <1>3
<1>6. m = r
  BY <1>1, <1>2, <1>4, <1>5
<1>7. QED
  BY <1>6 DEF m

LEMMA TopFacts ==
  ASSUME NEW S, NEW s \in Seq(S), NEW n \in Nat
  PROVE  LET t == Search!Top(s, n)
         IN /\ t \in Seq(S) /\ Len(t) = IF n < Len(s) THEN n ELSE Len(s)
            /\ \A i \in DOMAIN t : i \in DOMAIN s /\ t[i] = s[i]
            /\ \A i \in DOMAIN s : i <= n => i \in DOMAIN t
<1> DEFINE m == IF n < Len(s) THEN n ELSE Len(s)
           t == SubSeq(s, 1, m)
<1>1. Len(s) \in Nat /\ DOMAIN s = 1 .. Len(s)
  BY LenProperties
<1>2. m \in 0 .. Len(s)
  BY <1>1
<1>3. t = [i \in 1 .. m |-> s[i]]
  <2> HIDE DEF m
  <2>1. t = [i \in 1 .. (m - 1) + 1 |-> s[i + 1 - 1]]
    BY <1>1, <1>2
  <2>2. (m - 1) + 1 = m /\ \A i \in 1 .. m : i + 1 - 1 = i
    BY <1>2
  <2>3. QED
    BY <2>1, <2>2
<1>4. \A i \in 1 .. m : i \in DOMAIN s /\ s[i] \in S
  BY <1>1, <1>2, ElementOfSeq
<1>5. t \in Seq(S) /\ Len(t) = m /\ DOMAIN t = 1 .. m
  <2> HIDE DEF m
  <2>1. t \in [1 .. m -> S]
    BY <1>3, <1>4
  <2> HIDE DEF t
  <2>2. QED
    BY <2>1, <1>1, <1>2, SeqDef, LenProperties
<1>6. Search!Top(s, n) = t
  BY DEF Search!Top
<1>7. \A i \in DOMAIN t : i \in DOMAIN s /\ t[i] = s[i]
  <2> HIDE DEF m
  <2>1. QED
    BY <1>3, <1>4, <1>5
<1>8. \A i \in DOMAIN s : i <= n => i \in 1 .. m
  BY <1>1
<1>9. QED
  <2> HIDE DEF t
  <2>1. QED
    BY <1>5, <1>6, <1>7, <1>8

LEMMA FirstRankTop ==
  ASSUME NEW S, NEW s \in Seq(S), NEW n \in Nat, NEW x
  PROVE  Search!FirstRank(x, Search!Top(s, n))
           = IF Search!FirstRank(x, s) <= n THEN Search!FirstRank(x, s) ELSE 0
<1> DEFINE t == Search!Top(s, n)
           r == Search!FirstRank(x, s)
           m == Search!FirstRank(x, t)
<1>1. /\ t \in Seq(S) /\ Len(t) = (IF n < Len(s) THEN n ELSE Len(s))
      /\ \A i \in DOMAIN t : i \in DOMAIN s /\ t[i] = s[i]
      /\ \A i \in DOMAIN s : i <= n => i \in DOMAIN t
  BY TopFacts
<1> HIDE DEF t
<1>2. /\ r \in 0 .. Len(s) /\ (r = 0 <=> \A q \in DOMAIN s : s[q] # x)
      /\ r > 0 => s[r] = x /\ \A q \in 1 .. r - 1 : s[q] # x
  BY FirstRankFacts
<1>3. /\ m \in 0 .. Len(t) /\ (m = 0 <=> \A q \in DOMAIN t : t[q] # x)
      /\ m > 0 => t[m] = x /\ \A q \in 1 .. m - 1 : t[q] # x
  BY <1>1, FirstRankFacts
<1>4. Len(s) \in Nat /\ DOMAIN s = 1 .. Len(s) /\ Len(t) \in Nat /\ DOMAIN t = 1 .. Len(t)
  BY <1>1, LenProperties
<1> HIDE DEF r, m
<1>5. CASE r = 0
  <2>1. \A q \in DOMAIN t : t[q] # x
    BY <1>1, <1>2, <1>5
  <2>2. QED
    BY <1>3, <1>5, <2>1 DEF r, m, t
<1>6. CASE r > n
  <2>1. \A q \in DOMAIN t : t[q] # x
    <3>1. ASSUME NEW q \in DOMAIN t PROVE t[q] # x
      <4>1. q \in 1 .. r - 1 /\ t[q] = s[q] /\ r > 0
        BY <1>1, <1>2, <1>4, <1>6
      <4>2. QED
        BY <4>1, <1>2
    <3>2. QED
      BY <3>1
  <2>2. m = 0
    BY <2>1, <1>3
  <2>3. QED
    BY <2>2, <1>2, <1>6 DEF r, m, t
<1>7. CASE r > 0 /\ r <= n
  <2>1. r \in DOMAIN t /\ t[r] = x
    BY <1>1, <1>2, <1>4, <1>7
  <2>2. \A q \in 1 .. r - 1 : t[q] # t[r]
    <3>1. ASSUME NEW q \in 1 .. r - 1 PROVE t[q] # x
      <4>1. q \in DOMAIN t
        BY <2>1, <1>4
      <4>2. QED
        BY <4>1, <1>1, <1>2, <1>7
    <3>2. QED
      BY <3>1, <2>1
  <2>3. Search!FirstRank(t[r], t) = r
    BY <2>1, <2>2, <1>1, IsFirstRank
  <2>4. QED
    BY <2>1, <2>3, <1>7 DEF r, m, t
<1>8. QED
  BY <1>2, <1>5, <1>6, <1>7

\* The product of k + n over the first ranks n, without one.
Others(k, rank, g) ==
  /\ g \in [0 .. MaxRanking -> Nat] /\ g[0] = 1
  /\ \A n \in 1 .. MaxRanking : g[n] = IF n = rank THEN g[n - 1] ELSE (k + n) * g[n - 1]

LEMMA ShareRecurs ==
  ASSUME Search!HybridAssumption, NEW k \in Nat, NEW rank \in Nat
  PROVE  \E g : Others(k, rank, g) /\ Search!Share(k, rank) = g[MaxRanking]
<1> DEFINE N == MaxRanking
           Val(f, n) == IF n = 0 THEN 1 ELSE IF n = rank THEN f[n - 1] ELSE (k + n) * f[n - 1]
           Solves(f) == f = [n \in 0 .. N |-> Val(f, n)]
           op == [x \in Nat \X (1 .. N) |-> IF x[2] = rank THEN x[1] ELSE (k + x[2]) * x[1]]
<1>1. N \in Nat
  BY DEF Search!HybridAssumption
<1>2. op \in [Nat \X (1 .. N) -> Nat]
  <2>1. ASSUME NEW x \in Nat \X (1 .. N)
        PROVE  (IF x[2] = rank THEN x[1] ELSE (k + x[2]) * x[1]) \in Nat
    <3>1. x[1] \in Nat /\ x[2] \in 1 .. N /\ k + x[2] \in Nat
      BY <1>1
    <3>2. \A a, b \in Nat : a * b \in Nat
      OBVIOUS
    <3>3. QED
      BY <3>1, <3>2
  <2>2. QED
    BY <2>1
<1>3. \A x \in Nat, n \in 1 .. N : op[<<x, n>>] = IF n = rank THEN x ELSE (k + n) * x
  OBVIOUS
<1> HIDE DEF op, N
<1>4. PICK f : IsRecursive(f, Nat, 1, N, op)
  <2>1. Recurs(Nat, 1, N, op)
    BY <1>1, <1>2 DEF Recurs
  <2>2. QED
    BY <2>1, Recursion
<1>5. \A n \in 0 .. N : f[n] = Val(f, n)
  <2>1. ASSUME NEW n \in 1 .. N PROVE f[n] = IF n = rank THEN f[n - 1] ELSE (k + n) * f[n - 1]
    <3>1. f[n - 1] \in Nat
      BY <1>1, <1>4 DEF IsRecursive
    <3>2. QED
      BY <3>1, <1>3, <1>4 DEF IsRecursive
  <2>2. f[0] = 1 /\ \A n \in 0 .. N : n = 0 \/ n \in 1 .. N
    BY <1>1, <1>4 DEF IsRecursive
  <2>3. QED
    BY <2>1, <2>2
<1>6. Solves(f)
  <2> HIDE DEF Val
  <2>1. QED
    BY <1>4, <1>5 DEF IsRecursive
<1> DEFINE g == CHOOSE h : Solves(h)
<1>7. Solves(g)
  <2> HIDE DEF Solves
  <2>1. QED
    BY <1>6
<1>8. Search!Share(k, rank) = g[N]
  BY DEF Search!Share, N
<1> HIDE DEF g
<1>9. \A n \in 0 .. N : g[n] = Val(g, n)
  <2> HIDE DEF Val
  <2>1. QED
    BY <1>7
<1>10. \A n \in 1 .. N : g[n] = IF n = rank THEN g[n - 1] ELSE (k + n) * g[n - 1]
  BY <1>1, <1>9
<1>11. g[0] = 1
  BY <1>1, <1>9
<1>12. g = [n \in 0 .. N |-> g[n]]
  BY <1>7
<1> DEFINE T == {n \in Nat : n <= N => g[n] \in Nat}
<1>13. 0 \in T
  BY <1>11
<1>14. ASSUME NEW m \in Nat, m \in T PROVE m + 1 \in T
  <2>1. SUFFICES ASSUME m + 1 <= N PROVE g[m + 1] \in Nat
    OBVIOUS
  <2>2. m + 1 \in 1 .. N /\ (m + 1) - 1 = m /\ m <= N
    BY <1>1, <2>1
  <2>3. g[m + 1] = IF m + 1 = rank THEN g[m] ELSE (k + (m + 1)) * g[m]
    BY <1>10, <2>2
  <2>4. g[m] \in Nat /\ k + (m + 1) \in Nat
    BY <1>14, <2>2
  <2>5. \A a, b \in Nat : a * b \in Nat
    OBVIOUS
  <2>6. QED
    BY <2>3, <2>4, <2>5
<1>15. Nat \subseteq T
  <2> HIDE DEF T
  <2>1. QED
    BY <1>13, <1>14, AllNaturals
<1>16. g \in [0 .. N -> Nat]
  BY <1>1, <1>12, <1>15
<1>17. Others(k, rank, g)
  BY <1>10, <1>11, <1>16 DEF Others, N
<1>18. QED
  BY <1>8, <1>17 DEF N

\* The product of all and that of the others: a share is the unit divided by k + rank.
LEMMA UnitOfShares ==
  ASSUME Search!HybridAssumption, NEW k \in Nat, NEW rank \in 1 .. MaxRanking,
         NEW u, Others(k, 0, u), NEW g, Others(k, rank, g)
  PROVE  u[MaxRanking] = (k + rank) * g[MaxRanking] /\ u[MaxRanking] > 0
<1> DEFINE Law(n) == u[n] > 0 /\ u[n] = IF n < rank THEN g[n] ELSE (k + rank) * g[n]
           T == {n \in Nat : n <= MaxRanking => Law(n)}
<1>1. MaxRanking \in Nat /\ rank > 0
  BY DEF Search!HybridAssumption
<1>2. 0 \in T
  BY <1>1 DEF Others
<1>3. ASSUME NEW m \in Nat, m \in T PROVE m + 1 \in T
  <2>1. SUFFICES ASSUME m + 1 <= MaxRanking PROVE Law(m + 1)
    OBVIOUS
  <2>2. m + 1 \in 1 .. MaxRanking /\ (m + 1) - 1 = m /\ m <= MaxRanking /\ m \in 0 .. MaxRanking
    BY <1>1, <2>1
  <2>3. u[m + 1] = (k + (m + 1)) * u[m] /\ u[m] \in Nat
    BY <2>2 DEF Others
  <2>4. g[m + 1] = (IF m + 1 = rank THEN g[m] ELSE (k + (m + 1)) * g[m]) /\ g[m] \in Nat
    BY <2>2 DEF Others
  <2>5. u[m] > 0 /\ u[m] = IF m < rank THEN g[m] ELSE (k + rank) * g[m]
    BY <1>3, <2>2
  <2>6. u[m + 1] > 0
    <3>1. \A a, b \in Nat : a > 0 /\ b > 0 => a * b > 0
      OBVIOUS
    <3>2. k + (m + 1) \in Nat /\ k + (m + 1) > 0
      OBVIOUS
    <3>3. QED
      BY <3>1, <3>2, <2>3, <2>5
  <2>7. CASE m + 1 < rank
    BY <2>3, <2>4, <2>5, <2>6, <2>7
  <2>8. CASE m + 1 = rank
    BY <2>3, <2>4, <2>5, <2>6, <2>8
  <2>9. CASE m + 1 > rank
    <3>1. ~(m < rank) /\ ~(m + 1 < rank) /\ m + 1 # rank
      BY <2>9
    <3>2. \A a, b, c \in Nat : a * (b * c) = b * (a * c)
      OBVIOUS
    <3>3. k + (m + 1) \in Nat /\ k + rank \in Nat
      OBVIOUS
    <3>4. (k + (m + 1)) * ((k + rank) * g[m]) = (k + rank) * ((k + (m + 1)) * g[m])
      BY <3>2, <3>3, <2>4
    <3>5. u[m + 1] = (k + rank) * g[m + 1]
      BY <3>1, <3>4, <2>3, <2>4, <2>5
    <3>6. QED
      BY <3>1, <3>5, <2>6
  <2>10. QED
    BY <2>7, <2>8, <2>9
<1>4. Nat \subseteq T
  <2> HIDE DEF T
  <2>1. QED
    BY <1>2, <1>3, AllNaturals
<1>5. QED
  BY <1>1, <1>4

\* Shares are positive, and those of later ranks are smaller.
LEMMA SharesFall ==
  ASSUME Search!HybridAssumption, NEW k \in Nat
  PROVE  /\ \A r \in Nat : Search!Share(k, r) \in Nat
         /\ \A r \in 1 .. MaxRanking : Search!Share(k, r) > 0
         /\ \A q, r \in 1 .. MaxRanking : q < r => Search!Share(k, q) > Search!Share(k, r)
<1>1. MaxRanking \in Nat
  BY DEF Search!HybridAssumption
<1>2. ASSUME NEW r \in Nat PROVE Search!Share(k, r) \in Nat
  <2>1. PICK g : Others(k, r, g) /\ Search!Share(k, r) = g[MaxRanking]
    BY ShareRecurs
  <2>2. QED
    BY <1>1, <2>1 DEF Others
<1>3. PICK u : Others(k, 0, u)
  BY ShareRecurs
<1> DEFINE P == u[MaxRanking]
<1>4. ASSUME NEW r \in 1 .. MaxRanking PROVE P = (k + r) * Search!Share(k, r) /\ P > 0
  <2>1. r \in Nat
    OBVIOUS
  <2>2. PICK g : Others(k, r, g) /\ Search!Share(k, r) = g[MaxRanking]
    BY <2>1, ShareRecurs
  <2>3. QED
    BY <1>3, <2>2, UnitOfShares
<1>5. P \in Nat
  BY <1>1, <1>3 DEF Others
<1> HIDE DEF P
<1>6. ASSUME NEW r \in 1 .. MaxRanking PROVE Search!Share(k, r) > 0
  <2> DEFINE a == Search!Share(k, r)
  <2>1. a \in Nat /\ P = (k + r) * a /\ P > 0
    BY <1>2, <1>4
  <2> HIDE DEF a
  <2>2. a # 0
    BY <2>1
  <2>3. QED
    BY <2>1, <2>2 DEF a
<1>7. ASSUME NEW q \in 1 .. MaxRanking, NEW r \in 1 .. MaxRanking, q < r
      PROVE  Search!Share(k, q) > Search!Share(k, r)
  <2> DEFINE a == Search!Share(k, q)
             b == Search!Share(k, r)
  <2>1. a \in Nat /\ b \in Nat /\ b > 0 /\ P = (k + q) * a /\ P = (k + r) * b
    BY <1>2, <1>4, <1>6
  <2> HIDE DEF a, b
  <2>2. \A c, d, x, y \in Nat : c < d /\ x <= y /\ y > 0 => c * x < d * y
    <3>1. ASSUME NEW c \in Nat, NEW d \in Nat, NEW x \in Nat, NEW y \in Nat, c < d, x <= y, y > 0
          PROVE  c * x < d * y
      <4>1. c * x <= c * y
        BY <3>1
      <4>2. c * y < d * y
        BY <3>1
      <4>3. c * x \in Nat /\ c * y \in Nat /\ d * y \in Nat
        OBVIOUS
      <4>4. QED
        BY <4>1, <4>2, <4>3
    <3>2. QED
      BY <3>1
  <2>3. k + q \in Nat /\ k + r \in Nat /\ k + q < k + r
    BY <1>7
  <2>4. ~(a <= b)
    BY <2>1, <2>2, <2>3
  <2>5. QED
    BY <2>1, <2>4 DEF a, b
<1>8. QED
  BY <1>2, <1>6, <1>7

\* What a fusion is made of.
Fusible(lists, weights, k) ==
  /\ \A l \in 1 .. 2 : lists[l] \in Seq(Int) /\ weights[l] \in Nat
  /\ k \in Nat

Items(lists) == [r \in DOMAIN lists[1] |-> <<1, r>>] \o [r \in DOMAIN lists[2] |-> <<2, r>>]
PlaceOf(lists, l, r) == IF l = 1 THEN r ELSE Len(lists[1]) + r
KeysOf(lists) == Search!Range(lists[1]) \cup Search!Range(lists[2])
Gains == [score : Nat, ranks : [1 .. 2 -> Nat], item : (1 .. 2) \X Nat, best : Nat]
NoGain == [score |-> 0, ranks |-> <<0, 0>>, item |-> <<1, 0>>, best |-> 0]

LEMMA ItemFacts ==
  ASSUME NEW lists, NEW weights, NEW k, Fusible(lists, weights, k)
  PROVE  /\ Len(Items(lists)) = Len(lists[1]) + Len(lists[2]) /\ Len(Items(lists)) \in Nat
         /\ \A n \in 1 .. Len(Items(lists)) : \E l \in 1 .. 2 : \E r \in DOMAIN lists[l] :
              Items(lists)[n] = <<l, r>> /\ PlaceOf(lists, l, r) = n
<1> DEFINE a == [r \in DOMAIN lists[1] |-> <<1, r>>]
           b == [r \in DOMAIN lists[2] |-> <<2, r>>]
           S == (1 .. 2) \X Nat
<1>1. \A l \in 1 .. 2 : Len(lists[l]) \in Nat /\ DOMAIN lists[l] = 1 .. Len(lists[l])
  BY LenProperties DEF Fusible
<1>2. a \in Seq(S) /\ Len(a) = Len(lists[1]) /\ \A r \in 1 .. Len(lists[1]) : a[r] = <<1, r>>
  <2>1. a \in [1 .. Len(lists[1]) -> S] /\ Len(lists[1]) \in Nat
    BY <1>1
  <2>2. \A r \in 1 .. Len(lists[1]) : a[r] = <<1, r>>
    BY <1>1
  <2> HIDE DEF a
  <2>3. QED
    BY <2>1, <2>2, SeqDef, LenProperties
<1>3. b \in Seq(S) /\ Len(b) = Len(lists[2]) /\ \A r \in 1 .. Len(lists[2]) : b[r] = <<2, r>>
  <2>1. b \in [1 .. Len(lists[2]) -> S] /\ Len(lists[2]) \in Nat
    BY <1>1
  <2>2. \A r \in 1 .. Len(lists[2]) : b[r] = <<2, r>>
    BY <1>1
  <2> HIDE DEF b
  <2>3. QED
    BY <2>1, <2>2, SeqDef, LenProperties
<1>4. Items(lists) = a \o b
  BY DEF Items
<1> HIDE DEF a, b, S
<1>5. /\ Len(a \o b) = Len(a) + Len(b)
      /\ \A i \in 1 .. Len(a) + Len(b) : (a \o b)[i] = IF i <= Len(a) THEN a[i] ELSE b[i - Len(a)]
  <2>1. \A x, y \in Seq(S) :
          /\ Len(x \o y) = Len(x) + Len(y)
          /\ \A i \in 1 .. Len(x) + Len(y) : (x \o y)[i] = IF i <= Len(x) THEN x[i] ELSE y[i - Len(x)]
    BY ConcatProperties
  <2>2. a \in Seq(S) /\ b \in Seq(S)
    BY <1>2, <1>3
  <2> HIDE DEF S, a, b
  <2>3. QED
    BY <2>1, <2>2
<1>10. /\ Len(lists[1]) \in Nat /\ Len(lists[2]) \in Nat /\ Len(Items(lists)) = Len(lists[1]) + Len(lists[2])
      /\ DOMAIN lists[1] = 1 .. Len(lists[1]) /\ DOMAIN lists[2] = 1 .. Len(lists[2])
  <2>1. 1 \in 1 .. 2 /\ 2 \in 1 .. 2
    OBVIOUS
  <2>2. QED
    BY <2>1, <1>1, <1>2, <1>3, <1>4, <1>5
<1>6. ASSUME NEW n \in 1 .. Len(Items(lists))
      PROVE  \E l \in 1 .. 2 : \E r \in DOMAIN lists[l] :
               Items(lists)[n] = <<l, r>> /\ PlaceOf(lists, l, r) = n
  <2>1. n \in 1 .. Len(lists[1]) + Len(lists[2]) /\ Len(lists[1]) \in Nat /\ Len(lists[2]) \in Nat
    BY <1>10
  <2>2. CASE n <= Len(lists[1])
    <3>1. n \in DOMAIN lists[1] /\ Items(lists)[n] = <<1, n>>
      BY <2>1, <2>2, <1>1, <1>2, <1>3, <1>4, <1>5
    <3>2. PlaceOf(lists, 1, n) = n
      BY DEF PlaceOf
    <3>3. QED
      BY <3>1, <3>2
  <2>3. CASE ~(n <= Len(lists[1]))
    <3>1. PICK r : r = n - Len(lists[1])
      OBVIOUS
    <3>2. r \in 1 .. Len(lists[2]) /\ Len(lists[1]) + r = n
      <4>1. \A p, q \in Nat : \A i \in 1 .. p + q : ~(i <= p) => i - p \in 1 .. q /\ p + (i - p) = i
        OBVIOUS
      <4>2. QED
        BY <4>1, <3>1, <2>1, <2>3
    <3>3. Items(lists)[n] = b[r]
      BY <3>1, <2>1, <2>3, <1>2, <1>3, <1>4, <1>5
    <3>4. r \in DOMAIN lists[2] /\ Items(lists)[n] = <<2, r>>
      BY <3>2, <3>3, <1>1, <1>3
    <3>5. PlaceOf(lists, 2, r) = n
      BY <3>2 DEF PlaceOf
    <3>6. QED
      BY <3>4, <3>5
  <2>4. QED
    BY <2>2, <2>3
<1>7. Len(Items(lists)) = Len(lists[1]) + Len(lists[2]) /\ Len(Items(lists)) \in Nat
  <2>1. \A p, q \in Nat : p + q \in Nat
    OBVIOUS
  <2>2. QED
    BY <2>1, <1>10
<1>8. QED
  BY <1>7, <1>6

LEMMA AddStays ==
  ASSUME Search!HybridAssumption, NEW lists, NEW weights, NEW k, Fusible(lists, weights, k),
         NEW acc \in [KeysOf(lists) -> Gains], NEW l \in 1 .. 2, NEW r \in DOMAIN lists[l]
  PROVE  Search!Add(lists, weights, k, acc, <<l, r>>) \in [KeysOf(lists) -> Gains]
<1> DEFINE key == lists[l][r]
           i == acc[key]
           v == weights[l] * Search!Share(k, r)
           new == [score |-> i.score + v, ranks |-> [i.ranks EXCEPT ![l] = r],
                   item |-> IF i.best = 0 THEN <<l, r>> ELSE i.item,
                   best |-> IF i.best = 0 \/ r < i.best THEN r ELSE i.best]
<1>1. key \in KeysOf(lists)
  BY DEF KeysOf, Search!Range
<1>2. i \in Gains
  BY <1>1
<1>3. r \in Nat
  BY LenProperties DEF Fusible
<1>4. v \in Nat
  <2>1. weights[l] \in Nat /\ Search!Share(k, r) \in Nat
    BY <1>3, SharesFall DEF Fusible
  <2>2. \A a, b \in Nat : a * b \in Nat
    OBVIOUS
  <2>3. QED
    BY <2>1, <2>2
<1>5. new \in Gains
  <2> HIDE DEF i, v
  <2>1. i.score + v \in Nat /\ [i.ranks EXCEPT ![l] = r] \in [1 .. 2 -> Nat]
    BY <1>2, <1>3, <1>4 DEF Gains
  <2>2. (IF i.best = 0 THEN <<l, r>> ELSE i.item) \in (1 .. 2) \X Nat
    BY <1>2, <1>3 DEF Gains
  <2>3. (IF i.best = 0 \/ r < i.best THEN r ELSE i.best) \in Nat
    BY <1>2, <1>3 DEF Gains
  <2>4. QED
    BY <2>1, <2>2, <2>3 DEF Gains
<1>6. Search!Add(lists, weights, k, acc, <<l, r>>)
        = IF weights[l] = 0 \/ i.ranks[l] # 0 THEN acc ELSE [acc EXCEPT ![key] = new]
  BY <1>1 DEF Search!Add
<1> HIDE DEF key, i, new
<1>7. QED
  BY <1>1, <1>5, <1>6

\* Added, as the last of a sequence that adds one item after the other.
AddsUp(lists, weights, k, g) ==
  /\ g \in [0 .. Len(Items(lists)) -> [KeysOf(lists) -> Gains]]
  /\ g[0] = [x \in KeysOf(lists) |-> NoGain]
  /\ \A n \in 1 .. Len(Items(lists)) :
       g[n] = Search!Add(lists, weights, k, g[n - 1], Items(lists)[n])

LEMMA AddedRecurs ==
  ASSUME Search!HybridAssumption, NEW lists, NEW weights, NEW k, Fusible(lists, weights, k)
  PROVE  \E g : AddsUp(lists, weights, k, g) /\ Search!Added(lists, weights, k) = g[Len(Items(lists))]
<1> DEFINE items == Items(lists)
           N == Len(items)
           S == [KeysOf(lists) -> Gains]
           e == [x \in KeysOf(lists) |-> NoGain]
           A(c, n) == Search!Add(lists, weights, k, c, items[n])
           Val(f, n) == IF n = 0 THEN e ELSE A(f[n - 1], n)
           Solves(f) == f = [n \in 0 .. N |-> Val(f, n)]
           op == [x \in S \X (1 .. N) |-> A(x[1], x[2])]
<1>1. N \in Nat
  BY ItemFacts
<1>2. e \in S
  <2>1. <<0, 0>> \in [1 .. 2 -> Nat] /\ <<1, 0>> \in (1 .. 2) \X Nat
    OBVIOUS
  <2>2. NoGain \in Gains
    BY <2>1 DEF NoGain, Gains
  <2>3. QED
    BY <2>2
<1>3. \A c \in S, n \in 1 .. N : A(c, n) \in S
  <2>1. ASSUME NEW c \in S, NEW n \in 1 .. N PROVE A(c, n) \in S
    <3>1. PICK l \in 1 .. 2 : \E r \in DOMAIN lists[l] : items[n] = <<l, r>>
      BY ItemFacts
    <3>2. PICK r \in DOMAIN lists[l] : items[n] = <<l, r>>
      BY <3>1
    <3> HIDE DEF items
    <3>3. QED
      BY <3>2, AddStays
  <2>2. QED
    BY <2>1
<1> HIDE DEF A, e, S, N
<1>4. op \in [S \X (1 .. N) -> S]
  BY <1>3
<1>5. \A c \in S, n \in 1 .. N : op[<<c, n>>] = A(c, n)
  OBVIOUS
<1> HIDE DEF op
<1>6. PICK f : IsRecursive(f, S, e, N, op)
  <2>1. Recurs(S, e, N, op)
    BY <1>1, <1>2, <1>4 DEF Recurs
  <2>2. QED
    BY <2>1, Recursion
<1>7. \A n \in 0 .. N : f[n] = Val(f, n)
  <2>1. ASSUME NEW n \in 1 .. N PROVE f[n] = A(f[n - 1], n)
    <3>1. f[n - 1] \in S
      BY <1>1, <1>6 DEF IsRecursive
    <3>2. QED
      BY <3>1, <1>5, <1>6 DEF IsRecursive
  <2>2. f[0] = e /\ \A n \in 0 .. N : n = 0 \/ n \in 1 .. N
    BY <1>1, <1>6 DEF IsRecursive
  <2>3. QED
    BY <2>1, <2>2
<1>8. Solves(f)
  <2> HIDE DEF Val
  <2>1. QED
    BY <1>6, <1>7 DEF IsRecursive
<1> DEFINE g == CHOOSE h : Solves(h)
<1>9. Solves(g)
  <2> HIDE DEF Solves
  <2>1. QED
    BY <1>8
<1>10. Search!Added(lists, weights, k) = g[N]
  BY DEF Search!Added, N, A, e, Items, KeysOf, NoGain
<1> HIDE DEF g
<1>11. \A n \in 0 .. N : g[n] = Val(g, n)
  <2> HIDE DEF Val
  <2>1. QED
    BY <1>9
<1>12. \A n \in 1 .. N : g[n] = A(g[n - 1], n)
  BY <1>1, <1>11
<1>13. g[0] = e
  BY <1>1, <1>11
<1>14. g = [n \in 0 .. N |-> g[n]]
  BY <1>9
<1> DEFINE T == {n \in Nat : n <= N => g[n] \in S}
<1>15. 0 \in T
  BY <1>2, <1>13
<1>16. ASSUME NEW m \in Nat, m \in T PROVE m + 1 \in T
  <2>1. SUFFICES ASSUME m + 1 <= N PROVE g[m + 1] \in S
    OBVIOUS
  <2>2. m + 1 \in 1 .. N /\ (m + 1) - 1 = m /\ m <= N
    BY <1>1, <2>1
  <2>3. g[m + 1] = A(g[m], m + 1)
    BY <1>12, <2>2
  <2>4. g[m] \in S
    BY <1>16, <2>2
  <2>5. QED
    BY <2>2, <2>3, <2>4, <1>3
<1>17. Nat \subseteq T
  <2> HIDE DEF T
  <2>1. QED
    BY <1>15, <1>16, AllNaturals
<1>18. g \in [0 .. N -> S]
  BY <1>1, <1>14, <1>17
<1>19. AddsUp(lists, weights, k, g)
  BY <1>12, <1>13, <1>18 DEF AddsUp, N, S, e, A
<1>20. QED
  BY <1>10, <1>19 DEF N

\* The rank of a key among the first n items.
Ranked(lists, weights, x, l, n) ==
  LET f == Search!FirstRank(x, lists[l])
  IN IF weights[l] # 0 /\ f > 0 /\ PlaceOf(lists, l, f) <= n THEN f ELSE 0
Worth(weights, k, i, l) ==
  IF i.ranks[l] = 0 THEN 0 ELSE weights[l] * Search!Share(k, i.ranks[l])
Gained(lists, weights, k, x, i, n) ==
  /\ \A l \in 1 .. 2 : i.ranks[l] = Ranked(lists, weights, x, l, n)
  /\ i.score = Worth(weights, k, i, 1) + Worth(weights, k, i, 2)
  /\ i.best > 0 <=> i.ranks[1] > 0 \/ i.ranks[2] > 0

\* An item changes the rank of its key, and only if it is the first.
LEMMA RankedOnce ==
  ASSUME NEW lists, NEW weights, NEW k, Fusible(lists, weights, k), NEW n \in Nat,
         NEW l \in 1 .. 2, NEW r \in DOMAIN lists[l], PlaceOf(lists, l, r) = n + 1
  PROVE  /\ \A x : \A m \in 1 .. 2 : m # l \/ Search!FirstRank(x, lists[m]) # r =>
              Ranked(lists, weights, x, m, n + 1) = Ranked(lists, weights, x, m, n)
         /\ \A x : x # lists[l][r] => Search!FirstRank(x, lists[l]) # r
         /\ Ranked(lists, weights, lists[l][r], l, n) # 0 =>
              Search!FirstRank(lists[l][r], lists[l]) # r
         /\ weights[l] # 0 /\ Ranked(lists, weights, lists[l][r], l, n) = 0 =>
              Ranked(lists, weights, lists[l][r], l, n + 1) = r
<1> DEFINE F(x, m) == Search!FirstRank(x, lists[m])
<1>1. \A m \in 1 .. 2 : Len(lists[m]) \in Nat /\ DOMAIN lists[m] = 1 .. Len(lists[m])
  BY LenProperties DEF Fusible
<1>2. ASSUME NEW x, NEW m \in 1 .. 2
      PROVE  /\ F(x, m) \in 0 .. Len(lists[m]) /\ (F(x, m) = 0 <=> \A q \in DOMAIN lists[m] : lists[m][q] # x)
             /\ F(x, m) > 0 => lists[m][F(x, m)] = x /\ \A q \in 1 .. F(x, m) - 1 : lists[m][q] # x
  <2>1. lists[m] \in Seq(Int)
    BY DEF Fusible
  <2>2. QED
    BY <2>1, FirstRankFacts
<1>3. \A x, m : Ranked(lists, weights, x, m, n)
        = IF weights[m] # 0 /\ F(x, m) > 0 /\ PlaceOf(lists, m, F(x, m)) <= n THEN F(x, m) ELSE 0
  BY DEF Ranked
<1>4. \A x, m : Ranked(lists, weights, x, m, n + 1)
        = IF weights[m] # 0 /\ F(x, m) > 0 /\ PlaceOf(lists, m, F(x, m)) <= n + 1 THEN F(x, m) ELSE 0
  BY DEF Ranked
<1> HIDE DEF F
<1>5. PICK a \in Nat, b \in Nat : a = Len(lists[1]) /\ b = Len(lists[2])
  <2>1. 1 \in 1 .. 2 /\ 2 \in 1 .. 2
    OBVIOUS
  <2>2. QED
    BY <2>1, <1>1
<1>6. r \in 1 .. Len(lists[l]) /\ r \in Nat
  BY <1>1
<1>7. \A m \in 1 .. 2 : \A f : PlaceOf(lists, m, f) = IF m = 1 THEN f ELSE a + f
  BY <1>5 DEF PlaceOf
<1>8. ASSUME NEW m \in 1 .. 2, NEW f \in 1 .. Len(lists[m]), m # l \/ f # r
      PROVE  PlaceOf(lists, m, f) # n + 1 /\ PlaceOf(lists, m, f) \in Nat
  <2>1. n + 1 = IF l = 1 THEN r ELSE a + r
    BY <1>7
  <2>2. PlaceOf(lists, m, f) = IF m = 1 THEN f ELSE a + f
    BY <1>7
  <2>3. CASE m = 1 /\ l = 1
    BY <2>1, <2>2, <2>3, <1>5, <1>6, <1>8
  <2>4. CASE m = 1 /\ l = 2
    <3>1. f \in 1 .. a /\ n + 1 = a + r /\ PlaceOf(lists, m, f) = f
      BY <2>1, <2>2, <2>4, <1>5
    <3>2. QED
      BY <3>1, <1>6
  <2>5. CASE m = 2 /\ l = 1
    <3>1. r \in 1 .. a /\ n + 1 = r /\ PlaceOf(lists, m, f) = a + f /\ f \in 1 .. b
      BY <2>1, <2>2, <2>5, <1>5, <1>6
    <3>2. QED
      BY <3>1
  <2>6. CASE m = 2 /\ l = 2
    <3>1. f \in 1 .. b /\ n + 1 = a + r /\ PlaceOf(lists, m, f) = a + f /\ f # r
      BY <2>1, <2>2, <2>6, <1>5, <1>8
    <3>2. QED
      BY <3>1, <1>6
  <2>7. QED
    BY <2>3, <2>4, <2>5, <2>6
<1>9. ASSUME NEW x, NEW m \in 1 .. 2, m # l \/ F(x, m) # r
      PROVE  Ranked(lists, weights, x, m, n + 1) = Ranked(lists, weights, x, m, n)
  <2>1. CASE F(x, m) = 0
    BY <2>1, <1>3, <1>4
  <2>2. CASE F(x, m) > 0
    <3>1. F(x, m) \in 1 .. Len(lists[m])
      <4>1. Len(lists[m]) \in Nat /\ F(x, m) \in 0 .. Len(lists[m])
        BY <1>1, <1>2
      <4>2. QED
        BY <4>1, <2>2
    <3>2. PICK p : p = PlaceOf(lists, m, F(x, m))
      OBVIOUS
    <3>3. p # n + 1 /\ p \in Nat
      BY <3>1, <3>2, <1>8, <1>9
    <3>4. p <= n + 1 <=> p <= n
      BY <3>3
    <3>5. QED
      BY <3>2, <3>4, <1>3, <1>4
  <2>3. F(x, m) = 0 \/ F(x, m) > 0
    <3>1. Len(lists[m]) \in Nat /\ F(x, m) \in 0 .. Len(lists[m])
      BY <1>1, <1>2
    <3>2. QED
      BY <3>1
  <2>4. QED
    BY <2>1, <2>2, <2>3
<1>10. ASSUME NEW x, x # lists[l][r] PROVE F(x, l) # r
  <2>1. r > 0
    BY <1>6, <1>1
  <2>2. F(x, l) > 0 => lists[l][F(x, l)] = x
    BY <1>2
  <2>3. QED
    BY <2>1, <2>2, <1>10
<1> DEFINE key == lists[l][r]
<1>11. F(key, l) \in 1 .. r
  <2>1. F(key, l) \in 0 .. Len(lists[l]) /\ Len(lists[l]) \in Nat
    BY <1>1, <1>2
  <2>2. F(key, l) # 0
    BY <1>2
  <2>3. F(key, l) > 0
    BY <2>1, <2>2
  <2>4. \A q \in 1 .. F(key, l) - 1 : lists[l][q] # key
    BY <2>3, <1>2
  <2> HIDE DEF key
  <2>5. r \notin 1 .. F(key, l) - 1
    BY <2>4 DEF key
  <2>6. QED
    BY <2>1, <2>3, <2>5, <1>6
<1>12. PlaceOf(lists, l, r) = n + 1
  OBVIOUS
<1> HIDE DEF key
<1>13. Ranked(lists, weights, key, l, n) # 0 => F(key, l) # r
  <2>1. SUFFICES ASSUME F(key, l) = r PROVE Ranked(lists, weights, key, l, n) = 0
    OBVIOUS
  <2>2. ~(n + 1 <= n)
    OBVIOUS
  <2>3. ~(PlaceOf(lists, l, F(key, l)) <= n)
    BY <2>1, <2>2, <1>12
  <2>4. QED
    BY <2>3, <1>3
<1>14. ASSUME weights[l] # 0, Ranked(lists, weights, key, l, n) = 0
       PROVE  Ranked(lists, weights, key, l, n + 1) = r
  <2>1. F(key, l) > 0 /\ F(key, l) \in Nat
    BY <1>6, <1>11
  <2>2. ~(PlaceOf(lists, l, F(key, l)) <= n)
    BY <2>1, <1>3, <1>14
  <2>3. F(key, l) = r
    <3>1. SUFFICES ASSUME F(key, l) < r PROVE FALSE
      BY <1>6, <1>11
    <3>2. PICK f \in Nat : f = F(key, l) /\ f < r
      BY <2>1, <3>1
    <3>3. PlaceOf(lists, l, f) < PlaceOf(lists, l, r)
      BY <1>6, <1>7, <3>2
    <3>4. PlaceOf(lists, l, f) \in Nat
      BY <1>7, <3>2
    <3>5. QED
      BY <3>2, <3>3, <3>4, <2>2, <1>12
  <2>4. n + 1 <= n + 1
    OBVIOUS
  <2>5. PlaceOf(lists, l, F(key, l)) <= n + 1
    BY <2>3, <2>4, <1>12
  <2>6. QED
    BY <2>1, <2>3, <2>5, <1>4, <1>14
<1>15. QED
  BY <1>9, <1>10, <1>13, <1>14 DEF F, key

LEMMA AddGains ==
  ASSUME Search!HybridAssumption, NEW lists, NEW weights, NEW k, Fusible(lists, weights, k),
         NEW acc \in [KeysOf(lists) -> Gains], NEW n \in Nat,
         \A x \in KeysOf(lists) : Gained(lists, weights, k, x, acc[x], n),
         NEW l \in 1 .. 2, NEW r \in DOMAIN lists[l], PlaceOf(lists, l, r) = n + 1
  PROVE  \A x \in KeysOf(lists) :
           Gained(lists, weights, k, x, Search!Add(lists, weights, k, acc, <<l, r>>)[x], n + 1)
<1> DEFINE key == lists[l][r]
           i == acc[key]
           v == weights[l] * Search!Share(k, r)
           new == [score |-> i.score + v, ranks |-> [i.ranks EXCEPT ![l] = r],
                   item |-> IF i.best = 0 THEN <<l, r>> ELSE i.item,
                   best |-> IF i.best = 0 \/ r < i.best THEN r ELSE i.best]
           d == Search!Add(lists, weights, k, acc, <<l, r>>)
           Rank(x, m, p) == Ranked(lists, weights, x, m, p)
           OK(x, j, p) == Gained(lists, weights, k, x, j, p)
<1>1. key \in KeysOf(lists)
  BY DEF KeysOf, Search!Range
<1>2. r \in Nat /\ r > 0
  <2>1. Len(lists[l]) \in Nat /\ DOMAIN lists[l] = 1 .. Len(lists[l])
    BY LenProperties DEF Fusible
  <2>2. QED
    BY <2>1
<1>3. v \in Nat
  <2>1. weights[l] \in Nat /\ Search!Share(k, r) \in Nat
    BY <1>2, SharesFall DEF Fusible
  <2>2. \A a, b \in Nat : a * b \in Nat
    OBVIOUS
  <2>3. QED
    BY <2>1, <2>2
<1>4. d = IF weights[l] = 0 \/ i.ranks[l] # 0 THEN acc ELSE [acc EXCEPT ![key] = new]
  BY <1>1 DEF Search!Add
<1>5. /\ \A x : \A m \in 1 .. 2 :
           m # l \/ Search!FirstRank(x, lists[m]) # r => Rank(x, m, n + 1) = Rank(x, m, n)
      /\ \A x : x # key => Search!FirstRank(x, lists[l]) # r
      /\ Rank(key, l, n) # 0 => Search!FirstRank(key, lists[l]) # r
      /\ weights[l] # 0 /\ Rank(key, l, n) = 0 => Rank(key, l, n + 1) = r
  BY RankedOnce
<1>6. \A x \in KeysOf(lists) : OK(x, acc[x], n)
  OBVIOUS
<1>7. weights[l] = 0 => \A x : Rank(x, l, n) = 0 /\ Rank(x, l, n + 1) = 0
  BY DEF Ranked
<1>8. i.ranks[l] = Rank(key, l, n) /\ i \in Gains
  BY <1>1, <1>6 DEF Gained
<1> HIDE DEF key, d, v, Rank, OK
<1>9. ASSUME NEW x \in KeysOf(lists), \A m \in 1 .. 2 : Rank(x, m, n + 1) = Rank(x, m, n)
      PROVE  OK(x, acc[x], n + 1)
  BY <1>6, <1>9 DEF OK, Gained, Rank
<1>10. CASE weights[l] = 0 \/ i.ranks[l] # 0
  <2>1. d = acc
    BY <1>4, <1>10
  <2>2. ASSUME NEW x \in KeysOf(lists) PROVE OK(x, acc[x], n + 1)
    <3>1. ASSUME NEW m \in 1 .. 2 PROVE Rank(x, m, n + 1) = Rank(x, m, n)
      BY <1>5, <1>7, <1>8, <1>10
    <3>2. QED
      BY <3>1, <1>9
  <2>3. QED
    BY <2>1, <2>2 DEF OK, d
<1>11. CASE ~(weights[l] = 0 \/ i.ranks[l] # 0)
  <2> HIDE DEF i, new
  <2>1. d = [acc EXCEPT ![key] = new]
    BY <1>4, <1>11
  <2>2. ASSUME NEW x \in KeysOf(lists), x # key PROVE OK(x, d[x], n + 1)
    <3>1. ASSUME NEW m \in 1 .. 2 PROVE Rank(x, m, n + 1) = Rank(x, m, n)
      BY <1>5, <2>2
    <3>2. d[x] = acc[x]
      BY <2>1, <2>2
    <3>3. QED
      BY <3>1, <3>2, <1>9
  <2>3. d[key] = new
    BY <2>1, <1>1
  <2>4. PICK o \in 1 .. 2 : o # l
    <3>1. 3 - l \in 1 .. 2 /\ 3 - l # l
      OBVIOUS
    <3>2. QED
      BY <3>1
  <2>5. \A m \in 1 .. 2 : m = l \/ m = o
    BY <2>4
  <2>6. new.ranks[l] = r /\ new.ranks[o] = i.ranks[o] /\ new.ranks \in [1 .. 2 -> Nat]
    BY <1>2, <1>8, <2>4 DEF new, Gains
  <2>7. Rank(key, l, n + 1) = r /\ Rank(key, o, n + 1) = Rank(key, o, n)
    BY <1>5, <1>8, <1>11, <2>4
  <2>8. OK(key, i, n)
    BY <1>1, <1>6 DEF i
  <2>9. \A m \in 1 .. 2 : new.ranks[m] = Rank(key, m, n + 1)
    BY <2>5, <2>6, <2>7, <2>8 DEF OK, Gained, Rank
  <2>10. new.score = Worth(weights, k, new, 1) + Worth(weights, k, new, 2)
    <3>1. new.score = i.score + v
      BY DEF new
    <3>2. i.score = Worth(weights, k, i, 1) + Worth(weights, k, i, 2)
      BY <2>8 DEF OK, Gained
    <3>3. Worth(weights, k, new, l) = v /\ Worth(weights, k, i, l) = 0
      BY <2>6, <1>2, <1>11 DEF Worth, v
    <3>4. Worth(weights, k, new, o) = Worth(weights, k, i, o)
      BY <2>6 DEF Worth
    <3>5. Worth(weights, k, i, o) \in Nat
      <4>1. i.ranks[o] \in Nat /\ weights[o] \in Nat
        BY <1>8 DEF Gains, Fusible
      <4>2. Search!Share(k, i.ranks[o]) \in Nat
        BY <4>1, SharesFall DEF Fusible
      <4>3. \A a, b \in Nat : a * b \in Nat
        OBVIOUS
      <4>4. QED
        BY <4>1, <4>2, <4>3 DEF Worth
    <3>6. (l = 1 /\ o = 2) \/ (l = 2 /\ o = 1)
      BY <2>4
    <3>7. QED
      BY <3>1, <3>2, <3>3, <3>4, <3>5, <3>6, <1>3
  <2>11. new.best > 0
    BY <1>2, <1>8 DEF new, Gains
  <2>12. new.ranks[1] > 0 \/ new.ranks[2] > 0
    BY <2>6, <1>2
  <2>13. OK(key, new, n + 1)
    BY <2>9, <2>10, <2>11, <2>12 DEF OK, Gained, Rank
  <2>14. QED
    BY <2>2, <2>3, <2>13 DEF OK, d
<1>12. QED
  BY <1>10, <1>11

\* What the fusion has added up: for each key its first rank in each list that counts.
LEMMA AddedFacts ==
  ASSUME Search!HybridAssumption, NEW lists, NEW weights, NEW k, Fusible(lists, weights, k)
  PROVE  LET acc == Search!Added(lists, weights, k)
         IN /\ acc \in [KeysOf(lists) -> Gains]
            /\ \A x \in KeysOf(lists) :
                 Gained(lists, weights, k, x, acc[x], Len(lists[1]) + Len(lists[2]))
<1> DEFINE N == Len(Items(lists))
           OK(c, n) == \A x \in KeysOf(lists) : Gained(lists, weights, k, x, c[x], n)
<1>1. PICK g : AddsUp(lists, weights, k, g) /\ Search!Added(lists, weights, k) = g[N]
  BY AddedRecurs
<1>2. N \in Nat
  BY ItemFacts
<1>10. N = Len(lists[1]) + Len(lists[2])
  BY ItemFacts
<1>3. \A n \in 0 .. N : g[n] \in [KeysOf(lists) -> Gains]
  BY <1>1 DEF AddsUp
<1> DEFINE T == {n \in Nat : n <= N => OK(g[n], n)}
<1> HIDE DEF N
<1>4. OK(g[0], 0)
  <2>1. g[0] = [x \in KeysOf(lists) |-> NoGain]
    BY <1>1 DEF AddsUp
  <2>2. ASSUME NEW x \in KeysOf(lists) PROVE Gained(lists, weights, k, x, NoGain, 0)
    <3>1. NoGain.ranks[1] = 0 /\ NoGain.ranks[2] = 0 /\ NoGain.score = 0 /\ NoGain.best = 0
      BY DEF NoGain
    <3>2. ASSUME NEW m \in 1 .. 2 PROVE Ranked(lists, weights, x, m, 0) = 0
      <4>1. PICK f : f = Search!FirstRank(x, lists[m])
        OBVIOUS
      <4>2. f \in 0 .. Len(lists[m]) /\ Len(lists[m]) \in Nat /\ Len(lists[1]) \in Nat
        <5>1. lists[m] \in Seq(Int) /\ lists[1] \in Seq(Int)
          BY DEF Fusible
        <5>2. QED
          BY <5>1, <4>1, FirstRankFacts, LenProperties
      <4>3. f > 0 => ~(PlaceOf(lists, m, f) <= 0)
        BY <4>2 DEF PlaceOf
      <4>4. QED
        BY <4>1, <4>3 DEF Ranked
    <3>3. Worth(weights, k, NoGain, 1) = 0 /\ Worth(weights, k, NoGain, 2) = 0
      BY <3>1 DEF Worth
    <3>4. \A m \in 1 .. 2 : NoGain.ranks[m] = 0
      BY <3>1
    <3> HIDE DEF NoGain
    <3>5. QED
      BY <3>1, <3>2, <3>3, <3>4 DEF Gained
  <2>3. QED
    BY <2>1, <2>2
<1>5. 0 \in T
  <2> HIDE DEF OK
  <2>1. QED
    BY <1>4
<1>6. ASSUME NEW m \in Nat, m \in T PROVE m + 1 \in T
  <2>1. SUFFICES ASSUME m + 1 <= N PROVE OK(g[m + 1], m + 1)
    OBVIOUS
  <2>2. m + 1 \in 1 .. N /\ (m + 1) - 1 = m /\ m <= N /\ m \in 0 .. N
    BY <1>2, <2>1
  <2>3. g[m + 1] = Search!Add(lists, weights, k, g[m], Items(lists)[m + 1])
    BY <1>1, <2>2 DEF AddsUp, N
  <2>4. OK(g[m], m)
    BY <1>6, <2>2
  <2>5. PICK l \in 1 .. 2 : \E r \in DOMAIN lists[l] :
          Items(lists)[m + 1] = <<l, r>> /\ PlaceOf(lists, l, r) = m + 1
    BY <2>2, ItemFacts DEF N
  <2>6. PICK r \in DOMAIN lists[l] : Items(lists)[m + 1] = <<l, r>> /\ PlaceOf(lists, l, r) = m + 1
    BY <2>5
  <2>7. g[m] \in [KeysOf(lists) -> Gains]
    BY <1>3, <2>2
  <2>8. OK(Search!Add(lists, weights, k, g[m], <<l, r>>), m + 1)
    BY <2>4, <2>6, <2>7, AddGains
  <2> HIDE DEF OK
  <2>9. QED
    BY <2>3, <2>6, <2>8
<1>7. Nat \subseteq T
  <2> HIDE DEF T
  <2>1. QED
    BY <1>5, <1>6, AllNaturals
<1>8. OK(g[N], N)
  <2> HIDE DEF OK
  <2>1. QED
    BY <1>2, <1>7
<1>9. g[N] \in [KeysOf(lists) -> Gains]
  BY <1>2, <1>3
<1>11. QED
  BY <1>1, <1>10, <1>8, <1>9

\* The rank of a key in a list that counts, and what the formula gives to it.
Counted(lists, weights, x, l) == IF weights[l] = 0 THEN 0 ELSE Search!FirstRank(x, lists[l])
Gain(lists, weights, k, x, l) ==
  LET r == Search!FirstRank(x, lists[l]) IN IF r = 0 THEN 0 ELSE weights[l] * Search!Share(k, r)
Total(lists, weights, k, x) == Gain(lists, weights, k, x, 1) + Gain(lists, weights, k, x, 2)

LEMMA GainFacts ==
  ASSUME Search!HybridAssumption, NEW lists, NEW weights, NEW k, Fusible(lists, weights, k), NEW x,
         NEW l \in 1 .. 2
  PROVE  /\ Gain(lists, weights, k, x, l) \in Nat /\ Search!FirstRank(x, lists[l]) \in Nat
         /\ Search!FirstRank(x, lists[l]) <= Len(lists[l]) /\ Len(lists[l]) \in Nat
<1>1. lists[l] \in Seq(Int) /\ weights[l] \in Nat
  BY DEF Fusible
<1>2. PICK r : r = Search!FirstRank(x, lists[l])
  OBVIOUS
<1>3. r \in 0 .. Len(lists[l]) /\ Len(lists[l]) \in Nat
  BY <1>1, <1>2, FirstRankFacts, LenProperties
<1>4. r \in Nat /\ r <= Len(lists[l])
  BY <1>3
<1>5. Search!Share(k, r) \in Nat
  BY <1>4, SharesFall DEF Fusible
<1>6. weights[l] * Search!Share(k, r) \in Nat
  <2>1. \A a, b \in Nat : a * b \in Nat
    OBVIOUS
  <2>2. QED
    BY <2>1, <1>1, <1>5
<1>7. QED
  BY <1>2, <1>3, <1>4, <1>6 DEF Gain

LEMMA AddedTotals ==
  ASSUME Search!HybridAssumption, NEW lists, NEW weights, NEW k, Fusible(lists, weights, k)
  PROVE  LET acc == Search!Added(lists, weights, k)
         IN /\ acc \in [KeysOf(lists) -> Gains]
            /\ \A x \in KeysOf(lists) :
                 /\ \A l \in 1 .. 2 : acc[x].ranks[l] = Counted(lists, weights, x, l)
                 /\ acc[x].score = Total(lists, weights, k, x)
                 /\ acc[x].best > 0 <=> \E l \in 1 .. 2 : Counted(lists, weights, x, l) > 0
<1> DEFINE acc == Search!Added(lists, weights, k)
           N == Len(lists[1]) + Len(lists[2])
<1>1. acc \in [KeysOf(lists) -> Gains] /\ \A x \in KeysOf(lists) : Gained(lists, weights, k, x, acc[x], N)
  BY AddedFacts
<1> HIDE DEF acc
<1>2. ASSUME NEW x, NEW l \in 1 .. 2 PROVE Ranked(lists, weights, x, l, N) = Counted(lists, weights, x, l)
  <2>1. PICK f : f = Search!FirstRank(x, lists[l])
    OBVIOUS
  <2>2. PICK a \in Nat, b \in Nat : a = Len(lists[1]) /\ b = Len(lists[2])
    BY LenProperties DEF Fusible
  <2>3. f \in Nat /\ f <= IF l = 1 THEN a ELSE b
    BY <2>1, <2>2, GainFacts
  <2>4. PlaceOf(lists, l, f) <= N
    <3>1. PlaceOf(lists, l, f) = IF l = 1 THEN f ELSE a + f
      BY <2>2 DEF PlaceOf
    <3>2. (IF l = 1 THEN f ELSE a + f) <= a + b
      BY <2>3
    <3>3. QED
      BY <3>1, <3>2, <2>2
  <2>5. f > 0 \/ f = 0
    BY <2>3
  <2> HIDE DEF N
  <2>6. QED
    BY <2>1, <2>4, <2>5 DEF Ranked, Counted
<1>3. ASSUME NEW x \in KeysOf(lists)
      PROVE  /\ \A l \in 1 .. 2 : acc[x].ranks[l] = Counted(lists, weights, x, l)
             /\ acc[x].score = Total(lists, weights, k, x)
             /\ acc[x].best > 0 <=> \E l \in 1 .. 2 : Counted(lists, weights, x, l) > 0
  <2> HIDE DEF N
  <2>0. Gained(lists, weights, k, x, acc[x], N)
    BY <1>1
  <2>1. Gained(lists, weights, k, x, acc[x], N) /\ 1 \in 1 .. 2 /\ 2 \in 1 .. 2
    BY <2>0
  <2>2. \A l \in 1 .. 2 : acc[x].ranks[l] = Counted(lists, weights, x, l)
    BY <2>1, <1>2 DEF Gained
  <2>3. ASSUME NEW l \in 1 .. 2 PROVE Worth(weights, k, acc[x], l) = Gain(lists, weights, k, x, l)
    <3>1. PICK r : r = Search!FirstRank(x, lists[l])
      OBVIOUS
    <3>2. r \in Nat
      BY <3>1, GainFacts
    <3>3. CASE weights[l] = 0
      <4>1. Search!Share(k, r) \in Nat
        BY <3>2, SharesFall DEF Fusible
      <4>2. 0 * Search!Share(k, r) = 0
        BY <4>1
      <4>3. acc[x].ranks[l] = 0
        BY <2>2, <3>3 DEF Counted
      <4>4. QED
        BY <4>2, <4>3, <3>1, <3>3 DEF Worth, Gain
    <3>4. CASE weights[l] # 0
      BY <2>2, <3>1, <3>4 DEF Worth, Gain, Counted
    <3>5. QED
      BY <3>3, <3>4
  <2>4. acc[x].score = Total(lists, weights, k, x)
    BY <2>1, <2>3 DEF Gained, Total
  <2>5. acc[x].best > 0 <=> acc[x].ranks[1] > 0 \/ acc[x].ranks[2] > 0
    BY <2>1 DEF Gained
  <2>6. (acc[x].ranks[1] > 0 \/ acc[x].ranks[2] > 0) <=> \E l \in 1 .. 2 : acc[x].ranks[l] > 0
    BY <2>1
  <2>7. QED
    BY <2>2, <2>4, <2>5, <2>6
<1>4. QED
  BY <1>1, <1>3 DEF acc

LEMMA KeysFinite ==
  ASSUME NEW lists, NEW weights, NEW k, Fusible(lists, weights, k)
  PROVE  IsFiniteSet(KeysOf(lists))
<1>1. ASSUME NEW l \in 1 .. 2 PROVE IsFiniteSet(Search!Range(lists[l]))
  <2>1. Len(lists[l]) \in Nat /\ DOMAIN lists[l] = 1 .. Len(lists[l]) /\ lists[l] \in [1 .. Len(lists[l]) -> Int]
    BY LenProperties DEF Fusible
  <2>2. lists[l] \in Surjection(1 .. Len(lists[l]), Search!Range(lists[l]))
    BY <2>1 DEF Surjection, Search!Range
  <2>3. IsFiniteSet(1 .. Len(lists[l]))
    BY <2>1, FS_Interval
  <2>4. QED
    BY <2>2, <2>3, FS_Surjection
<1>2. IsFiniteSet(Search!Range(lists[1])) /\ IsFiniteSet(Search!Range(lists[2]))
  <2>1. 1 \in 1 .. 2 /\ 2 \in 1 .. 2
    OBVIOUS
  <2>2. QED
    BY <2>1, <1>1
<1>3. QED
  BY <1>2, FS_Union DEF KeysOf

\* An injection between finite sets of one size leaves nothing out.
LEMMA WholeSet ==
  ASSUME NEW S, IsFiniteSet(S), NEW s \in Search!SetToSeqs(S)
  PROVE  /\ s \in Seq(S) /\ \A i, j \in DOMAIN s : s[i] = s[j] => i = j
         /\ \A e \in S : \E n \in DOMAIN s : s[n] = e
<1> DEFINE D == 1 .. Cardinality(S)
<1>1. Cardinality(S) \in Nat
  BY FS_CardinalityType
<1>2. s \in [D -> S] /\ \A i, j \in D : i # j => s[i] # s[j]
  <2>1. Search!Cardinality(S) = Cardinality(S)
    BY DEF Search!Cardinality, Cardinality
  <2>2. QED
    BY <2>1 DEF Search!SetToSeqs
<1>3. s \in Injection(D, S)
  BY <1>2 DEF Injection, IsInjective
<1>4. IsFiniteSet(D) /\ Cardinality(D) = Cardinality(S)
  BY <1>1, FS_Interval
<1>5. s \in Surjection(D, S)
  <2> HIDE DEF D
  <2>1. QED
    BY <1>3, <1>4, FS_Injection
<1>6. s \in Seq(S)
  BY <1>1, <1>2, SeqDef
<1>7. QED
  BY <1>2, <1>5, <1>6 DEF Surjection

\* What a fusion returns: keys once, with the scores of the formula and their ranks
\* in the lists that count, and those that score more before those that score less.
Results(lists) ==
  [key : KeysOf(lists), score : Nat, ranks : [1 .. 2 -> Nat], item : (1 .. 2) \X Nat]
FusionOf(lists, weights, k, f) ==
  /\ f \in Seq(Results(lists))
  /\ \A i \in DOMAIN f :
       /\ f[i].score = Total(lists, weights, k, f[i].key)
       /\ \A l \in 1 .. 2 : f[i].ranks[l] = Counted(lists, weights, f[i].key, l)
       /\ \E l \in 1 .. 2 : Counted(lists, weights, f[i].key, l) > 0
  /\ \A i, j \in DOMAIN f : f[i].key = f[j].key => i = j
  /\ \A j \in DOMAIN f, x \in KeysOf(lists) :
       /\ \E l \in 1 .. 2 : Counted(lists, weights, x, l) > 0
       /\ Total(lists, weights, k, x) > Total(lists, weights, k, f[j].key)
       => \E i \in 1 .. j - 1 : f[i].key = x

LEMMA FusionFacts ==
  ASSUME Search!HybridAssumption, NEW lists, NEW weights, NEW k, Fusible(lists, weights, k),
         NEW lim \in Nat, NEW f \in Search!Fusion(lists, weights, k, lim)
  PROVE  FusionOf(lists, weights, k, f) /\ Len(f) <= (IF lim > 1 THEN lim ELSE 1)
<1> DEFINE acc == Search!Added(lists, weights, k)
           S == {x \in DOMAIN acc : acc[x].best > 0}
           n == Search!Max({1, lim})
           Result(x) == [key |-> x, score |-> acc[x].score, ranks |-> acc[x].ranks, item |-> acc[x].item]
           Some(x) == \E l \in 1 .. 2 : Counted(lists, weights, x, l) > 0
           Sum(x) == Total(lists, weights, k, x)
<1>1. PICK s \in Search!Sorted(acc) :
        f = [i \in DOMAIN Search!Top(s, n) |-> Result(Search!Top(s, n)[i])]
  BY DEF Search!Fusion
<1>2. /\ s \in Search!SetToSeqs(S)
      /\ \A i, j \in DOMAIN s : i < j => Search!Before(acc, s[i], s[j])
  BY DEF Search!Sorted
<1>3. /\ acc \in [KeysOf(lists) -> Gains]
      /\ \A x \in KeysOf(lists) :
           /\ \A l \in 1 .. 2 : acc[x].ranks[l] = Counted(lists, weights, x, l)
           /\ acc[x].score = Sum(x)
           /\ acc[x].best > 0 <=> Some(x)
  BY AddedTotals
<1> HIDE DEF acc, Some, Sum
<1>4. S \subseteq KeysOf(lists) /\ IsFiniteSet(S) /\ \A x \in KeysOf(lists) : x \in S <=> Some(x)
  <2>1. S \subseteq KeysOf(lists) /\ \A x \in KeysOf(lists) : x \in S <=> Some(x)
    BY <1>3
  <2>2. QED
    BY <2>1, KeysFinite, FS_Subset
<1> HIDE DEF S
<1>5. /\ s \in Seq(S) /\ \A i, j \in DOMAIN s : s[i] = s[j] => i = j
      /\ \A e \in S : \E p \in DOMAIN s : s[p] = e
  BY <1>2, <1>4, WholeSet
<1>6. n = (IF lim > 1 THEN lim ELSE 1) /\ n \in Nat
  <2>1. n = IF 1 >= lim THEN 1 ELSE lim
    BY LargerOfTwo
  <2> HIDE DEF n
  <2>2. QED
    BY <2>1
<1> HIDE DEF n
<1> DEFINE t == Search!Top(s, n)
<1>7. /\ t \in Seq(S) /\ Len(t) = (IF n < Len(s) THEN n ELSE Len(s))
      /\ \A i \in DOMAIN t : i \in DOMAIN s /\ t[i] = s[i]
      /\ \A i \in DOMAIN s : i <= n => i \in DOMAIN t
  BY <1>5, <1>6, TopFacts
<1> HIDE DEF t
<1>8. /\ Len(t) \in Nat /\ DOMAIN t = 1 .. Len(t) /\ Len(s) \in Nat /\ DOMAIN s = 1 .. Len(s)
      /\ \A i \in DOMAIN t : t[i] \in S /\ t[i] \in KeysOf(lists)
  BY <1>4, <1>5, <1>7, LenProperties, ElementOfSeq
<1>9. f = [i \in DOMAIN t |-> Result(t[i])]
  BY <1>1 DEF t
<1>10. ASSUME NEW x \in KeysOf(lists)
       PROVE  Result(x) \in Results(lists) /\ Result(x).key = x /\ Result(x).score = acc[x].score
              /\ Result(x).ranks = acc[x].ranks
  BY <1>3 DEF Results, Gains
<1> HIDE DEF Result
<1>11. DOMAIN f = 1 .. Len(t) /\ Len(f) = Len(t) /\ f \in Seq(Results(lists))
  <2>1. f \in [1 .. Len(t) -> Results(lists)]
    BY <1>8, <1>9, <1>10
  <2>2. f \in Seq(Results(lists))
    BY <2>1, <1>8, SeqDef
  <2>3. QED
    BY <2>1, <2>2, <1>8, LenProperties
<1>12. ASSUME NEW i \in DOMAIN f
       PROVE  /\ i \in DOMAIN t /\ i \in DOMAIN s /\ f[i].key = s[i] /\ s[i] \in KeysOf(lists) /\ Some(s[i])
              /\ f[i].score = Sum(s[i]) /\ \A l \in 1 .. 2 : f[i].ranks[l] = Counted(lists, weights, s[i], l)
  <2>1. i \in DOMAIN t /\ i \in DOMAIN s /\ t[i] = s[i] /\ s[i] \in KeysOf(lists) /\ s[i] \in S
    BY <1>7, <1>8, <1>11
  <2>2. f[i] = Result(s[i])
    BY <2>1, <1>9
  <2>3. QED
    BY <2>1, <2>2, <1>3, <1>4, <1>10
<1>13. \A i, j \in DOMAIN f : f[i].key = f[j].key => i = j
  BY <1>5, <1>12
<1>14. ASSUME NEW j \in DOMAIN f, NEW x \in KeysOf(lists), Some(x), Sum(x) > Sum(f[j].key)
       PROVE  \E i \in 1 .. j - 1 : f[i].key = x
  <2>1. x \in S
    BY <1>4, <1>14
  <2>2. PICK i \in DOMAIN s : s[i] = x
    BY <2>1, <1>5
  <2>3. j \in DOMAIN s /\ f[j].key = s[j] /\ s[j] \in KeysOf(lists)
    BY <1>12
  <2>4. acc[x].score = Sum(x) /\ acc[s[j]].score = Sum(s[j])
    BY <1>3, <2>3
  <2>5. acc[x].score > acc[s[j]].score
    BY <2>3, <2>4, <1>14
  <2>6. acc[x].score \in Nat /\ acc[s[j]].score \in Nat
    BY <1>3, <2>3 DEF Gains
  <2>7. ~Search!Before(acc, s[j], x)
    BY <2>5, <2>6 DEF Search!Before
  <2>8. ~(j < i)
    BY <1>2, <2>2, <2>3, <2>7
  <2>9. i # j
    BY <2>2, <2>5, <2>6
  <2>10. i \in Nat /\ j \in Nat /\ i >= 1
    BY <1>8, <2>2, <2>3
  <2>11. i \in 1 .. j - 1
    BY <2>8, <2>9, <2>10
  <2>12. i \in DOMAIN f
    BY <2>11, <1>8, <1>11
  <2>13. f[i].key = x
    BY <2>2, <2>12, <1>12
  <2>14. QED
    BY <2>11, <2>13
<1>15. Len(f) <= (IF lim > 1 THEN lim ELSE 1)
  <2>1. Len(t) <= n
    <3>1. PICK p : p = Len(s)
      OBVIOUS
    <3>2. p \in Nat /\ Len(t) = IF n < p THEN n ELSE p
      BY <3>1, <1>7, <1>8
    <3>3. QED
      BY <3>2, <1>6
  <2>2. Len(f) = Len(t)
    BY <1>11
  <2>3. n = IF lim > 1 THEN lim ELSE 1
    BY <1>6
  <2>4. Len(f) <= n
    BY <2>1, <2>2
  <2>5. QED
    BY <2>3, <2>4
<1>16. QED
  BY <1>11, <1>12, <1>13, <1>14, <1>15 DEF FusionOf, Some, Sum

\* A point that is ahead wherever another has a rank scores more than it.
LEMMA AheadScoresMore ==
  ASSUME Search!HybridAssumption, NEW lists, NEW weights, NEW k, Fusible(lists, weights, k),
         \A l \in 1 .. 2 : Len(lists[l]) <= MaxRanking,
         NEW x, NEW y, \E l \in 1 .. 2 : Counted(lists, weights, y, l) > 0,
         \A l \in 1 .. 2 : Counted(lists, weights, y, l) > 0 =>
           /\ Search!FirstRank(x, lists[l]) > 0
           /\ Search!FirstRank(x, lists[l]) < Search!FirstRank(y, lists[l])
  PROVE  /\ Total(lists, weights, k, x) > Total(lists, weights, k, y)
         /\ x \in KeysOf(lists) /\ \E l \in 1 .. 2 : Counted(lists, weights, x, l) > 0
<1> DEFINE G(z, l) == Gain(lists, weights, k, z, l)
           C(z, l) == Counted(lists, weights, z, l)
<1>1. \A z : \A l \in 1 .. 2 : G(z, l) \in Nat
  BY GainFacts
<1>2. ASSUME NEW l \in 1 .. 2
      PROVE  G(x, l) >= G(y, l) /\ (C(y, l) > 0 => G(x, l) > G(y, l))
  <2>1. PICK a \in Nat, b \in Nat :
          /\ a = Search!FirstRank(x, lists[l]) /\ b = Search!FirstRank(y, lists[l])
          /\ a <= Len(lists[l]) /\ b <= Len(lists[l])
    BY GainFacts
  <2>2. Len(lists[l]) \in Nat /\ MaxRanking \in Nat /\ Len(lists[l]) <= MaxRanking
    BY GainFacts DEF Search!HybridAssumption
  <2>3. C(y, l) = IF weights[l] = 0 THEN 0 ELSE b
    BY <2>1 DEF Counted
  <2>4. /\ G(x, l) = IF a = 0 THEN 0 ELSE weights[l] * Search!Share(k, a)
        /\ G(y, l) = IF b = 0 THEN 0 ELSE weights[l] * Search!Share(k, b)
    BY <2>1 DEF Gain
  <2>5. weights[l] \in Nat /\ Search!Share(k, a) \in Nat /\ Search!Share(k, b) \in Nat
    BY <2>1, SharesFall DEF Fusible
  <2>6. CASE weights[l] = 0
    <3>1. 0 * Search!Share(k, a) = 0 /\ 0 * Search!Share(k, b) = 0
      BY <2>5
    <3>2. G(x, l) = 0 /\ G(y, l) = 0 /\ C(y, l) = 0
      BY <3>1, <2>3, <2>4, <2>6
    <3>3. QED
      BY <3>2
  <2>7. CASE b = 0
    <3>1. G(y, l) = 0 /\ C(y, l) = 0
      BY <2>3, <2>4, <2>7
    <3>2. QED
      BY <3>1, <1>1
  <2>8. CASE weights[l] # 0 /\ b # 0
    <3>1. C(y, l) > 0
      BY <2>1, <2>3, <2>8
    <3>2. a > 0 /\ a < b
      BY <3>1, <2>1
    <3>3. a \in 1 .. MaxRanking /\ b \in 1 .. MaxRanking
      BY <3>2, <2>1, <2>2
    <3>4. Search!Share(k, a) > Search!Share(k, b)
      BY <3>2, <3>3, SharesFall DEF Fusible
    <3>5. \A w, c, d \in Nat : w # 0 /\ c > d => w * c > w * d
      OBVIOUS
    <3>6. weights[l] * Search!Share(k, a) > weights[l] * Search!Share(k, b)
      BY <3>4, <3>5, <2>5, <2>8
    <3>7. G(x, l) > G(y, l)
      BY <3>2, <3>6, <2>4, <2>8
    <3>8. QED
      BY <3>7, <1>1
  <2>9. QED
    BY <2>6, <2>7, <2>8
<1>3. 1 \in 1 .. 2 /\ 2 \in 1 .. 2
  OBVIOUS
<1>4. C(y, 1) > 0 \/ C(y, 2) > 0
  <2> HIDE DEF C
  <2>1. QED
    BY DEF C
<1>5. Total(lists, weights, k, x) > Total(lists, weights, k, y)
  <2>1. Total(lists, weights, k, x) = G(x, 1) + G(x, 2) /\ Total(lists, weights, k, y) = G(y, 1) + G(y, 2)
    BY DEF Total
  <2>2. G(x, 1) \in Nat /\ G(x, 2) \in Nat /\ G(y, 1) \in Nat /\ G(y, 2) \in Nat
    BY <1>1, <1>3
  <2>3. G(x, 1) >= G(y, 1) /\ G(x, 2) >= G(y, 2) /\ (G(x, 1) > G(y, 1) \/ G(x, 2) > G(y, 2))
    BY <1>2, <1>3, <1>4
  <2> HIDE DEF G
  <2>4. QED
    BY <2>1, <2>2, <2>3
<1>6. PICK l \in 1 .. 2 : C(y, l) > 0
  OBVIOUS
<1>7. Search!FirstRank(x, lists[l]) > 0
  BY <1>6
<1>8. weights[l] # 0
  BY <1>6 DEF Counted
<1>9. C(x, l) > 0
  BY <1>7, <1>8 DEF Counted
<1>10. x \in KeysOf(lists)
  <2>1. lists[l] \in Seq(Int)
    BY DEF Fusible
  <2>2. Search!FirstRank(x, lists[l]) = 0 <=> \A q \in DOMAIN lists[l] : lists[l][q] # x
    BY <2>1, FirstRankFacts
  <2>3. \E q \in DOMAIN lists[l] : lists[l][q] = x
    BY <2>2, <1>7
  <2>4. x \in Search!Range(lists[l])
    BY <2>3 DEF Search!Range
  <2>5. l = 1 \/ l = 2
    OBVIOUS
  <2>6. QED
    BY <2>4, <2>5 DEF KeysOf
<1>11. QED
  BY <1>5, <1>9, <1>10

\* The best of a fusion are a fusion.
LEMMA TopOfFusion ==
  ASSUME NEW lists, NEW weights, NEW k, NEW f, FusionOf(lists, weights, k, f), NEW n \in Nat
  PROVE  /\ FusionOf(lists, weights, k, Search!Top(f, n)) /\ Len(Search!Top(f, n)) <= n
         /\ Len(Search!Top(f, n)) <= Len(f)
<1> DEFINE t == Search!Top(f, n)
<1>1. f \in Seq(Results(lists)) /\ Len(f) \in Nat /\ DOMAIN f = 1 .. Len(f)
  BY LenProperties DEF FusionOf
<1>2. /\ t \in Seq(Results(lists)) /\ Len(t) = (IF n < Len(f) THEN n ELSE Len(f))
      /\ \A i \in DOMAIN t : i \in DOMAIN f /\ t[i] = f[i]
      /\ \A i \in DOMAIN f : i <= n => i \in DOMAIN t
  BY <1>1, TopFacts
<1> HIDE DEF t
<1>3. Len(t) \in Nat /\ DOMAIN t = 1 .. Len(t)
  BY <1>2, LenProperties
<1>4. ASSUME NEW j \in DOMAIN t, NEW x \in KeysOf(lists),
             \E l \in 1 .. 2 : Counted(lists, weights, x, l) > 0,
             Total(lists, weights, k, x) > Total(lists, weights, k, t[j].key)
      PROVE  \E i \in 1 .. j - 1 : t[i].key = x
  <2>1. j \in DOMAIN f /\ t[j] = f[j]
    BY <1>2
  <2>2. PICK i \in 1 .. j - 1 : f[i].key = x
    BY <2>1, <1>4 DEF FusionOf
  <2>3. i \in DOMAIN t
    BY <1>3
  <2>4. QED
    BY <2>2, <2>3, <1>2
<1>5. FusionOf(lists, weights, k, t)
  <2>1. \A i \in DOMAIN t :
          /\ t[i].score = Total(lists, weights, k, t[i].key)
          /\ \A l \in 1 .. 2 : t[i].ranks[l] = Counted(lists, weights, t[i].key, l)
          /\ \E l \in 1 .. 2 : Counted(lists, weights, t[i].key, l) > 0
    BY <1>2 DEF FusionOf
  <2>2. \A i, j \in DOMAIN t : t[i].key = t[j].key => i = j
    BY <1>2 DEF FusionOf
  <2>3. QED
    BY <2>1, <2>2, <1>2, <1>4 DEF FusionOf
<1>6. Len(t) <= n /\ Len(t) <= Len(f)
  <2>1. PICK p \in Nat : p = Len(f)
    BY <1>1
  <2>2. Len(t) = IF n < p THEN n ELSE p
    BY <2>1, <1>2
  <2>3. QED
    BY <2>1, <2>2
<1>7. QED
  BY <1>5, <1>6 DEF t

-----------------------------------------------------------------------------
\* A call, and what it returns.
Sought ==
  /\ sought \in [kind : Path, lists : Search!Rankings \X Search!Rankings, weights : Weights \X Weights,
                 k : RrfK, limit : ResultLimit, prefetch : PrefetchLimit]
  /\ sought.kind # "fuse" => Search!Distinct(sought.lists[1]) /\ Search!Distinct(sought.lists[2])

TypedResult(r) ==
  /\ \A i \in DOMAIN r : r[i].key \in Point /\ r[i].score \in Int
  /\ Len(r) <= Search!Max({sought.limit, 1})
  /\ \A i, j \in DOMAIN r : r[i].key = r[j].key => i = j
OrderedResult(r) ==
  \A j \in DOMAIN r : \A x \in Point : Search!Ahead(x, r[j].key) => \E i \in 1 .. j - 1 : r[i].key = x
ScoredResult(r) ==
  \A i \in DOMAIN r : r[i].score = Search!Contribution(r[i].key, 1) + Search!Contribution(r[i].key, 2)
StrongestResult(r) ==
  \A i \in DOMAIN r :
    LET x == r[i].key
        Weighs(l) == IF sought.weights[l] <= 0 \/ Search!GroupRank(x, l) = 0 THEN -1
                     ELSE sought.weights[l] * Search!Share(sought.k, Search!GroupRank(x, l))
        l == IF Weighs(1) >= Weighs(2) THEN 1 ELSE 2
    IN /\ Search!FirstRank(x, sought.lists[l])
            = Search!Min({q \in DOMAIN sought.lists[l] : Grouping[sought.lists[l][q]] = Grouping[x]})
       /\ \A j \in DOMAIN r : Grouping[r[j].key] = Grouping[x] => i = j

LEMMA FairReturn ==
  ASSUME NEW r, found' = r, sought' = sought, TypedResult(r),
         sought.kind # "grouped" => OrderedResult(r),
         sought.kind \in {"fuse", "results"} \/ Search!FusedHere => ScoredResult(r),
         sought.kind = "grouped" => StrongestResult(r)
  PROVE  FusionIsFair'
<1>1. Search!TypeOK'
  <2>1. \A q \in Search!Range(r) : \E i \in DOMAIN r : r[i] = q
    BY DEF Search!Range
  <2>2. QED
    BY <2>1 DEF Search!TypeOK, TypedResult
<1>2. Search!AheadComesFirst'
  <2>1. \A x, y : Search!Ahead(x, y)' = Search!Ahead(x, y)
    BY DEF Search!Ahead
  <2>2. QED
    BY <2>1 DEF Search!AheadComesFirst, OrderedResult
<1>3. Search!ScoresFollowTheFormula'
  <2>1. \A x, l : Search!Contribution(x, l)' = Search!Contribution(x, l)
    BY DEF Search!Contribution
  <2>2. Search!FusedHere' = Search!FusedHere
    BY DEF Search!FusedHere
  <2>3. QED
    BY <2>1, <2>2 DEF Search!ScoresFollowTheFormula, ScoredResult
<1>4. Search!StrongestHit'
  <2>1. \A x, l : Search!GroupRank(x, l)' = Search!GroupRank(x, l)
    BY DEF Search!GroupRank
  <2>2. QED
    BY <2>1 DEF Search!StrongestHit, StrongestResult
<1>5. QED
  BY <1>1, <1>2, <1>3, <1>4 DEF FusionIsFair

LEMMA SoughtFacts ==
  ASSUME Search!HybridAssumption, Sought
  PROVE  /\ \A l \in 1 .. 2 :
              /\ sought.lists[l] \in Seq(Point) /\ Len(sought.lists[l]) <= MaxRanking
              /\ Len(sought.lists[l]) \in Nat /\ DOMAIN sought.lists[l] = 1 .. Len(sought.lists[l])
              /\ sought.weights[l] \in Nat
              /\ sought.kind # "fuse" => Search!Distinct(sought.lists[l])
         /\ sought.k \in Nat /\ sought.limit \in Nat /\ sought.prefetch \in Nat
         /\ Fusible(sought.lists, sought.weights, sought.k)
<1>1. /\ sought.lists \in Search!Rankings \X Search!Rankings /\ sought.weights \in Weights \X Weights
      /\ sought.k \in RrfK /\ sought.limit \in ResultLimit /\ sought.prefetch \in PrefetchLimit
  BY DEF Sought
<1>2. /\ sought.k \in Nat /\ sought.limit \in Nat /\ sought.prefetch \in Nat
      /\ sought.weights[1] \in Nat /\ sought.weights[2] \in Nat
  BY <1>1 DEF Search!HybridAssumption
<1>3. ASSUME NEW s \in Search!Rankings
      PROVE  s \in Seq(Point) /\ Len(s) <= MaxRanking /\ Len(s) \in Nat /\ DOMAIN s = 1 .. Len(s) /\ s \in Seq(Int)
  <2>1. PICK n \in 0 .. MaxRanking : s \in [1 .. n -> Point]
    BY DEF Search!Rankings
  <2>2. n \in Nat /\ n <= MaxRanking /\ Point \subseteq Int
    BY DEF Search!HybridAssumption
  <2>3. s \in Seq(Point)
    BY <2>1, <2>2, SeqDef
  <2>4. s \in [1 .. n -> Int]
    BY <2>1, <2>2
  <2>5. s \in Seq(Int)
    BY <2>2, <2>4, SeqDef
  <2>6. Len(s) = n /\ DOMAIN s = 1 .. Len(s)
    BY <2>1, <2>2, <2>3, LenProperties
  <2>7. QED
    BY <2>2, <2>3, <2>5, <2>6
<1>4. sought.lists[1] \in Search!Rankings /\ sought.lists[2] \in Search!Rankings
  BY <1>1
<1>5. \A l \in 1 .. 2 : l = 1 \/ l = 2
  OBVIOUS
<1>6. \A l \in 1 .. 2 :
        /\ sought.lists[l] \in Seq(Point) /\ Len(sought.lists[l]) <= MaxRanking
        /\ Len(sought.lists[l]) \in Nat /\ DOMAIN sought.lists[l] = 1 .. Len(sought.lists[l])
        /\ sought.weights[l] \in Nat /\ sought.lists[l] \in Seq(Int)
        /\ sought.kind # "fuse" => Search!Distinct(sought.lists[l])
  BY <1>2, <1>3, <1>4, <1>5 DEF Sought
<1>7. QED
  BY <1>2, <1>6 DEF Fusible

\* A point that is ahead has an earlier rank in every list that counts.
LEMMA AheadFacts ==
  ASSUME Search!HybridAssumption, Sought, NEW x, NEW y, Search!Ahead(x, y), NEW l \in 1 .. 2,
         sought.weights[l] > 0 \/ (sought.kind = "search" /\ sought.weights = <<0, 0>>),
         Search!FirstRank(y, sought.lists[l]) > 0
  PROVE  /\ Search!FirstRank(x, sought.lists[l]) > 0
         /\ Search!FirstRank(x, sought.lists[l]) < Search!FirstRank(y, sought.lists[l])
         /\ Search!FirstRank(x, sought.lists[l]) \in Nat /\ Search!FirstRank(y, sought.lists[l]) \in Nat
<1>1. PICK a \in Nat, b \in Nat :
        a = Search!FirstRank(x, sought.lists[l]) /\ b = Search!FirstRank(y, sought.lists[l])
  BY SoughtFacts, GainFacts
<1>2. a \in 1 .. b - 1
  <2>1. l \in {1, 2}
    OBVIOUS
  <2>2. QED
    BY <2>1, <1>1 DEF Search!Ahead
<1>3. QED
  BY <1>1, <1>2

\* What is returned of a fusion is typed, and a point that is ahead comes first in it
\* if it is ahead in the lists that were fused.
LEMMA FusionReturns ==
  ASSUME Search!HybridAssumption, Sought, NEW lists, NEW weights, NEW k, Fusible(lists, weights, k),
         \A l \in 1 .. 2 : Len(lists[l]) <= MaxRanking, KeysOf(lists) \subseteq Point,
         NEW r, FusionOf(lists, weights, k, r), Len(r) <= (IF sought.limit > 1 THEN sought.limit ELSE 1),
         \A x, y : Search!Ahead(x, y) => \A l \in 1 .. 2 : Counted(lists, weights, y, l) > 0 =>
           /\ Search!FirstRank(x, lists[l]) > 0
           /\ Search!FirstRank(x, lists[l]) < Search!FirstRank(y, lists[l])
  PROVE  TypedResult(r) /\ OrderedResult(r)
<1>1. r \in Seq(Results(lists)) /\ Len(r) \in Nat /\ DOMAIN r = 1 .. Len(r)
  BY LenProperties DEF FusionOf
<1>2. \A i \in DOMAIN r : r[i] \in Results(lists)
  BY <1>1, ElementOfSeq
<1>3. \A i \in DOMAIN r : r[i].key \in KeysOf(lists) /\ r[i].score \in Int
  BY <1>2 DEF Results
<1>4. Search!Max({sought.limit, 1}) = IF sought.limit > 1 THEN sought.limit ELSE 1
  <2>1. PICK n \in Nat : n = sought.limit
    BY SoughtFacts
  <2>2. Search!Max({n, 1}) = IF n >= 1 THEN n ELSE 1
    BY LargerOfTwo
  <2>3. QED
    BY <2>1, <2>2
<1>5. TypedResult(r)
  <2>1. \A i, j \in DOMAIN r : r[i].key = r[j].key => i = j
    BY DEF FusionOf
  <2>2. QED
    BY <2>1, <1>3, <1>4 DEF TypedResult
<1>6. ASSUME NEW j \in DOMAIN r, NEW x \in Point, Search!Ahead(x, r[j].key)
      PROVE  \E i \in 1 .. j - 1 : r[i].key = x
  <2>1. PICK y : y = r[j].key
    OBVIOUS
  <2>2. \E l \in 1 .. 2 : Counted(lists, weights, y, l) > 0
    BY <2>1 DEF FusionOf
  <2>3. \A l \in 1 .. 2 : Counted(lists, weights, y, l) > 0 =>
          /\ Search!FirstRank(x, lists[l]) > 0
          /\ Search!FirstRank(x, lists[l]) < Search!FirstRank(y, lists[l])
    BY <2>1, <1>6
  <2>4. /\ Total(lists, weights, k, x) > Total(lists, weights, k, y)
        /\ x \in KeysOf(lists) /\ \E l \in 1 .. 2 : Counted(lists, weights, x, l) > 0
    BY <2>2, <2>3, AheadScoresMore
  <2>5. QED
    BY <2>1, <2>4 DEF FusionOf
<1>7. QED
  BY <1>5, <1>6 DEF OrderedResult

\* The score of a fusion of the whole lists is that of the formula.
LEMMA FusionScores ==
  ASSUME NEW r, FusionOf(sought.lists, sought.weights, sought.k, r)
  PROVE  ScoredResult(r)
<1>1. \A x, l : Search!Contribution(x, l) = Gain(sought.lists, sought.weights, sought.k, x, l)
  BY DEF Search!Contribution, Gain
<1>2. \A i \in DOMAIN r : r[i].score = Total(sought.lists, sought.weights, sought.k, r[i].key)
  BY DEF FusionOf
<1>3. QED
  BY <1>1, <1>2 DEF ScoredResult, Total

LEMMA StepFuse ==
  ASSUME Search!HybridAssumption, Sought, Search!Fuse
  PROVE  FusionIsFair'
<1> DEFINE lists == sought.lists
           weights == sought.weights
           k == sought.k
<1>1. PICK r \in Search!Fusion(lists, weights, k, sought.limit) : found' = r /\ sought' = sought
  BY DEF Search!Fuse, Search!Return
<1>2. sought.kind = "fuse" /\ Fusible(lists, weights, k) /\ sought.limit \in Nat
  BY SoughtFacts DEF Search!Fuse, Search!Called
<1>3. \A l \in 1 .. 2 : Len(lists[l]) <= MaxRanking /\ lists[l] \in Seq(Point)
  BY SoughtFacts
<1>4. KeysOf(lists) \subseteq Point
  <2>1. ASSUME NEW l \in 1 .. 2 PROVE Search!Range(lists[l]) \subseteq Point
    BY <1>3, ElementOfSeq, LenProperties DEF Search!Range
  <2>2. 1 \in 1 .. 2 /\ 2 \in 1 .. 2
    OBVIOUS
  <2>3. QED
    BY <2>1, <2>2 DEF KeysOf
<1>5. ASSUME NEW x, NEW y, Search!Ahead(x, y), NEW l \in 1 .. 2, Counted(lists, weights, y, l) > 0
      PROVE  /\ Search!FirstRank(x, lists[l]) > 0
             /\ Search!FirstRank(x, lists[l]) < Search!FirstRank(y, lists[l])
  <2>1. weights[l] # 0 /\ Search!FirstRank(y, lists[l]) > 0
    BY <1>5 DEF Counted
  <2>2. weights[l] \in Nat
    BY SoughtFacts
  <2>3. weights[l] > 0
    BY <2>1, <2>2
  <2>4. QED
    BY <2>1, <2>3, <1>5, AheadFacts
<1>6. FusionOf(lists, weights, k, r) /\ Len(r) <= (IF sought.limit > 1 THEN sought.limit ELSE 1)
  BY <1>2, FusionFacts
<1>7. TypedResult(r) /\ OrderedResult(r)
  <2> HIDE DEF lists, weights, k
  <2>1. QED
    BY <1>2, <1>3, <1>4, <1>5, <1>6, FusionReturns
<1>8. ScoredResult(r)
  BY <1>6, FusionScores
<1>9. QED
  BY <1>1, <1>2, <1>7, <1>8, FairReturn

\* What a search prefetches.
LEMMA PrefetchedFacts ==
  ASSUME Search!HybridAssumption, Sought, NEW weights, \A l \in 1 .. 2 : weights[l] \in Nat, NEW k \in Nat
  PROVE  /\ Fusible(Search!Prefetched, weights, k)
         /\ \A l \in 1 .. 2 : Len(Search!Prefetched[l]) <= MaxRanking /\ Len(Search!Prefetched[l]) \in Nat
         /\ KeysOf(Search!Prefetched) \subseteq Point
         /\ \A l \in 1 .. 2 : \A x : Search!FirstRank(x, Search!Prefetched[l])
              = IF Search!FirstRank(x, sought.lists[l]) <= sought.prefetch
                THEN Search!FirstRank(x, sought.lists[l]) ELSE 0
<1>1. ASSUME NEW l \in 1 .. 2
      PROVE  LET t == Search!Prefetched[l]
             IN /\ t \in Seq(Int) /\ Len(t) <= MaxRanking /\ Len(t) \in Nat /\ Search!Range(t) \subseteq Point
                /\ \A x : Search!FirstRank(x, t)
                     = IF Search!FirstRank(x, sought.lists[l]) <= sought.prefetch
                       THEN Search!FirstRank(x, sought.lists[l]) ELSE 0
  <2>1. PICK s : s = sought.lists[l]
    OBVIOUS
  <2>2. s \in Seq(Point) /\ Len(s) <= MaxRanking /\ Len(s) \in Nat /\ sought.prefetch \in Nat
    BY <2>1, SoughtFacts
  <2> DEFINE t == Search!Top(s, sought.prefetch)
  <2>3. Search!Prefetched[l] = t
    BY <2>1 DEF Search!Prefetched
  <2>4. t \in Seq(Point) /\ Len(t) = IF sought.prefetch < Len(s) THEN sought.prefetch ELSE Len(s)
    BY <2>2, TopFacts
  <2>5. \A x : Search!FirstRank(x, t)
          = IF Search!FirstRank(x, s) <= sought.prefetch THEN Search!FirstRank(x, s) ELSE 0
    BY <2>2, FirstRankTop
  <2> HIDE DEF t
  <2>6. Len(t) \in Nat /\ DOMAIN t = 1 .. Len(t) /\ \A i \in DOMAIN t : t[i] \in Point
    BY <2>4, LenProperties, ElementOfSeq
  <2>7. t \in Seq(Int)
    <3>1. Point \subseteq Int
      BY DEF Search!HybridAssumption
    <3>2. t = [i \in 1 .. Len(t) |-> t[i]]
      BY <2>4, LenProperties
    <3>3. t \in [1 .. Len(t) -> Int]
      BY <3>1, <3>2, <2>6
    <3>4. QED
      BY <3>3, <2>6, SeqDef
  <2>8. Len(t) <= MaxRanking
    <3>1. PICK a, b : a = Len(t) /\ b = Len(s)
      OBVIOUS
    <3>2. a \in Nat /\ b \in Nat /\ a = (IF sought.prefetch < b THEN sought.prefetch ELSE b) /\ b <= MaxRanking
      BY <3>1, <2>2, <2>4, <2>6
    <3>3. MaxRanking \in Nat /\ sought.prefetch \in Nat
      BY <2>2 DEF Search!HybridAssumption
    <3>4. QED
      BY <3>1, <3>2, <3>3
  <2>9. Search!Range(t) \subseteq Point
    BY <2>6 DEF Search!Range
  <2>10. QED
    BY <2>1, <2>3, <2>5, <2>6, <2>7, <2>8, <2>9
<1> DEFINE p == Search!Prefetched
<1> HIDE DEF p
<1>2. \A l \in 1 .. 2 : p[l] \in Seq(Int) /\ Len(p[l]) <= MaxRanking /\ Len(p[l]) \in Nat
  BY <1>1 DEF p
<1>3. \A l \in 1 .. 2 : Search!Range(p[l]) \subseteq Point
  BY <1>1 DEF p
<1>4. Fusible(p, weights, k)
  BY <1>2 DEF Fusible
<1>5. KeysOf(p) \subseteq Point
  <2>1. 1 \in 1 .. 2 /\ 2 \in 1 .. 2
    OBVIOUS
  <2>2. QED
    BY <2>1, <1>3 DEF KeysOf
<1>6. QED
  BY <1>1, <1>2, <1>4, <1>5 DEF p

LEMMA PrefetchedAhead ==
  ASSUME Search!HybridAssumption, Sought, NEW x, NEW y, Search!Ahead(x, y), NEW l \in 1 .. 2,
         sought.weights[l] > 0 \/ (sought.kind = "search" /\ sought.weights = <<0, 0>>),
         Search!FirstRank(y, Search!Prefetched[l]) > 0
  PROVE  /\ Search!FirstRank(x, Search!Prefetched[l]) > 0
         /\ Search!FirstRank(x, Search!Prefetched[l]) < Search!FirstRank(y, Search!Prefetched[l])
<1>1. \A z : Search!FirstRank(z, Search!Prefetched[l])
        = IF Search!FirstRank(z, sought.lists[l]) <= sought.prefetch
          THEN Search!FirstRank(z, sought.lists[l]) ELSE 0
  <2> DEFINE w == <<1, 1>>
  <2>1. \A m \in 1 .. 2 : w[m] \in Nat
    OBVIOUS
  <2> HIDE DEF w
  <2>2. QED
    BY <2>1, PrefetchedFacts
<1>2. sought.prefetch \in Nat
  BY SoughtFacts
<1>3. Search!FirstRank(y, sought.lists[l]) > 0
  BY <1>1
<1>4. /\ Search!FirstRank(x, sought.lists[l]) > 0
      /\ Search!FirstRank(x, sought.lists[l]) < Search!FirstRank(y, sought.lists[l])
      /\ Search!FirstRank(x, sought.lists[l]) \in Nat /\ Search!FirstRank(y, sought.lists[l]) \in Nat
  BY <1>3, AheadFacts
<1>5. Search!FirstRank(y, sought.lists[l]) <= sought.prefetch
  BY <1>1
<1>6. QED
  BY <1>1, <1>2, <1>4, <1>5

LEMMA StepSearchEqual ==
  ASSUME Search!HybridAssumption, Sought, Search!SearchEqual
  PROVE  FusionIsFair'
<1> DEFINE lists == Search!Prefetched
           weights == <<1, 1>>
<1>1. PICK r \in Search!Fusion(lists, weights, ServerK, sought.limit) : found' = r /\ sought' = sought
  BY DEF Search!SearchEqual, Search!Return
<1>2. sought.kind = "search" /\ ServerK \in Nat /\ sought.limit \in Nat
  BY SoughtFacts DEF Search!SearchEqual, Search!Called, Search!HybridAssumption
<1>3. \A l \in 1 .. 2 : weights[l] \in Nat /\ weights[l] # 0
  OBVIOUS
<1> HIDE DEF lists, weights
<1>4. Fusible(lists, weights, ServerK) /\ KeysOf(lists) \subseteq Point
      /\ \A l \in 1 .. 2 : Len(lists[l]) <= MaxRanking
  BY <1>2, <1>3, PrefetchedFacts DEF lists
<1>5. ASSUME NEW l \in 1 .. 2 PROVE sought.weights[l] > 0 \/ sought.weights = <<0, 0>>
  <2>1. sought.weights[1] = sought.weights[2] /\ sought.weights[1] \in Nat /\ sought.weights[2] \in Nat
    BY SoughtFacts DEF Search!SearchEqual
  <2>2. sought.weights \in Weights \X Weights
    BY DEF Sought
  <2>3. sought.weights = <<sought.weights[1], sought.weights[2]>>
    BY <2>2
  <2>4. QED
    BY <2>1, <2>3
<1>6. ASSUME NEW x, NEW y, Search!Ahead(x, y), NEW l \in 1 .. 2, Counted(lists, weights, y, l) > 0
      PROVE  /\ Search!FirstRank(x, lists[l]) > 0
             /\ Search!FirstRank(x, lists[l]) < Search!FirstRank(y, lists[l])
  <2>1. Search!FirstRank(y, lists[l]) > 0
    BY <1>3, <1>6 DEF Counted
  <2>2. QED
    BY <2>1, <1>2, <1>5, <1>6, PrefetchedAhead DEF lists
<1>7. FusionOf(lists, weights, ServerK, r) /\ Len(r) <= (IF sought.limit > 1 THEN sought.limit ELSE 1)
  BY <1>1, <1>2, <1>4, FusionFacts
<1>8. TypedResult(r) /\ OrderedResult(r)
  BY <1>2, <1>4, <1>6, <1>7, FusionReturns
<1>9. ~Search!FusedHere
  BY DEF Search!FusedHere, Search!SearchEqual
<1>10. QED
  BY <1>1, <1>2, <1>8, <1>9, FairReturn

LEMMA StepSearchWeighted ==
  ASSUME Search!HybridAssumption, Sought, Search!SearchWeighted
  PROVE  FusionIsFair'
<1> DEFINE lists == Search!Prefetched
           weights == sought.weights
           k == sought.k
           most == Len(lists[1]) + Len(lists[2])
<1>1. PICK f \in Search!Fusion(lists, weights, k, most) :
        found' = Search!Top(f, sought.limit) /\ sought' = sought
  BY DEF Search!SearchWeighted, Search!Return
<1>2. sought.kind = "search" /\ k \in Nat /\ sought.limit \in Nat /\ \A l \in 1 .. 2 : weights[l] \in Nat
  BY SoughtFacts DEF Search!SearchWeighted, Search!Called
<1> HIDE DEF lists, weights, k, most
<1>3. Fusible(lists, weights, k) /\ KeysOf(lists) \subseteq Point
      /\ \A l \in 1 .. 2 : Len(lists[l]) <= MaxRanking /\ Len(lists[l]) \in Nat
  BY <1>2, PrefetchedFacts DEF lists
<1>4. most \in Nat
  <2>1. 1 \in 1 .. 2 /\ 2 \in 1 .. 2
    OBVIOUS
  <2>2. Len(lists[1]) \in Nat /\ Len(lists[2]) \in Nat
    BY <2>1, <1>3
  <2>3. \A p, q \in Nat : p + q \in Nat
    OBVIOUS
  <2>4. QED
    BY <2>2, <2>3 DEF most
<1>5. FusionOf(lists, weights, k, f)
  BY <1>1, <1>3, <1>4, FusionFacts
<1> DEFINE r == Search!Top(f, sought.limit)
<1>6. FusionOf(lists, weights, k, r) /\ Len(r) <= sought.limit
  BY <1>2, <1>5, TopOfFusion
<1> HIDE DEF r
<1>7. Len(r) <= IF sought.limit > 1 THEN sought.limit ELSE 1
  <2>1. PICK n \in Nat : n = sought.limit
    BY <1>2
  <2>2. r \in Seq(Results(lists))
    BY <1>6 DEF FusionOf
  <2>3. PICK m \in Nat : m = Len(r)
    BY <2>2, LenProperties
  <2>4. m <= n
    BY <2>1, <2>3, <1>6
  <2>5. m <= IF n > 1 THEN n ELSE 1
    BY <2>4
  <2>6. QED
    BY <2>1, <2>3, <2>5
<1>8. ASSUME NEW x, NEW y, Search!Ahead(x, y), NEW l \in 1 .. 2, Counted(lists, weights, y, l) > 0
      PROVE  /\ Search!FirstRank(x, lists[l]) > 0
             /\ Search!FirstRank(x, lists[l]) < Search!FirstRank(y, lists[l])
  <2>1. Search!FirstRank(y, lists[l]) > 0 /\ weights[l] # 0
    BY <1>8 DEF Counted
  <2>2. sought.weights[l] > 0
    BY <2>1, <1>2 DEF weights
  <2>3. QED
    BY <2>1, <2>2, <1>8, PrefetchedAhead DEF lists
<1>9. TypedResult(r) /\ OrderedResult(r)
  BY <1>2, <1>3, <1>6, <1>7, <1>8, FusionReturns
<1>10. ASSUME Search!FusedHere PROVE ScoredResult(r)
  <2>1. ASSUME NEW l \in 1 .. 2, NEW x
        PROVE  Search!FirstRank(x, lists[l]) = Search!FirstRank(x, sought.lists[l])
    <3>1. PICK a \in Nat : a = Search!FirstRank(x, sought.lists[l]) /\ a <= Len(sought.lists[l])
      BY SoughtFacts, GainFacts
    <3>2. PICK b \in Nat : b = Len(sought.lists[l]) /\ b <= MaxRanking
      BY SoughtFacts
    <3>3. MaxRanking \in Nat /\ sought.prefetch >= MaxRanking /\ sought.prefetch \in Nat
      BY <1>10, SoughtFacts DEF Search!FusedHere, Search!HybridAssumption
    <3>4. a <= sought.prefetch
      BY <3>1, <3>2, <3>3
    <3>5. Search!FirstRank(x, lists[l]) = IF a <= sought.prefetch THEN a ELSE 0
      BY <3>1, <1>2, PrefetchedFacts DEF lists
    <3>6. QED
      BY <3>1, <3>4, <3>5
  <2>2. ASSUME NEW x, NEW l \in 1 .. 2 PROVE Gain(lists, weights, k, x, l) = Search!Contribution(x, l)
    BY <2>1 DEF Gain, Search!Contribution, weights, k
  <2>3. 1 \in 1 .. 2 /\ 2 \in 1 .. 2
    OBVIOUS
  <2>4. \A i \in DOMAIN r : r[i].score = Total(lists, weights, k, r[i].key)
    BY <1>6 DEF FusionOf
  <2>5. QED
    BY <2>2, <2>3, <2>4 DEF ScoredResult, Total
<1>11. found' = r
  BY <1>1 DEF r
<1>12. QED
  BY <1>1, <1>2, <1>9, <1>10, <1>11, FairReturn

LEMMA StepSearchOne ==
  ASSUME Search!HybridAssumption, Sought, Search!SearchOne
  PROVE  FusionIsFair'
<1>1. PICK l \in 1 .. 2 :
        /\ sought.weights[l] > 0 /\ sought.weights[3 - l] <= 0
        /\ found' = Search!Hits(Search!Top(sought.lists[l], sought.limit)) /\ sought' = sought
  <2>1. \A l \in {1, 2} : l \in 1 .. 2
    OBVIOUS
  <2>2. QED
    BY <2>1 DEF Search!SearchOne, Search!Return
<1>2. sought.kind = "search"
  BY DEF Search!SearchOne, Search!Called
<1>3. /\ sought.lists[l] \in Seq(Point) /\ Search!Distinct(sought.lists[l]) /\ sought.limit \in Nat
      /\ sought.weights[3 - l] \in Nat /\ 3 - l \in 1 .. 2 /\ 3 - l # l
      /\ DOMAIN sought.lists[l] = 1 .. Len(sought.lists[l]) /\ Len(sought.lists[l]) \in Nat
  <2>1. 3 - l \in 1 .. 2 /\ 3 - l # l
    OBVIOUS
  <2>2. QED
    BY <2>1, <1>2, SoughtFacts
<1>4. sought.weights[3 - l] = 0
  BY <1>1, <1>3
<1> DEFINE s == sought.lists[l]
           t == Search!Top(s, sought.limit)
           r == Search!Hits(t)
<1>5. /\ t \in Seq(Point) /\ Len(t) = (IF sought.limit < Len(s) THEN sought.limit ELSE Len(s))
      /\ \A i \in DOMAIN t : i \in DOMAIN s /\ t[i] = s[i]
      /\ \A i \in DOMAIN s : i <= sought.limit => i \in DOMAIN t
  BY <1>3, TopFacts
<1> HIDE DEF t
<1>6. Len(t) \in Nat /\ DOMAIN t = 1 .. Len(t) /\ \A i \in DOMAIN t : t[i] \in Point
  BY <1>5, LenProperties, ElementOfSeq
<1>7. DOMAIN r = DOMAIN t /\ \A i \in DOMAIN r : r[i].key = t[i] /\ r[i].score = 0
  BY DEF Search!Hits
<1>8. Len(r) = Len(t)
  <2>1. r \in [1 .. Len(t) -> [key : Point, score : Int, item : (1 .. 2) \X Nat]]
    <3>1. ASSUME NEW i \in 1 .. Len(t)
          PROVE  [key |-> t[i], score |-> 0, item |-> <<1, i>>] \in [key : Point, score : Int, item : (1 .. 2) \X Nat]
      <4>1. t[i] \in Point /\ i \in Nat
        BY <1>6
      <4>2. <<1, i>> \in (1 .. 2) \X Nat
        BY <4>1
      <4>3. QED
        BY <4>1, <4>2
    <3>2. r = [i \in 1 .. Len(t) |-> [key |-> t[i], score |-> 0, item |-> <<1, i>>]]
      BY <1>6 DEF Search!Hits
    <3>3. QED
      BY <3>1, <3>2
  <2> DEFINE R == [key : Point, score : Int, item : (1 .. 2) \X Nat]
  <2> HIDE DEF r, R
  <2>2. r \in Seq(R)
    <3>1. r \in [1 .. Len(t) -> R]
      BY <2>1 DEF R
    <3>2. QED
      BY <3>1, <1>6, SeqDef
  <2>3. QED
    <3>1. r \in [1 .. Len(t) -> R]
      BY <2>1 DEF R
    <3>2. DOMAIN r = 1 .. Len(t)
      BY <3>1
    <3>3. QED
      BY <2>2, <3>2, <1>6, LenProperties
<1> HIDE DEF r, s
<1>9. Len(r) <= Search!Max({sought.limit, 1})
  <2>1. PICK n \in Nat, m \in Nat, p \in Nat : n = sought.limit /\ m = Len(t) /\ p = Len(s)
    BY <1>3, <1>6 DEF s
  <2>2. m = IF n < p THEN n ELSE p
    BY <2>1, <1>5
  <2>3. m <= n
    BY <2>2
  <2>4. Search!Max({n, 1}) = IF n >= 1 THEN n ELSE 1
    BY LargerOfTwo
  <2>5. m <= Search!Max({n, 1})
    BY <2>3, <2>4
  <2>6. QED
    BY <2>1, <2>5, <1>8
<1>10. \A i, j \in DOMAIN s : s[i] = s[j] => i = j
  BY <1>3 DEF s, Search!Distinct
<1>11. TypedResult(r)
  <2>1. \A i \in DOMAIN r : r[i].key \in Point /\ r[i].score \in Int
    BY <1>6, <1>7
  <2>2. \A i, j \in DOMAIN r : r[i].key = r[j].key => i = j
    BY <1>5, <1>7, <1>10
  <2>3. QED
    BY <2>1, <2>2, <1>9 DEF TypedResult
<1>12. ASSUME NEW j \in DOMAIN r, NEW x \in Point, Search!Ahead(x, r[j].key)
       PROVE  \E i \in 1 .. j - 1 : r[i].key = x
  <2>1. PICK y : y = r[j].key
    OBVIOUS
  <2>2. j \in DOMAIN s /\ j \in DOMAIN t /\ y = s[j]
    BY <2>1, <1>5, <1>7
  <2>3. j \in Nat /\ j > 0 /\ s \in Seq(Point)
    BY <2>2, <1>3 DEF s
  <2>4. \A q \in 1 .. j - 1 : s[q] # s[j]
    <3>1. ASSUME NEW q \in 1 .. j - 1, s[q] = s[j] PROVE FALSE
      <4>1. q \in DOMAIN s /\ q # j
        BY <2>2, <1>3 DEF s
      <4>2. QED
        BY <4>1, <3>1, <2>2, <1>10
    <3>2. QED
      BY <3>1
  <2>5. Search!FirstRank(y, s) = j
    BY <2>2, <2>3, <2>4, IsFirstRank
  <2>6. PICK i \in Nat : i = Search!FirstRank(x, s) /\ i > 0 /\ i < j
    BY <2>1, <2>3, <2>5, <1>1, <1>12, AheadFacts DEF s
  <2>7. s[i] = x
    <3>1. Search!FirstRank(x, s) > 0
      BY <2>6
    <3>2. s[Search!FirstRank(x, s)] = x
      BY <2>3, <3>1, FirstRankFacts
    <3>3. QED
      BY <3>2, <2>6
  <2>8. i \in 1 .. j - 1 /\ i \in DOMAIN t
    BY <2>2, <2>3, <2>6, <1>6
  <2>9. QED
    BY <2>7, <2>8, <1>5, <1>7
<1>13. ~Search!FusedHere
  <2>1. sought.weights \in Weights \X Weights
    BY DEF Sought
  <2>2. DOMAIN sought.weights = 1 .. 2
    BY <2>1
  <2>3. 0 \in Search!Range(sought.weights)
    BY <2>2, <1>3, <1>4 DEF Search!Range
  <2>4. QED
    BY <2>3 DEF Search!FusedHere
<1>14. found' = r /\ sought' = sought
  BY <1>1 DEF r, t, s
<1>15. QED
  BY <1>2, <1>11, <1>12, <1>13, <1>14, FairReturn DEF OrderedResult

\* A list that has no point twice gives what the formula says.
LEMMA GivenIsContribution ==
  ASSUME Search!HybridAssumption, Sought, sought.kind = "results", NEW x, NEW l \in 1 .. 2
  PROVE  Search!Given(x, l) = Search!Contribution(x, l)
<1> DEFINE s == sought.lists[l]
<1>1. s \in Seq(Point) /\ Search!Distinct(s) /\ DOMAIN s = 1 .. Len(s) /\ Len(s) \in Nat
  BY SoughtFacts
<1>2. PICK a : a = Search!FirstRank(x, s)
  OBVIOUS
<1>3. /\ a \in 0 .. Len(s) /\ (a = 0 <=> \A q \in DOMAIN s : s[q] # x)
      /\ a > 0 => s[a] = x
  BY <1>1, <1>2, FirstRankFacts
<1>4. Search!Contribution(x, l) = IF a = 0 THEN 0 ELSE sought.weights[l] * Search!Share(sought.k, a)
  BY <1>2 DEF Search!Contribution
<1>5. CASE a = 0
  <2>1. ~\E q \in DOMAIN sought.lists[l] : sought.lists[l][q] = x
    BY <1>3, <1>5
  <2>2. QED
    BY <2>1, <1>4, <1>5 DEF Search!Given
<1>6. CASE a # 0
  <2>1. a > 0 /\ a \in DOMAIN s /\ s[a] = x
    BY <1>1, <1>3, <1>6
  <2> DEFINE b == CHOOSE q \in DOMAIN sought.lists[l] : sought.lists[l][q] = x
  <2>2. b \in DOMAIN s /\ s[b] = x
    BY <2>1
  <2> HIDE DEF b
  <2>3. a = b
    BY <2>1, <2>2, <1>1 DEF Search!Distinct
  <2>4. \E q \in DOMAIN sought.lists[l] : sought.lists[l][q] = x
    BY <2>1
  <2>5. Search!Given(x, l) = sought.weights[l] * Search!Share(sought.k, b)
    BY <2>4 DEF Search!Given, b
  <2>6. QED
    BY <2>3, <2>5, <1>4, <1>6
<1>7. QED
  BY <1>5, <1>6

LEMMA StepFuseResults ==
  ASSUME Search!HybridAssumption, Sought, Search!FuseResults
  PROVE  FusionIsFair'
<1> DEFINE lists == sought.lists
           weights == sought.weights
           k == sought.k
           keys == KeysOf(lists)
           Sum(x) == Search!Given(x, 1) + Search!Given(x, 2)
           All(s) == [i \in DOMAIN s |-> [key |-> s[i], score |-> Sum(s[i]), item |-> <<1, i>>]]
<1>1. PICK s \in Search!SetToSeqs(keys) :
        /\ \A i, j \in DOMAIN s : i < j => Sum(s[i]) >= Sum(s[j])
        /\ found' = Search!Top(All(s), sought.limit) /\ sought' = sought
  BY DEF Search!FuseResults, Search!Return, KeysOf
<1>2. sought.kind = "results" /\ Fusible(lists, weights, k) /\ sought.limit \in Nat
  BY SoughtFacts DEF Search!FuseResults, Search!Called
<1>3. \A l \in 1 .. 2 : Len(lists[l]) <= MaxRanking /\ lists[l] \in Seq(Point)
  BY SoughtFacts
<1>4. keys \subseteq Point /\ IsFiniteSet(keys)
  <2>1. ASSUME NEW l \in 1 .. 2 PROVE Search!Range(lists[l]) \subseteq Point
    BY <1>3, ElementOfSeq, LenProperties DEF Search!Range
  <2>2. 1 \in 1 .. 2 /\ 2 \in 1 .. 2
    OBVIOUS
  <2>3. keys \subseteq Point
    BY <2>1, <2>2 DEF KeysOf
  <2>4. QED
    BY <2>3, <1>2, KeysFinite
<1>5. /\ s \in Seq(keys) /\ \A i, j \in DOMAIN s : s[i] = s[j] => i = j
      /\ \A e \in keys : \E n \in DOMAIN s : s[n] = e
  BY <1>1, <1>4, WholeSet
<1>6. \A x : Sum(x) = Total(lists, weights, k, x)
  <2>1. ASSUME NEW x, NEW l \in 1 .. 2 PROVE Search!Given(x, l) = Gain(lists, weights, k, x, l)
    BY <1>2, GivenIsContribution DEF Search!Contribution, Gain
  <2>2. 1 \in 1 .. 2 /\ 2 \in 1 .. 2
    OBVIOUS
  <2>3. QED
    BY <2>1, <2>2 DEF Total
<1>7. \A x : Sum(x) \in Nat
  <2>1. \A x : Gain(lists, weights, k, x, 1) \in Nat /\ Gain(lists, weights, k, x, 2) \in Nat
    <3>1. 1 \in 1 .. 2 /\ 2 \in 1 .. 2
      OBVIOUS
    <3>2. QED
      BY <3>1, <1>2, GainFacts
  <2>2. \A a, b \in Nat : a + b \in Nat
    OBVIOUS
  <2> HIDE DEF Sum
  <2>3. QED
    BY <2>1, <2>2, <1>6 DEF Total
<1> HIDE DEF Sum
<1>8. Len(s) \in Nat /\ DOMAIN s = 1 .. Len(s) /\ \A i \in DOMAIN s : s[i] \in keys /\ s[i] \in Point
  BY <1>4, <1>5, LenProperties, ElementOfSeq
<1> DEFINE R == [key : Point, score : Nat, item : (1 .. 2) \X Nat]
           a == All(s)
           r == Search!Top(a, sought.limit)
<1>9. DOMAIN a = DOMAIN s /\ \A i \in DOMAIN s : a[i].key = s[i] /\ a[i].score = Sum(s[i])
  OBVIOUS
<1>10. a \in Seq(R)
  <2>1. ASSUME NEW i \in DOMAIN s PROVE a[i] \in R
    <3>1. s[i] \in Point /\ Sum(s[i]) \in Nat /\ i \in Nat
      BY <1>7, <1>8
    <3>2. <<1, i>> \in (1 .. 2) \X Nat
      BY <3>1
    <3>3. QED
      BY <3>1, <3>2
  <2>2. a = [i \in 1 .. Len(s) |-> a[i]]
    BY <1>8
  <2> HIDE DEF a, R
  <2>3. a \in [1 .. Len(s) -> R]
    BY <2>1, <2>2, <1>8
  <2>4. QED
    BY <2>3, <1>8, SeqDef
<1> HIDE DEF a, R
<1>11. /\ r \in Seq(R) /\ Len(r) = (IF sought.limit < Len(a) THEN sought.limit ELSE Len(a))
       /\ \A i \in DOMAIN r : i \in DOMAIN a /\ r[i] = a[i]
       /\ \A i \in DOMAIN a : i <= sought.limit => i \in DOMAIN r
  BY <1>2, <1>10, TopFacts
<1> HIDE DEF r
<1>12. Len(r) \in Nat /\ DOMAIN r = 1 .. Len(r) /\ Len(a) \in Nat
  BY <1>10, <1>11, LenProperties
<1>13. Len(r) <= Search!Max({sought.limit, 1})
  <2>1. PICK n \in Nat, m \in Nat, p \in Nat : n = sought.limit /\ m = Len(r) /\ p = Len(a)
    BY <1>2, <1>12
  <2>2. m = IF n < p THEN n ELSE p
    BY <2>1, <1>11
  <2>3. Search!Max({n, 1}) = IF n >= 1 THEN n ELSE 1
    BY LargerOfTwo
  <2>4. m <= Search!Max({n, 1})
    BY <2>2, <2>3
  <2>5. QED
    BY <2>1, <2>4
<1>14. \A i \in DOMAIN r : i \in DOMAIN s /\ r[i].key = s[i] /\ r[i].score = Sum(s[i])
  BY <1>9, <1>11
<1>15. TypedResult(r)
  <2>1. \A i \in DOMAIN r : r[i].key \in Point /\ r[i].score \in Int
    BY <1>7, <1>8, <1>14
  <2>2. \A i, j \in DOMAIN r : r[i].key = r[j].key => i = j
    BY <1>5, <1>14
  <2>3. QED
    BY <2>1, <2>2, <1>13 DEF TypedResult
<1>16. ScoredResult(r)
  <2>1. \A x, l : Search!Contribution(x, l) = Gain(lists, weights, k, x, l)
    BY DEF Search!Contribution, Gain
  <2>2. QED
    BY <2>1, <1>6, <1>14 DEF ScoredResult, Total
<1> HIDE DEF lists, weights, k
<1>17. ASSUME NEW j \in DOMAIN r, NEW x \in Point, Search!Ahead(x, r[j].key)
       PROVE  \E i \in 1 .. j - 1 : r[i].key = x
  <2>1. PICK y : y = r[j].key
    OBVIOUS
  <2>2. j \in DOMAIN s /\ y = s[j] /\ y \in keys
    BY <2>1, <1>8, <1>14
  <2>3. ASSUME NEW l \in 1 .. 2, Counted(lists, weights, y, l) > 0
        PROVE  /\ Search!FirstRank(x, lists[l]) > 0
               /\ Search!FirstRank(x, lists[l]) < Search!FirstRank(y, lists[l])
    <3>1. weights[l] # 0 /\ Search!FirstRank(y, lists[l]) > 0
      BY <2>3 DEF Counted
    <3>2. weights[l] > 0
      BY <3>1, SoughtFacts DEF weights
    <3>3. Search!Ahead(x, y)
      BY <2>1, <1>17
    <3>4. QED
      BY <3>1, <3>2, <3>3, AheadFacts DEF lists, weights
  <2>4. \E l \in 1 .. 2 : Counted(lists, weights, y, l) > 0
    <3>1. Search!Ahead(x, y)
      BY <2>1, <1>17
    <3>2. PICK l \in {1, 2} : weights[l] > 0 /\ Search!FirstRank(y, lists[l]) > 0
      BY <3>1, <1>2 DEF Search!Ahead, lists, weights
    <3>3. l \in 1 .. 2 /\ weights[l] \in Nat
      BY SoughtFacts DEF weights
    <3>4. weights[l] # 0
      BY <3>2, <3>3
    <3>5. QED
      BY <3>2, <3>3, <3>4 DEF Counted
  <2>5. Total(lists, weights, k, x) > Total(lists, weights, k, y) /\ x \in KeysOf(lists)
    BY <2>3, <2>4, <1>2, <1>3, AheadScoresMore
  <2>6. PICK i \in DOMAIN s : s[i] = x
    BY <2>5, <1>5
  <2>7. Sum(s[i]) > Sum(s[j]) /\ Sum(s[i]) \in Nat /\ Sum(s[j]) \in Nat
    BY <2>2, <2>5, <2>6, <1>6, <1>7
  <2>8. ~(j < i) /\ i # j
    BY <2>2, <2>6, <2>7, <1>1
  <2>9. i \in Nat /\ i >= 1 /\ j \in Nat
    BY <2>2, <2>6, <1>8
  <2>10. i \in 1 .. j - 1 /\ i \in DOMAIN r
    BY <2>8, <2>9, <1>12
  <2>11. QED
    BY <2>6, <2>10, <1>14
<1>18. found' = r /\ sought' = sought
  BY <1>1 DEF r, a
<1>19. QED
  BY <1>2, <1>15, <1>16, <1>17, <1>18, FairReturn DEF OrderedResult

\* The groups of the first n points, and the points that are the first of theirs.
GroupsOf(s, n) == {Grouping[s[p]] : p \in 1 .. n}
Leads(s, q) == \A p \in 1 .. q - 1 : Grouping[s[p]] # Grouping[s[q]]
Leading(s, b, n) ==
  /\ b \in Seq(Point) /\ Len(b) = Cardinality(GroupsOf(s, n)) /\ Len(b) <= n
  /\ \A r \in DOMAIN b : \E q \in 1 .. n :
       b[r] = s[q] /\ Leads(s, q) /\ r = Cardinality(GroupsOf(s, q - 1)) + 1
  /\ \A q \in 1 .. n : Leads(s, q) =>
       Cardinality(GroupsOf(s, q - 1)) + 1 \in DOMAIN b /\ b[Cardinality(GroupsOf(s, q - 1)) + 1] = s[q]

LEMMA GroupsGrow ==
  ASSUME NEW s, NEW n \in Nat
  PROVE  /\ GroupsOf(s, 0) = {} /\ GroupsOf(s, n + 1) = GroupsOf(s, n) \cup {Grouping[s[n + 1]]}
         /\ IsFiniteSet(GroupsOf(s, n)) /\ Cardinality(GroupsOf(s, n)) \in Nat
<1>1. GroupsOf(s, 0) = {}
  BY DEF GroupsOf
<1>2. \A m \in Nat : GroupsOf(s, m + 1) = GroupsOf(s, m) \cup {Grouping[s[m + 1]]}
  <2>1. ASSUME NEW m \in Nat PROVE GroupsOf(s, m + 1) = GroupsOf(s, m) \cup {Grouping[s[m + 1]]}
    <3>1. \A p : p \in 1 .. m + 1 <=> p \in 1 .. m \/ p = m + 1
      OBVIOUS
    <3>2. QED
      BY <3>1 DEF GroupsOf
  <2>2. QED
    BY <2>1
<1> DEFINE T == {m \in Nat : IsFiniteSet(GroupsOf(s, m))}
<1>3. 0 \in T
  BY <1>1, FS_EmptySet
<1>4. ASSUME NEW m \in Nat, m \in T PROVE m + 1 \in T
  BY <1>2, <1>4, FS_AddElement
<1>5. Nat \subseteq T
  <2> HIDE DEF T
  <2>1. QED
    BY <1>3, <1>4, AllNaturals
<1>6. IsFiniteSet(GroupsOf(s, n))
  BY <1>5
<1>7. QED
  BY <1>1, <1>2, <1>6, FS_CardinalityType

LEMMA LeadingGrows ==
  ASSUME NEW s \in Seq(Point), NEW n \in Nat, n + 1 \in DOMAIN s, NEW b, Leading(s, b, n)
  PROVE  /\ Leads(s, n + 1) => Leading(s, Append(b, s[n + 1]), n + 1)
         /\ ~Leads(s, n + 1) => Leading(s, b, n + 1)
<1> DEFINE C(m) == Cardinality(GroupsOf(s, m))
           x == s[n + 1]
<1>1. /\ GroupsOf(s, n + 1) = GroupsOf(s, n) \cup {Grouping[x]}
      /\ IsFiniteSet(GroupsOf(s, n)) /\ C(n) \in Nat
  BY GroupsGrow
<1>2. x \in Point
  BY ElementOfSeq, LenProperties
<1>3. b \in Seq(Point) /\ Len(b) = C(n) /\ Len(b) <= n /\ Len(b) \in Nat /\ DOMAIN b = 1 .. Len(b)
  BY LenProperties DEF Leading
<1>4. Leads(s, n + 1) <=> Grouping[x] \notin GroupsOf(s, n)
  <2>1. (n + 1) - 1 = n
    OBVIOUS
  <2>2. QED
    BY <2>1 DEF Leads, GroupsOf
<1>5. \A q : q \in 1 .. n + 1 <=> q \in 1 .. n \/ q = n + 1
  OBVIOUS
<1>6. ASSUME Leads(s, n + 1) PROVE Leading(s, Append(b, x), n + 1)
  <2> DEFINE d == Append(b, x)
  <2>1. /\ d \in Seq(Point) /\ Len(d) = Len(b) + 1 /\ d[Len(b) + 1] = x
        /\ \A r \in 1 .. Len(b) : d[r] = b[r]
    BY <1>2, <1>3, AppendProperties
  <2> HIDE DEF d
  <2>2. C(n + 1) = C(n) + 1
    BY <1>1, <1>4, <1>6, FS_AddElement
  <2>3. DOMAIN d = 1 .. Len(b) + 1
    <3>1. DOMAIN d = 1 .. Len(d)
      BY <2>1, LenProperties
    <3>2. QED
      BY <3>1, <2>1
  <2>4. Len(d) = C(n + 1) /\ Len(d) <= n + 1
    <3>1. PICK a \in Nat : a = Len(b)
      BY <1>3
    <3>2. Len(d) = a + 1 /\ a <= n /\ C(n + 1) = a + 1
      BY <3>1, <2>1, <2>2, <1>3
    <3>3. QED
      BY <3>2
  <2>5. \A r : r \in DOMAIN d => r \in DOMAIN b \/ r = Len(b) + 1
    BY <2>3, <1>3
  <2>6. ASSUME NEW r \in DOMAIN d
        PROVE  \E q \in 1 .. n + 1 : d[r] = s[q] /\ Leads(s, q) /\ r = C(q - 1) + 1
    <3>1. CASE r \in DOMAIN b
      <4>1. PICK q \in 1 .. n : b[r] = s[q] /\ Leads(s, q) /\ r = C(q - 1) + 1
        BY <3>1 DEF Leading
      <4>2. d[r] = b[r] /\ q \in 1 .. n + 1
        BY <3>1, <2>1, <1>3
      <4>3. QED
        BY <4>1, <4>2
    <3>2. CASE r = Len(b) + 1
      <4>1. n + 1 \in 1 .. n + 1 /\ (n + 1) - 1 = n
        OBVIOUS
      <4>2. d[r] = s[n + 1] /\ Leads(s, n + 1) /\ r = C((n + 1) - 1) + 1
        BY <3>2, <4>1, <2>1, <1>3, <1>6
      <4>3. QED
        BY <4>1, <4>2
    <3>3. QED
      BY <3>1, <3>2, <2>5
  <2>7. ASSUME NEW q \in 1 .. n + 1, Leads(s, q)
        PROVE  C(q - 1) + 1 \in DOMAIN d /\ d[C(q - 1) + 1] = s[q]
    <3>1. CASE q \in 1 .. n
      <4>1. C(q - 1) + 1 \in DOMAIN b /\ b[C(q - 1) + 1] = s[q]
        BY <3>1, <2>7 DEF Leading
      <4>2. \A r \in DOMAIN b : r \in DOMAIN d /\ d[r] = b[r]
        BY <2>1, <2>3, <1>3
      <4>3. QED
        BY <4>1, <4>2
    <3>2. CASE q = n + 1
      <4>1. q - 1 = n
        BY <3>2
      <4>2. C(q - 1) + 1 = Len(b) + 1
        BY <4>1, <1>3
      <4>3. Len(b) + 1 \in DOMAIN d
        BY <2>3, <1>3
      <4>4. QED
        BY <4>2, <4>3, <2>1, <3>2
    <3>3. QED
      BY <3>1, <3>2, <1>5
  <2>8. QED
    BY <2>1, <2>4, <2>6, <2>7 DEF Leading, d
<1>7. ASSUME ~Leads(s, n + 1) PROVE Leading(s, b, n + 1)
  <2>1. GroupsOf(s, n + 1) = GroupsOf(s, n)
    BY <1>1, <1>4, <1>7
  <2>2. Len(b) = C(n + 1) /\ Len(b) <= n + 1
    BY <2>1, <1>3
  <2>3. ASSUME NEW r \in DOMAIN b
        PROVE  \E q \in 1 .. n + 1 : b[r] = s[q] /\ Leads(s, q) /\ r = C(q - 1) + 1
    <3>1. PICK q \in 1 .. n : b[r] = s[q] /\ Leads(s, q) /\ r = C(q - 1) + 1
      BY DEF Leading
    <3>2. q \in 1 .. n + 1
      OBVIOUS
    <3>3. QED
      BY <3>1, <3>2
  <2>4. ASSUME NEW q \in 1 .. n + 1, Leads(s, q)
        PROVE  C(q - 1) + 1 \in DOMAIN b /\ b[C(q - 1) + 1] = s[q]
    <3>1. q \in 1 .. n
      BY <2>4, <1>5, <1>7
    <3>2. QED
      BY <3>1, <2>4 DEF Leading
  <2>5. QED
    BY <2>2, <2>3, <2>4, <1>3 DEF Leading
<1>8. QED
  BY <1>6, <1>7

\* The best points of the groups are those that lead them, in their order.
LEMMA BestLeads ==
  ASSUME NEW s \in Seq(Point)
  PROVE  Leading(s, Search!BestOfGroups(s), Len(s))
<1> DEFINE N == Len(s)
           S == Seq(Point)
           A(c, n) == IF \E q \in 1 .. n - 1 : Grouping[s[q]] = Grouping[s[n]] THEN c ELSE Append(c, s[n])
           Val(f, n) == IF n = 0 THEN <<>> ELSE A(f[n - 1], n)
           Solves(f) == f = [n \in 0 .. N |-> Val(f, n)]
           op == [x \in S \X (1 .. N) |-> A(x[1], x[2])]
<1>1. N \in Nat /\ \A n \in 1 .. N : n \in DOMAIN s /\ s[n] \in Point
  BY LenProperties, ElementOfSeq
<1>2. <<>> \in S
  OBVIOUS
<1>3. \A c \in S, n \in 1 .. N : A(c, n) \in S
  <2>1. ASSUME NEW c \in S, NEW n \in 1 .. N PROVE A(c, n) \in S
    <3>1. Append(c, s[n]) \in S
      BY <1>1, AppendProperties
    <3>2. QED
      BY <3>1
  <2>2. QED
    BY <2>1
<1> HIDE DEF A, S, N
<1>4. op \in [S \X (1 .. N) -> S]
  BY <1>3
<1>5. \A c \in S, n \in 1 .. N : op[<<c, n>>] = A(c, n)
  OBVIOUS
<1> HIDE DEF op
<1>6. PICK f : IsRecursive(f, S, <<>>, N, op)
  <2>1. Recurs(S, <<>>, N, op)
    BY <1>1, <1>2, <1>4 DEF Recurs
  <2>2. QED
    BY <2>1, Recursion
<1>7. \A n \in 0 .. N : f[n] = Val(f, n)
  <2>1. ASSUME NEW n \in 1 .. N PROVE f[n] = A(f[n - 1], n)
    <3>1. f[n - 1] \in S
      BY <1>1, <1>6 DEF IsRecursive
    <3>2. QED
      BY <3>1, <1>5, <1>6 DEF IsRecursive
  <2>2. f[0] = <<>> /\ \A n \in 0 .. N : n = 0 \/ n \in 1 .. N
    BY <1>1, <1>6 DEF IsRecursive
  <2>3. QED
    BY <2>1, <2>2
<1>8. Solves(f)
  <2> HIDE DEF Val
  <2>1. QED
    BY <1>6, <1>7 DEF IsRecursive
<1> DEFINE g == CHOOSE h : Solves(h)
<1>9. Solves(g)
  <2> HIDE DEF Solves
  <2>1. QED
    BY <1>8
<1>10. Search!BestOfGroups(s) = g[N]
  BY DEF Search!BestOfGroups, N, A
<1> HIDE DEF g
<1>11. \A n \in 0 .. N : g[n] = Val(g, n)
  <2> HIDE DEF Val
  <2>1. QED
    BY <1>9
<1>12. \A n \in 1 .. N : g[n] = A(g[n - 1], n)
  BY <1>1, <1>11
<1>13. g[0] = <<>>
  BY <1>1, <1>11
<1> DEFINE T == {n \in Nat : n <= N => Leading(s, g[n], n)}
<1>14. 0 \in T
  <2> DEFINE e == <<>>
  <2>1. e \in Seq(Point) /\ Len(e) = 0 /\ DOMAIN e = {}
    OBVIOUS
  <2>2. GroupsOf(s, 0) = {} /\ Cardinality({}) = 0
    BY GroupsGrow, FS_EmptySet
  <2> HIDE DEF e
  <2>3. \A q : q \notin 1 .. 0
    OBVIOUS
  <2>4. Len(e) = Cardinality(GroupsOf(s, 0)) /\ Len(e) <= 0
    <3>1. Cardinality(GroupsOf(s, 0)) = 0
      BY GroupsGrow, FS_EmptySet, Zenon
    <3>2. Len(e) = 0 /\ 0 <= 0
      BY <2>1
    <3>3. QED
      BY <3>1, <3>2
  <2>5. \A r : r \notin DOMAIN e
    BY <2>1
  <2>6. Leading(s, e, 0)
    BY <2>1, <2>3, <2>4, <2>5, Zenon DEF Leading
  <2>7. QED
    BY <2>6, <1>13 DEF e
<1>15. ASSUME NEW m \in Nat, m \in T PROVE m + 1 \in T
  <2>1. SUFFICES ASSUME m + 1 <= N PROVE Leading(s, g[m + 1], m + 1)
    OBVIOUS
  <2>2. m + 1 \in 1 .. N /\ (m + 1) - 1 = m /\ m <= N
    BY <1>1, <2>1
  <2>3. g[m + 1] = A(g[m], m + 1)
    BY <1>12, <2>2
  <2>4. Leading(s, g[m], m)
    BY <1>15, <2>2
  <2>5. m + 1 \in DOMAIN s
    BY <1>1, <2>2
  <2>6. /\ Leads(s, m + 1) => Leading(s, Append(g[m], s[m + 1]), m + 1)
        /\ ~Leads(s, m + 1) => Leading(s, g[m], m + 1)
    BY <2>4, <2>5, LeadingGrows
  <2>7. A(g[m], m + 1) = IF Leads(s, m + 1) THEN Append(g[m], s[m + 1]) ELSE g[m]
    BY DEF A, Leads
  <2>8. QED
    BY <2>3, <2>6, <2>7
<1>16. Nat \subseteq T
  <2> HIDE DEF T
  <2>1. QED
    BY <1>14, <1>15, AllNaturals
<1>17. Leading(s, g[N], N)
  BY <1>1, <1>16
<1>18. QED
  BY <1>10, <1>17 DEF N

\* The ranking of the groups of a list, and the rank of the group of a point.
Ranking(s) == [r \in DOMAIN Search!BestOfGroups(s) |-> Grouping[Search!BestOfGroups(s)[r]]]
MembersOf(s, x) == {q \in DOMAIN s : Grouping[s[q]] = Grouping[x]}

LEMMA RankingFacts ==
  ASSUME Search!HybridAssumption, NEW s \in Seq(Point)
  PROVE  /\ Ranking(s) \in Seq(Int) /\ Len(Ranking(s)) <= Len(s) /\ Len(Ranking(s)) \in Nat
         /\ Search!BestOfGroups(s) \in Seq(Point) /\ Len(Ranking(s)) = Len(Search!BestOfGroups(s))
         /\ DOMAIN Ranking(s) = DOMAIN Search!BestOfGroups(s) /\ DOMAIN Ranking(s) = 1 .. Len(Ranking(s))
         /\ \A r \in DOMAIN Ranking(s) : Ranking(s)[r] = Grouping[Search!BestOfGroups(s)[r]]
         /\ \A q, r \in DOMAIN Ranking(s) : Ranking(s)[q] = Ranking(s)[r] => q = r
<1> DEFINE b == Search!BestOfGroups(s)
           t == Ranking(s)
<1>1. Leading(s, b, Len(s))
  BY BestLeads
<1> HIDE DEF b
<1>2. b \in Seq(Point) /\ Len(b) \in Nat /\ DOMAIN b = 1 .. Len(b) /\ Len(b) <= Len(s)
      /\ \A r \in DOMAIN b : b[r] \in Point
  BY <1>1, LenProperties, ElementOfSeq DEF Leading
<1>3. t = [r \in 1 .. Len(b) |-> Grouping[b[r]]]
  BY <1>2 DEF Ranking, b
<1> HIDE DEF t
<1>4. t \in [1 .. Len(b) -> Int] /\ \A r \in 1 .. Len(b) : t[r] = Grouping[b[r]]
  BY <1>2, <1>3 DEF Search!HybridAssumption
<1>5. t \in Seq(Int)
  BY <1>2, <1>4, SeqDef
<1>6. Len(t) = Len(b) /\ DOMAIN t = DOMAIN b
  BY <1>2, <1>4, <1>5, LenProperties
<1>7. ASSUME NEW q \in DOMAIN b, NEW r \in DOMAIN b, t[q] = t[r] PROVE q = r
  <2>1. PICK i \in 1 .. Len(s) :
          b[q] = s[i] /\ Leads(s, i) /\ q = Cardinality(GroupsOf(s, i - 1)) + 1
    BY <1>1 DEF Leading
  <2>2. PICK j \in 1 .. Len(s) :
          b[r] = s[j] /\ Leads(s, j) /\ r = Cardinality(GroupsOf(s, j - 1)) + 1
    BY <1>1 DEF Leading
  <2>3. Grouping[s[i]] = Grouping[s[j]]
    BY <2>1, <2>2, <1>2, <1>4, <1>7
  <2>4. i \in Nat /\ j \in Nat /\ i >= 1 /\ j >= 1
    BY LenProperties
  <2>5. ~(i < j)
    <3>1. SUFFICES ASSUME i < j PROVE FALSE
      OBVIOUS
    <3>2. i \in 1 .. j - 1
      BY <3>1, <2>4
    <3>3. QED
      BY <3>2, <2>2, <2>3 DEF Leads
  <2>6. ~(j < i)
    <3>1. SUFFICES ASSUME j < i PROVE FALSE
      OBVIOUS
    <3>2. j \in 1 .. i - 1
      BY <3>1, <2>4
    <3>3. QED
      BY <3>2, <2>1, <2>3 DEF Leads
  <2>7. i = j
    BY <2>4, <2>5, <2>6
  <2>8. QED
    BY <2>1, <2>2, <2>7
<1>8. QED
  BY <1>2, <1>4, <1>5, <1>6, <1>7 DEF t, b

LEMMA MemberFacts ==
  ASSUME Search!HybridAssumption, NEW s \in Seq(Point), NEW x \in Point
  PROVE  LET first == Search!Min(MembersOf(s, x))
             rank == IF MembersOf(s, x) = {} THEN 0 ELSE Cardinality(GroupsOf(s, first - 1)) + 1
         IN /\ Search!FirstRank(Grouping[x], Ranking(s)) = rank
            /\ rank > 0 => Search!FirstRank(Search!BestOfGroups(s)[rank], s) = first
<1> DEFINE M == MembersOf(s, x)
           b == Search!BestOfGroups(s)
           t == Ranking(s)
           C(m) == Cardinality(GroupsOf(s, m))
<1>1. Leading(s, b, Len(s)) /\ Len(s) \in Nat /\ DOMAIN s = 1 .. Len(s)
  BY BestLeads, LenProperties
<1>2. /\ t \in Seq(Int) /\ DOMAIN t = DOMAIN b /\ \A r \in DOMAIN t : t[r] = Grouping[b[r]]
      /\ \A q, r \in DOMAIN t : t[q] = t[r] => q = r
      /\ DOMAIN t = 1 .. Len(t) /\ Len(t) \in Nat
  BY RankingFacts
<1> HIDE DEF b, t
<1>3. CASE M = {}
  <2>1. \A r \in DOMAIN t : t[r] # Grouping[x]
    <3>1. ASSUME NEW r \in DOMAIN t, t[r] = Grouping[x] PROVE FALSE
      <4>1. PICK q \in 1 .. Len(s) : b[r] = s[q]
        BY <1>1, <1>2 DEF Leading
      <4>2. q \in M
        BY <4>1, <3>1, <1>1, <1>2 DEF MembersOf
      <4>3. QED
        BY <4>2, <1>3
    <3>2. QED
      BY <3>1
  <2>2. Search!FirstRank(Grouping[x], t) = 0
    BY <2>1, <1>2, FirstRankFacts
  <2>3. QED
    BY <2>2, <1>3 DEF t
<1>4. CASE M # {}
  <2>1. M \subseteq Nat
    BY <1>1 DEF MembersOf
  <2>2. PICK z \in M : \A y \in M : z <= y
    BY <2>1, <1>4, LeastElement
  <2> DEFINE m == CHOOSE u \in M : \A y \in M : u <= y
  <2>3. m \in M /\ \A y \in M : m <= y
    BY <2>2
  <2>4. Search!Min(M) = m
    BY DEF Search!Min
  <2> HIDE DEF m
  <2>5. m \in DOMAIN s /\ m \in 1 .. Len(s) /\ Grouping[s[m]] = Grouping[x]
    BY <2>3, <1>1 DEF MembersOf
  <2>6. Leads(s, m)
    <3>1. ASSUME NEW p \in 1 .. m - 1, Grouping[s[p]] = Grouping[s[m]] PROVE FALSE
      <4>1. p \in DOMAIN s /\ p < m
        BY <2>5, <1>1
      <4>2. p \in M
        BY <4>1, <3>1, <2>5 DEF MembersOf
      <4>3. p \in Nat /\ m \in Nat
        BY <4>2, <2>1, <2>3
      <4>4. QED
        BY <4>1, <4>2, <4>3, <2>3
    <3>2. QED
      BY <3>1 DEF Leads
  <2>7. PICK r : r = C(m - 1) + 1
    OBVIOUS
  <2>8. r \in DOMAIN b /\ b[r] = s[m]
    BY <2>5, <2>6, <2>7, <1>1 DEF Leading
  <2>9. r \in DOMAIN t /\ t[r] = Grouping[x] /\ r > 0
    BY <2>5, <2>8, <1>2
  <2>10. \A q \in 1 .. r - 1 : t[q] # t[r]
    <3>1. ASSUME NEW q \in 1 .. r - 1, t[q] = t[r] PROVE FALSE
      <4>1. q \in DOMAIN t /\ q # r
        BY <2>9, <1>2
      <4>2. QED
        BY <4>1, <3>1, <2>9, <1>2
    <3>2. QED
      BY <3>1
  <2>11. Search!FirstRank(Grouping[x], t) = r
    BY <2>9, <2>10, <1>2, IsFirstRank
  <2>12. Search!FirstRank(s[m], s) = m
    <3>1. \A p \in 1 .. m - 1 : s[p] # s[m]
      BY <2>6 DEF Leads
    <3>2. QED
      BY <3>1, <2>5, IsFirstRank
  <2>13. QED
    BY <2>4, <2>7, <2>8, <2>9, <2>11, <2>12, <1>4 DEF t, b
<1>5. QED
  BY <1>3, <1>4

\* The lists of hits and of groups that are fused.
HitLists == [l \in 1 .. 2 |-> Search!GroupHits(l)]
GroupLists == [l \in 1 .. 2 |-> [r \in DOMAIN HitLists[l] |-> Grouping[HitLists[l][r]]]]
Most == IF sought.prefetch >= sought.limit THEN sought.prefetch ELSE sought.limit

LEMMA GroupListFacts ==
  ASSUME Search!HybridAssumption, Sought, NEW l \in 1 .. 2
  PROVE  /\ GroupLists[l] \in Seq(Int) /\ Len(GroupLists[l]) <= MaxRanking /\ Most \in Nat
         /\ sought.limit <= Most
         /\ \A g : Search!FirstRank(g, GroupLists[l])
              = IF sought.weights[l] > 0 /\ Search!FirstRank(g, Ranking(sought.lists[l])) <= Most
                THEN Search!FirstRank(g, Ranking(sought.lists[l])) ELSE 0
         /\ \A r \in DOMAIN GroupLists[l] :
              /\ r \in DOMAIN HitLists[l] /\ r \in DOMAIN Ranking(sought.lists[l])
              /\ HitLists[l][r] = Search!BestOfGroups(sought.lists[l])[r] /\ HitLists[l][r] \in Point
              /\ GroupLists[l][r] = Grouping[HitLists[l][r]]
<1> DEFINE s == sought.lists[l]
           b == Search!BestOfGroups(s)
           t == Ranking(s)
           h == HitLists[l]
           u == GroupLists[l]
<1>1. s \in Seq(Point) /\ Len(s) <= MaxRanking /\ Len(s) \in Nat /\ sought.weights[l] \in Nat
      /\ sought.prefetch \in Nat /\ sought.limit \in Nat
  BY SoughtFacts
<1> HIDE DEF s
<1>2. /\ t \in Seq(Int) /\ Len(t) <= Len(s) /\ Len(t) \in Nat /\ b \in Seq(Point) /\ Len(t) = Len(b)
      /\ DOMAIN t = DOMAIN b /\ DOMAIN t = 1 .. Len(t) /\ \A r \in DOMAIN t : t[r] = Grouping[b[r]]
  BY <1>1, RankingFacts
<1> HIDE DEF b, t
<1>3. Most \in Nat /\ sought.limit <= Most /\ Most = Search!Max({sought.prefetch, sought.limit})
  <2>1. PICK p \in Nat, q \in Nat : p = sought.prefetch /\ q = sought.limit
    BY <1>1
  <2>2. Search!Max({p, q}) = IF p >= q THEN p ELSE q
    BY LargerOfTwo
  <2>3. QED
    BY <2>1, <2>2 DEF Most
<1>4. h = IF sought.weights[l] <= 0 THEN <<>> ELSE Search!Top(b, Most)
  BY <1>3 DEF HitLists, Search!GroupHits, b, s
<1>5. u = [r \in DOMAIN h |-> Grouping[h[r]]]
  BY DEF GroupLists
<1> HIDE DEF h, u
<1>6. CASE sought.weights[l] = 0
  <2>1. h = <<>> /\ DOMAIN h = {}
    BY <1>4, <1>6
  <2>2. u = <<>>
    BY <2>1, <1>5
  <2>3. u \in Seq(Int) /\ Len(u) = 0 /\ DOMAIN u = {}
    BY <2>2
  <2>4. \A g : Search!FirstRank(g, u) = 0
    BY <2>3, FirstRankFacts
  <2>5. Len(u) <= MaxRanking
    BY <2>3 DEF Search!HybridAssumption
  <2>6. ~(sought.weights[l] > 0)
    BY <1>6
  <2>7. QED
    BY <2>3, <2>4, <2>5, <2>6, <1>3 DEF u
<1>7. CASE sought.weights[l] # 0
  <2>1. sought.weights[l] > 0 /\ h = Search!Top(b, Most)
    BY <1>1, <1>4, <1>7
  <2>2. /\ h \in Seq(Point) /\ Len(h) = (IF Most < Len(b) THEN Most ELSE Len(b))
        /\ \A i \in DOMAIN h : i \in DOMAIN b /\ h[i] = b[i]
        /\ \A i \in DOMAIN b : i <= Most => i \in DOMAIN h
    <3>1. b \in Seq(Point) /\ Most \in Nat
      BY <1>2, <1>3
    <3>2. PICK m \in Nat : m = Most
      BY <3>1
    <3>3. LET z == Search!Top(b, m)
          IN /\ z \in Seq(Point) /\ Len(z) = IF m < Len(b) THEN m ELSE Len(b)
             /\ \A i \in DOMAIN z : i \in DOMAIN b /\ z[i] = b[i]
             /\ \A i \in DOMAIN b : i <= m => i \in DOMAIN z
      BY <3>1, TopFacts
    <3>4. QED
      BY <3>2, <3>3, <2>1
  <2> DEFINE v == Search!Top(t, Most)
  <2>3. /\ v \in Seq(Int) /\ Len(v) = (IF Most < Len(t) THEN Most ELSE Len(t))
        /\ \A i \in DOMAIN v : i \in DOMAIN t /\ v[i] = t[i]
    <3>1. t \in Seq(Int) /\ Most \in Nat
      BY <1>2, <1>3
    <3>2. PICK m \in Nat : m = Most
      BY <3>1
    <3>3. LET z == Search!Top(t, m)
          IN /\ z \in Seq(Int) /\ Len(z) = IF m < Len(t) THEN m ELSE Len(t)
             /\ \A i \in DOMAIN z : i \in DOMAIN t /\ z[i] = t[i]
      BY <3>1, TopFacts
    <3>4. QED
      BY <3>2, <3>3
  <2> HIDE DEF v
  <2>4. DOMAIN v = 1 .. Len(v) /\ v = [r \in 1 .. Len(v) |-> v[r]] /\ DOMAIN h = 1 .. Len(h) /\ Len(v) \in Nat
    BY <2>2, <2>3, LenProperties
  <2>5. Len(v) = Len(h)
    BY <2>2, <2>3, <1>2
  <2>6. DOMAIN v = DOMAIN h
    BY <2>4, <2>5
  <2>7. u = v
    <3>1. \A r \in DOMAIN h : Grouping[h[r]] = v[r]
      BY <2>2, <2>3, <2>6, <1>2
    <3>2. v = [r \in DOMAIN h |-> v[r]]
      BY <2>4, <2>5
    <3>3. QED
      BY <3>1, <3>2, <1>5
  <2>8. \A g : Search!FirstRank(g, v)
          = IF Search!FirstRank(g, t) <= Most THEN Search!FirstRank(g, t) ELSE 0
    BY <1>2, <1>3, FirstRankTop DEF v
  <2>9. Len(u) <= MaxRanking
    <3>1. PICK a, c, d : a = Len(v) /\ c = Len(t) /\ d = Len(s)
      OBVIOUS
    <3>2. a \in Nat /\ c \in Nat /\ d \in Nat /\ a = (IF Most < c THEN Most ELSE c) /\ c <= d /\ d <= MaxRanking
      BY <3>1, <2>3, <2>4, <1>1, <1>2
    <3>3. MaxRanking \in Nat /\ Most \in Nat
      BY <1>3 DEF Search!HybridAssumption
    <3>4. a <= MaxRanking
      BY <3>2, <3>3
    <3>5. QED
      BY <3>1, <3>4, <2>7
  <2>10. ASSUME NEW r \in DOMAIN u
         PROVE  r \in DOMAIN h /\ r \in DOMAIN t /\ h[r] = b[r] /\ h[r] \in Point /\ u[r] = Grouping[h[r]]
    BY <2>2, <1>2, <1>5, ElementOfSeq
  <2>11. QED
    BY <2>1, <2>3, <2>7, <2>8, <2>9, <2>10, <1>3 DEF u, h, t, b, s
<1>8. QED
  BY <1>6, <1>7

LEMMA GroupListsFuse ==
  ASSUME Search!HybridAssumption, Sought
  PROVE  Fusible(GroupLists, sought.weights, sought.k) /\ \A l \in 1 .. 2 : Len(GroupLists[l]) <= MaxRanking
BY SoughtFacts, GroupListFacts DEF Fusible

\* What a branch gives to a group whose hit it has, however far down.
Strength(g, l) ==
  IF sought.weights[l] <= 0 \/ Search!FirstRank(g, Ranking(sought.lists[l])) = 0 THEN -1
  ELSE sought.weights[l] * Search!Share(sought.k, Search!FirstRank(g, Ranking(sought.lists[l])))

\* A group that is returned has not been cut off where it would have weighed more: the
\* groups before the cut would all have come before it.
LEMMA NotCutOff ==
  ASSUME Search!HybridAssumption, Sought, NEW r,
         FusionOf(GroupLists, sought.weights, sought.k, r), Len(r) <= sought.limit,
         NEW i \in DOMAIN r, NEW l \in 1 .. 2, sought.weights[l] > 0,
         Search!FirstRank(r[i].key, Ranking(sought.lists[l])) > Most
  PROVE  Strength(r[i].key, l) < Total(GroupLists, sought.weights, sought.k, r[i].key)
<1> DEFINE t == Ranking(sought.lists[l])
           u == GroupLists[l]
           g == r[i].key
           Sum(x) == Total(GroupLists, sought.weights, sought.k, x)
           w == sought.weights[l]
           H(q) == Search!Share(sought.k, q)
<1>1. SUFFICES ASSUME ~(Strength(g, l) < Sum(g)) PROVE FALSE
  OBVIOUS
<1>2. r \in Seq(Results(GroupLists)) /\ Len(r) \in Nat /\ DOMAIN r = 1 .. Len(r)
  BY LenProperties DEF FusionOf
<1>3. /\ sought.limit \in Nat /\ sought.k \in Nat /\ w \in Nat /\ w > 0 /\ sought.lists[l] \in Seq(Point)
      /\ Len(sought.lists[l]) \in Nat /\ Len(sought.lists[l]) <= MaxRanking /\ MaxRanking \in Nat
  BY SoughtFacts DEF Search!HybridAssumption
<1>4. /\ t \in Seq(Int) /\ Len(t) <= MaxRanking /\ Len(t) \in Nat /\ DOMAIN t = 1 .. Len(t)
      /\ \A p, q \in DOMAIN t : t[p] = t[q] => p = q
  <2>1. /\ t \in Seq(Int) /\ Len(t) <= Len(sought.lists[l]) /\ Len(t) \in Nat /\ DOMAIN t = 1 .. Len(t)
        /\ \A p, q \in DOMAIN t : t[p] = t[q] => p = q
    BY <1>3, RankingFacts
  <2>2. \A a, b, c \in Nat : a <= b /\ b <= c => a <= c
    OBVIOUS
  <2>3. Len(t) <= MaxRanking
    BY <2>1, <2>2, <1>3
  <2>4. QED
    BY <2>1, <2>3
<1>5. Most \in Nat /\ sought.limit <= Most /\ \A x : Search!FirstRank(x, u)
        = IF w > 0 /\ Search!FirstRank(x, t) <= Most THEN Search!FirstRank(x, t) ELSE 0
  BY GroupListFacts
<1> HIDE DEF t
<1>6. PICK d \in Nat : d = Search!FirstRank(g, t) /\ d > Most /\ d <= Len(t)
  <2>1. Search!FirstRank(g, t) \in 0 .. Len(t)
    BY <1>4, FirstRankFacts
  <2>2. Search!FirstRank(g, t) > Most
    BY DEF t
  <2>3. QED
    BY <2>1, <2>2, <1>4
<1>7. Strength(g, l) = w * H(d) /\ H(d) \in Nat /\ d \in 1 .. MaxRanking
  <2>1. d # 0 /\ ~(w <= 0) /\ d \in 1 .. MaxRanking
    BY <1>3, <1>4, <1>5, <1>6
  <2>2. H(d) \in Nat
    BY <1>3, SharesFall
  <2>3. QED
    BY <2>1, <2>2, <1>6 DEF Strength, t
<1>8. Fusible(GroupLists, sought.weights, sought.k)
  BY GroupListsFuse
<1>9. \A x : \A m \in 1 .. 2 : Gain(GroupLists, sought.weights, sought.k, x, m) \in Nat
  BY <1>8, GainFacts
<1>10. \A x : Sum(x) \in Nat /\ Sum(x) >= Gain(GroupLists, sought.weights, sought.k, x, l)
  <2>1. ASSUME NEW x PROVE Sum(x) \in Nat /\ Sum(x) >= Gain(GroupLists, sought.weights, sought.k, x, l)
    <3>1. PICK a \in Nat, b \in Nat :
            /\ a = Gain(GroupLists, sought.weights, sought.k, x, 1)
            /\ b = Gain(GroupLists, sought.weights, sought.k, x, 2)
      <4>1. 1 \in 1 .. 2 /\ 2 \in 1 .. 2
        OBVIOUS
      <4>2. QED
        BY <4>1, <1>9
    <3>2. Sum(x) = a + b
      BY <3>1 DEF Total
    <3>3. l = 1 \/ l = 2
      OBVIOUS
    <3>4. QED
      BY <3>1, <3>2, <3>3
  <2>2. QED
    BY <2>1
<1>11. ASSUME NEW q \in 1 .. Most PROVE \E j \in 1 .. i - 1 : r[j].key = t[q]
  <2>1. q \in DOMAIN t /\ q < d /\ q \in 1 .. MaxRanking /\ q > 0
    BY <1>3, <1>4, <1>5, <1>6
  <2>2. Search!FirstRank(t[q], t) = q
    <3>1. \A p \in 1 .. q - 1 : t[p] # t[q]
      <4>1. ASSUME NEW p \in 1 .. q - 1, t[p] = t[q] PROVE FALSE
        <5>1. p \in DOMAIN t /\ p # q
          BY <2>1, <1>4
        <5>2. QED
          BY <5>1, <4>1, <2>1, <1>4
      <4>2. QED
        BY <4>1
    <3>2. QED
      BY <3>1, <2>1, <1>4, IsFirstRank
  <2>3. PICK x : x = t[q]
    OBVIOUS
  <2>4. Search!FirstRank(x, u) = q
    BY <2>2, <2>3, <1>3, <1>5
  <2>5. Gain(GroupLists, sought.weights, sought.k, x, l) = w * H(q)
    BY <2>1, <2>4 DEF Gain
  <2>6. H(q) > H(d) /\ H(q) \in Nat
    <3>1. /\ \A p \in Nat : H(p) \in Nat
          /\ \A p, c \in 1 .. MaxRanking : p < c => H(p) > H(c)
      BY <1>3, SharesFall
    <3>2. q \in Nat
      BY <2>1
    <3>3. QED
      BY <3>1, <3>2, <2>1, <1>7
  <2>7. w * H(q) > w * H(d) /\ w * H(q) \in Nat /\ w * H(d) \in Nat
    <3>1. \A a, c, e \in Nat : a > 0 /\ c > e => a * c > a * e /\ a * c \in Nat /\ a * e \in Nat
      OBVIOUS
    <3>2. QED
      BY <3>1, <2>6, <1>3, <1>7
  <2>8. Sum(x) >= w * H(q) /\ Sum(x) \in Nat /\ Sum(g) \in Nat
    BY <2>5, <1>10
  <2>9. w * H(d) >= Sum(g)
    <3>1. PICK a \in Nat, c \in Nat : a = w * H(d) /\ c = Sum(g)
      BY <2>7, <2>8
    <3>2. ~(a < c)
      BY <3>1, <1>1, <1>7
    <3>3. a >= c
      BY <3>2
    <3>4. QED
      BY <3>1, <3>3
  <2>10. Sum(x) > Sum(g)
    <3>1. PICK a \in Nat, b \in Nat, c \in Nat, e \in Nat : a = w * H(d) /\ b = w * H(q) /\ c = Sum(g) /\ e = Sum(x)
      BY <2>7, <2>8
    <3>2. e >= b /\ b > a /\ a >= c
      BY <3>1, <2>7, <2>8, <2>9
    <3>3. e > c
      BY <3>2
    <3>4. QED
      BY <3>1, <3>3
  <2>11. x \in KeysOf(GroupLists) /\ Counted(GroupLists, sought.weights, x, l) > 0
    <3>1. u \in Seq(Int)
      BY <1>8 DEF Fusible
    <3>2. Search!FirstRank(x, u) > 0
      BY <2>1, <2>4
    <3>3. \E p \in DOMAIN u : u[p] = x
      BY <3>1, <3>2, FirstRankFacts
    <3>4. x \in Search!Range(u)
      BY <3>3 DEF Search!Range
    <3>5. l = 1 \/ l = 2
      OBVIOUS
    <3>6. x \in KeysOf(GroupLists)
      BY <3>4, <3>5 DEF KeysOf
    <3>7. QED
      BY <3>2, <3>6, <1>3 DEF Counted
  <2>12. QED
    BY <2>3, <2>10, <2>11 DEF FusionOf
<1> DEFINE P(q) == CHOOSE j \in 1 .. i - 1 : r[j].key = t[q]
           F == [q \in 1 .. Most |-> P(q)]
<1>12. \A q \in 1 .. Most : P(q) \in 1 .. i - 1 /\ r[P(q)].key = t[q]
  BY <1>11
<1> HIDE DEF P
<1>13. F \in Injection(1 .. Most, 1 .. i - 1)
  <2>1. F \in [1 .. Most -> 1 .. i - 1]
    BY <1>12
  <2>2. ASSUME NEW p \in 1 .. Most, NEW q \in 1 .. Most, F[p] = F[q] PROVE p = q
    <3>1. t[p] = t[q]
      BY <2>2, <1>12
    <3>2. p \in DOMAIN t /\ q \in DOMAIN t
      BY <1>4, <1>5, <1>6
    <3>3. QED
      BY <3>1, <3>2, <1>4
  <2> HIDE DEF F
  <2>3. QED
    BY <2>1, <2>2 DEF Injection, IsInjective
<1>14. i \in Nat /\ i >= 1 /\ i <= Len(r)
  BY <1>2
<1>15. IsFiniteSet(1 .. i - 1) /\ Cardinality(1 .. i - 1) = i - 1 /\ Cardinality(1 .. Most) = Most
  <2>1. i - 1 \in Nat
    BY <1>14
  <2>2. \A m \in Nat : IsFiniteSet(1 .. m) /\ Cardinality(1 .. m) = m
    <3>1. \A a, b \in Int : IsFiniteSet(a .. b) /\ Cardinality(a .. b) = IF a > b THEN 0 ELSE b - a + 1
      BY FS_Interval
    <3>2. ASSUME NEW m \in Nat PROVE IsFiniteSet(1 .. m) /\ Cardinality(1 .. m) = m
      <4>1. (IF 1 > m THEN 0 ELSE m - 1 + 1) = m /\ 1 \in Int /\ m \in Int
        OBVIOUS
      <4>2. QED
        BY <4>1, <3>1
    <3>3. QED
      BY <3>2
  <2>3. QED
    BY <2>1, <2>2, <1>5
<1> HIDE DEF F
<1>16. Cardinality(1 .. Most) <= Cardinality(1 .. i - 1)
  BY <1>13, <1>15, FS_Injection
<1>17. Most <= i - 1
  BY <1>15, <1>16
<1>18. QED
  <2>1. PICK n \in Nat, m \in Nat : n = Len(r) /\ m = sought.limit
    BY <1>2, <1>3
  <2>2. n <= m /\ i <= n /\ m <= Most
    BY <2>1, <1>5, <1>14
  <2>3. QED
    BY <2>2, <1>5, <1>14, <1>17

\* What a branch gives to a result that has a rank in it.
BranchGain(ranks, weights, k, l) == weights[l] * Search!Share(k, ranks[l])

LEMMA BranchFacts ==
  ASSUME NEW ranks, NEW weights, NEW k,
         \A l \in 1 .. 2 : BranchGain(ranks, weights, k, l) \in Nat /\ ranks[l] \in Nat,
         \E l \in 1 .. 2 : ranks[l] > 0
  PROVE  LET l == Search!Branch(ranks, weights, k)
         IN /\ l \in 1 .. 2 /\ ranks[l] > 0
            /\ \A m \in 1 .. 2 : \/ ranks[m] = 0
                                 \/ BranchGain(ranks, weights, k, l) > BranchGain(ranks, weights, k, m)
                                 \/ /\ BranchGain(ranks, weights, k, l) = BranchGain(ranks, weights, k, m)
                                    /\ l <= m
<1> DEFINE W(l) == BranchGain(ranks, weights, k, l)
           Leads2(l, m) == ranks[m] = 0 \/ W(l) > W(m) \/ (W(l) = W(m) /\ l <= m)
           Best(l) == ranks[l] > 0 /\ \A m \in 1 .. 2 : Leads2(l, m)
<1>1. 1 \in 1 .. 2 /\ 2 \in 1 .. 2 /\ \A l \in 1 .. 2 : l = 1 \/ l = 2
  OBVIOUS
<1>2. PICK a \in Nat, b \in Nat, p \in Nat, q \in Nat :
        a = W(1) /\ b = W(2) /\ p = ranks[1] /\ q = ranks[2]
  BY <1>1
<1> HIDE DEF W
<1>3. \E l \in 1 .. 2 : Best(l)
  <2>1. p > 0 \/ q > 0
    BY <1>1, <1>2
  <2>2. CASE p > 0 /\ (q = 0 \/ a >= b)
    <3>1. Leads2(1, 1) /\ Leads2(1, 2)
      BY <2>2, <1>2
    <3>2. QED
      BY <3>1, <2>2, <1>1, <1>2
  <2>3. CASE q > 0 /\ (p = 0 \/ b > a)
    <3>1. Leads2(2, 1) /\ Leads2(2, 2)
      BY <2>3, <1>2
    <3>2. QED
      BY <3>1, <2>3, <1>1, <1>2
  <2>4. p = 0 \/ p > 0
    OBVIOUS
  <2>5. q = 0 \/ q > 0
    OBVIOUS
  <2>6. a >= b \/ b > a
    OBVIOUS
  <2>7. QED
    BY <2>1, <2>2, <2>3, <2>4, <2>5, <2>6
<1> DEFINE c == CHOOSE l \in 1 .. 2 : Best(l)
<1>4. c \in 1 .. 2 /\ Best(c)
  <2> HIDE DEF Best
  <2>1. QED
    BY <1>3
<1>5. Search!Branch(ranks, weights, k) = c
  BY Zenon DEF Search!Branch, W, BranchGain
<1> HIDE DEF c
<1>6. QED
  BY <1>4, <1>5, Zenon DEF W

\* The rank of the group of a point is its rank in the ranking of the groups.
LEMMA GroupRankIs ==
  ASSUME Search!HybridAssumption, Sought, NEW l \in 1 .. 2, NEW x \in Point
  PROVE  /\ Search!GroupRank(x, l) = Search!FirstRank(Grouping[x], Ranking(sought.lists[l]))
         /\ Search!GroupRank(x, l) \in Nat
<1> DEFINE s == sought.lists[l]
           M == MembersOf(s, x)
           first == Search!Min(M)
           C == Cardinality(GroupsOf(s, first - 1))
<1>1. s \in Seq(Point) /\ DOMAIN s = 1 .. Len(s) /\ Len(s) \in Nat
  BY SoughtFacts
<1>2. Search!GroupRank(x, l) = IF M = {} THEN 0 ELSE 1 + C
  BY Zenon DEF Search!GroupRank, MembersOf, GroupsOf, Search!Cardinality, Cardinality
<1> HIDE DEF s
<1>3. Search!FirstRank(Grouping[x], Ranking(s)) = IF M = {} THEN 0 ELSE C + 1
  BY <1>1, MemberFacts
<1>4. ASSUME M # {} PROVE first - 1 \in Nat
  <2>1. M \subseteq Nat /\ \A q \in M : q >= 1
    BY <1>1 DEF MembersOf
  <2>2. PICK z \in M : \A y \in M : z <= y
    BY <2>1, <1>4, LeastElement
  <2> HIDE DEF M
  <2>3. (CHOOSE u \in M : \A y \in M : u <= y) \in M
    BY <2>2
  <2>4. first \in M
    BY <2>3 DEF Search!Min
  <2> HIDE DEF first
  <2>5. QED
    BY <2>1, <2>4
<1>5. ASSUME M # {} PROVE C \in Nat
  BY <1>4, <1>5, GroupsGrow
<1> HIDE DEF C, M
<1>6. QED
  BY <1>2, <1>3, <1>5 DEF s

\* The branch that shows the group of a result, and the hit that it shows.
ShownIn(e) == Search!Branch(e.ranks, sought.weights, sought.k)
Shown(e) == HitLists[ShownIn(e)][e.ranks[ShownIn(e)]]
Heavier(l, g) ==
  \A m \in 1 .. 2 : Strength(g, l) > Strength(g, m) \/ (Strength(g, l) = Strength(g, m) /\ l <= m)

\* No branch gives the group of a result more than the one that shows it, those
\* included whose hit of the group was cut off.
LEMMA ShownByTheStrongest ==
  ASSUME Search!HybridAssumption, Sought, NEW r,
         FusionOf(GroupLists, sought.weights, sought.k, r), Len(r) <= sought.limit,
         NEW i \in DOMAIN r
  PROVE  LET l == ShownIn(r[i]) IN
         /\ l \in 1 .. 2 /\ r[i].ranks[l] > 0 /\ sought.weights[l] > 0 /\ Heavier(l, r[i].key)
         /\ r[i].ranks[l] = Search!FirstRank(r[i].key, GroupLists[l])
         /\ r[i].ranks[l] = Search!FirstRank(r[i].key, Ranking(sought.lists[l]))
         /\ \A m \in 1 .. 2 : Strength(r[i].key, m) \in Int
<1> DEFINE g == r[i].key
           ranks == r[i].ranks
           w == sought.weights
           k == sought.k
           F(m) == Search!FirstRank(g, Ranking(sought.lists[m]))
           B(m) == BranchGain(ranks, w, k, m)
           G(m) == Gain(GroupLists, w, k, g, m)
           l == ShownIn(r[i])
<1>1. \A m \in 1 .. 2 : ranks[m] = Counted(GroupLists, w, g, m)
  BY DEF FusionOf
<1>2. \E m \in 1 .. 2 : ranks[m] > 0
  BY <1>1 DEF FusionOf
<1>3. /\ \A m \in 1 .. 2 : w[m] \in Nat /\ sought.lists[m] \in Seq(Point)
      /\ k \in Nat /\ sought.limit \in Nat
  BY SoughtFacts
<1>4. Most \in Nat /\ \A m \in 1 .. 2 : Search!FirstRank(g, GroupLists[m])
        = IF w[m] > 0 /\ F(m) <= Most THEN F(m) ELSE 0
  <2>1. 1 \in 1 .. 2
    OBVIOUS
  <2>2. Most \in Nat
    BY <2>1, GroupListFacts
  <2>3. ASSUME NEW m \in 1 .. 2
        PROVE  Search!FirstRank(g, GroupLists[m]) = IF w[m] > 0 /\ F(m) <= Most THEN F(m) ELSE 0
    BY GroupListFacts
  <2>4. QED
    BY <2>2, <2>3
<1>5. Fusible(GroupLists, w, k)
  BY GroupListsFuse
<1>6. \A m \in 1 .. 2 : G(m) \in Nat /\ Search!FirstRank(g, GroupLists[m]) \in Nat
  BY <1>5, GainFacts
<1>7. ASSUME NEW m \in 1 .. 2 PROVE F(m) \in Nat /\ Search!Share(k, F(m)) \in Nat
  <2>1. Ranking(sought.lists[m]) \in Seq(Int)
    BY <1>3, RankingFacts
  <2>2. F(m) \in 0 .. Len(Ranking(sought.lists[m])) /\ Len(Ranking(sought.lists[m])) \in Nat
    BY <2>1, FirstRankFacts, LenProperties
  <2>3. F(m) \in Nat
    BY <2>2
  <2>4. QED
    BY <2>3, <1>3, SharesFall
<1>8. g = r[i].key
  OBVIOUS
<1> HIDE DEF g, ranks, w, k, F
<1>9. ASSUME NEW m \in 1 .. 2
      PROVE  /\ ranks[m] \in Nat /\ B(m) \in Nat /\ Strength(g, m) \in Int
             /\ ranks[m] > 0 => /\ w[m] > 0 /\ ranks[m] = F(m) /\ Strength(g, m) = B(m) /\ G(m) = B(m)
                                /\ ranks[m] = Search!FirstRank(g, GroupLists[m])
             /\ ranks[m] = 0 => /\ G(m) = 0
                                /\ Strength(g, m) = -1 \/ (w[m] > 0 /\ F(m) > Most)
  <2>1. PICK a, b, p, c, d : /\ a = w[m] /\ b = F(m) /\ p = ranks[m]
                          /\ c = Search!FirstRank(g, GroupLists[m]) /\ d = Search!Share(k, b)
    OBVIOUS
  <2>2. /\ a \in Nat /\ b \in Nat /\ Most \in Nat /\ d \in Nat
        /\ p = (IF a = 0 THEN 0 ELSE c) /\ c = (IF a > 0 /\ b <= Most THEN b ELSE 0)
    BY <2>1, <1>1, <1>3, <1>4, <1>7 DEF Counted
  <2>3. Strength(g, m) = IF a <= 0 \/ b = 0 THEN -1 ELSE a * d
    BY <2>1 DEF Strength, F, w, k
  <2>4. G(m) = IF c = 0 THEN 0 ELSE a * Search!Share(k, c)
    BY <2>1 DEF Gain
  <2>5. B(m) = a * Search!Share(k, p)
    BY <2>1 DEF BranchGain
  <2>6. p \in Nat /\ c \in Nat
    BY <2>2
  <2>7. Search!Share(k, p) \in Nat
    BY <2>6, <1>3, SharesFall
  <2>8. \A x, y \in Nat : x * y \in Nat
    OBVIOUS
  <2>9. a * d \in Nat /\ B(m) \in Nat
    BY <2>2, <2>5, <2>7, <2>8
  <2>10. Strength(g, m) \in Int
    BY <2>3, <2>9
  <2>11. ASSUME p > 0 PROVE a > 0 /\ p = b /\ c = p /\ b # 0
    BY <2>2, <2>11
  <2>12. ASSUME p > 0 PROVE Strength(g, m) = B(m) /\ G(m) = B(m)
    <3>1. ~(a <= 0 \/ b = 0) /\ c # 0 /\ p = b /\ c = p
      BY <2>2, <2>11, <2>12
    <3>2. QED
      BY <3>1, <2>1, <2>3, <2>4, <2>5
  <2>13. ASSUME p = 0 PROVE G(m) = 0 /\ (Strength(g, m) = -1 \/ (a > 0 /\ b > Most))
    <3>1. CASE a = 0
      <4>1. c = 0 /\ a <= 0
        BY <3>1, <2>2
      <4>2. QED
        BY <4>1, <2>3, <2>4
    <3>2. CASE a # 0
      <4>1. c = 0 /\ a > 0 /\ (b = 0 \/ b > Most)
        BY <3>2, <2>2, <2>13
      <4>2. QED
        BY <4>1, <2>3, <2>4
    <3>3. QED
      BY <3>1, <3>2
  <2>14. QED
    BY <2>1, <2>6, <2>9, <2>10, <2>11, <2>12, <2>13
<1>10. /\ l \in 1 .. 2 /\ ranks[l] > 0
       /\ \A m \in 1 .. 2 : ranks[m] = 0 \/ B(l) > B(m) \/ (B(l) = B(m) /\ l <= m)
  <2>1. l = Search!Branch(ranks, w, k)
    BY DEF ShownIn, ranks, w, k
  <2>2. \A m \in 1 .. 2 : BranchGain(ranks, w, k, m) \in Nat /\ ranks[m] \in Nat
    BY <1>9
  <2>3. LET c == Search!Branch(ranks, w, k)
        IN /\ c \in 1 .. 2 /\ ranks[c] > 0
           /\ \A m \in 1 .. 2 : \/ ranks[m] = 0
                                \/ BranchGain(ranks, w, k, c) > BranchGain(ranks, w, k, m)
                                \/ /\ BranchGain(ranks, w, k, c) = BranchGain(ranks, w, k, m)
                                   /\ c <= m
    BY <2>2, <1>2, BranchFacts
  <2> HIDE DEF l
  <2>4. QED
    BY <2>1, <2>3
<1> HIDE DEF l, B, G
<1>11. w[l] > 0 /\ Strength(g, l) = B(l) /\ B(l) \in Nat /\ G(l) = B(l) /\ ranks[l] = F(l)
       /\ ranks[l] = Search!FirstRank(g, GroupLists[l])
  BY <1>9, <1>10
<1>12. ASSUME NEW m \in 1 .. 2
       PROVE  Strength(g, l) > Strength(g, m) \/ (Strength(g, l) = Strength(g, m) /\ l <= m)
  <2>1. CASE ranks[m] > 0
    <3>1. Strength(g, m) = B(m) /\ ranks[m] # 0
      BY <2>1, <1>9
    <3>2. QED
      BY <3>1, <1>10, <1>11
  <2>2. CASE ranks[m] = 0 /\ Strength(g, m) = -1
    BY <2>2, <1>11
  <2>3. CASE ranks[m] = 0 /\ w[m] > 0 /\ F(m) > Most
    <3>1. Strength(g, m) < Total(GroupLists, w, k, g)
      BY <2>3, NotCutOff DEF g, w, k, F
    <3>2. m # l /\ G(m) = 0
      BY <2>3, <1>9, <1>10
    <3>3. PICK a \in Nat, b \in Nat : a = G(1) /\ b = G(2)
      <4>1. 1 \in 1 .. 2 /\ 2 \in 1 .. 2
        OBVIOUS
      <4>2. QED
        BY <4>1, <1>6 DEF G
    <3>4. Total(GroupLists, w, k, g) = a + b
      BY <3>3 DEF Total, G
    <3>5. (l = 1 /\ m = 2) \/ (l = 2 /\ m = 1)
      BY <3>2, <1>10
    <3>6. a + b = B(l)
      BY <3>2, <3>3, <3>5, <1>11
    <3>7. QED
      BY <3>1, <3>4, <3>6, <1>11
  <2>4. QED
    BY <2>1, <2>2, <2>3, <1>9
<1>13. QED
  BY <1>9, <1>10, <1>11, <1>12 DEF l, g, ranks, w, F, Heavier

\* The hit that shows a group is a point of it, and the first of it in the branch.
LEMMA ShownLeads ==
  ASSUME Search!HybridAssumption, Sought, NEW r,
         FusionOf(GroupLists, sought.weights, sought.k, r), Len(r) <= sought.limit,
         NEW i \in DOMAIN r
  PROVE  LET x == Shown(r[i])
             l == ShownIn(r[i])
         IN /\ x \in Point /\ Grouping[x] = r[i].key /\ l \in 1 .. 2 /\ Heavier(l, r[i].key)
            /\ \A m \in 1 .. 2 : Strength(r[i].key, m) \in Int
            /\ Search!FirstRank(x, sought.lists[l]) = Search!Min(MembersOf(sought.lists[l], x))
<1> DEFINE g == r[i].key
           l == ShownIn(r[i])
           x == Shown(r[i])
           u == GroupLists[l]
           s == sought.lists[l]
<1>1. /\ l \in 1 .. 2 /\ r[i].ranks[l] > 0 /\ Heavier(l, g)
      /\ r[i].ranks[l] = Search!FirstRank(g, u) /\ r[i].ranks[l] = Search!FirstRank(g, Ranking(s))
      /\ \A m \in 1 .. 2 : Strength(g, m) \in Int
  BY ShownByTheStrongest
<1>2. PICK p : p = r[i].ranks[l]
  OBVIOUS
<1>3. x = HitLists[l][p]
  BY <1>2 DEF Shown
<1> HIDE DEF l, x, g
<1>4. /\ u \in Seq(Int) /\ s \in Seq(Point)
      /\ \A q \in DOMAIN u : /\ HitLists[l][q] = Search!BestOfGroups(s)[q] /\ HitLists[l][q] \in Point
                             /\ u[q] = Grouping[HitLists[l][q]]
  BY <1>1, GroupListFacts, SoughtFacts
<1> HIDE DEF u, s
<1>5. p \in 0 .. Len(u) /\ u[p] = g /\ p > 0 /\ Len(u) \in Nat /\ DOMAIN u = 1 .. Len(u)
  <2>1. p = Search!FirstRank(g, u) /\ p > 0
    BY <1>1, <1>2 DEF u
  <2>2. /\ Search!FirstRank(g, u) \in 0 .. Len(u)
        /\ Search!FirstRank(g, u) > 0 => u[Search!FirstRank(g, u)] = g
    BY <1>4, FirstRankFacts
  <2>3. Len(u) \in Nat /\ DOMAIN u = 1 .. Len(u)
    BY <1>4, LenProperties
  <2>4. QED
    BY <2>1, <2>2, <2>3
<1>6. p \in DOMAIN u
  BY <1>5
<1>7. x \in Point /\ Grouping[x] = g /\ x = Search!BestOfGroups(s)[p]
  BY <1>3, <1>4, <1>5, <1>6
<1>8. p = Search!FirstRank(Grouping[x], Ranking(s))
  BY <1>1, <1>2, <1>7
<1>9. Search!FirstRank(x, s) = Search!Min(MembersOf(s, x))
  <2> DEFINE first == Search!Min(MembersOf(s, x))
             rank == IF MembersOf(s, x) = {} THEN 0 ELSE Cardinality(GroupsOf(s, first - 1)) + 1
  <2>1. /\ Search!FirstRank(Grouping[x], Ranking(s)) = rank
        /\ rank > 0 => Search!FirstRank(Search!BestOfGroups(s)[rank], s) = first
    BY <1>4, <1>7, MemberFacts
  <2> HIDE DEF rank
  <2>2. QED
    BY <2>1, <1>5, <1>7, <1>8
<1>10. QED
  BY <1>1, <1>7, <1>9 DEF l, x, g, s

LEMMA StepSearchGrouped ==
  ASSUME Search!HybridAssumption, Sought, Search!SearchGrouped
  PROVE  FusionIsFair'
<1> DEFINE Named(t) == [i \in DOMAIN t |-> [t[i] EXCEPT !.key = Shown(t[i])]]
<1>1. PICK f \in Search!Fusion(GroupLists, sought.weights, sought.k, sought.limit) :
        found' = Named(Search!Top(f, sought.limit)) /\ sought' = sought
  BY DEF Search!SearchGrouped, Search!Return, GroupLists, HitLists, Shown, ShownIn
<1>2. sought.kind = "grouped" /\ sought.limit \in Nat
  BY SoughtFacts DEF Search!SearchGrouped, Search!Called
<1>3. Fusible(GroupLists, sought.weights, sought.k)
  BY GroupListsFuse
<1> DEFINE t == Search!Top(f, sought.limit)
<1>4. FusionOf(GroupLists, sought.weights, sought.k, t) /\ Len(t) <= sought.limit
  BY <1>1, <1>2, <1>3, FusionFacts, TopOfFusion
<1> HIDE DEF t
<1> DEFINE r == Named(t)
<1>5. /\ t \in Seq(Results(GroupLists)) /\ DOMAIN t = 1 .. Len(t) /\ Len(t) \in Nat
      /\ \A i, j \in DOMAIN t : t[i].key = t[j].key => i = j
      /\ \A i \in DOMAIN t : t[i] \in Results(GroupLists)
  BY <1>4, LenProperties, ElementOfSeq DEF FusionOf
<1>6. DOMAIN r = DOMAIN t /\ Len(r) = Len(t)
      /\ \A i \in DOMAIN t : r[i].key = Shown(t[i]) /\ r[i].score = t[i].score /\ r[i].score \in Nat
  <2>1. ASSUME NEW i \in DOMAIN t
        PROVE  r[i].key = Shown(t[i]) /\ r[i].score = t[i].score /\ r[i].score \in Nat
    <3>1. r[i] = [t[i] EXCEPT !.key = Shown(t[i])] /\ t[i] \in Results(GroupLists)
      BY <1>5
    <3>2. QED
      BY <3>1 DEF Results
  <2>2. r \in Seq({r[i] : i \in DOMAIN t})
    BY <1>5, SeqDef
  <2>3. DOMAIN r = DOMAIN t
    OBVIOUS
  <2> HIDE DEF r
  <2>4. Len(r) = Len(t)
    BY <2>2, <2>3, <1>5, LenProperties
  <2>5. QED
    BY <2>1, <2>3, <2>4
<1> HIDE DEF r
<1>7. ASSUME NEW i \in DOMAIN t
      PROVE  /\ r[i].key \in Point /\ Grouping[r[i].key] = t[i].key
             /\ ShownIn(t[i]) \in 1 .. 2 /\ Heavier(ShownIn(t[i]), t[i].key)
             /\ \A m \in 1 .. 2 : Strength(t[i].key, m) \in Int
             /\ Search!FirstRank(r[i].key, sought.lists[ShownIn(t[i])])
                  = Search!Min(MembersOf(sought.lists[ShownIn(t[i])], r[i].key))
  BY <1>4, <1>6, ShownLeads
<1>8. \A i, j \in DOMAIN t : Grouping[r[i].key] = Grouping[r[j].key] => i = j
  BY <1>5, <1>7
<1>9. TypedResult(r)
  <2>1. Len(r) <= Search!Max({sought.limit, 1})
    <3>1. PICK m \in Nat, n \in Nat : m = Len(t) /\ n = sought.limit
      BY <1>2, <1>5
    <3>2. Search!Max({n, 1}) = IF n >= 1 THEN n ELSE 1
      BY LargerOfTwo
    <3>3. m <= n
      BY <3>1, <1>4
    <3>4. m <= IF n >= 1 THEN n ELSE 1
      BY <3>3
    <3>5. QED
      BY <3>1, <3>2, <3>4, <1>6
  <2>2. \A i, j \in DOMAIN r : r[i].key = r[j].key => i = j
    BY <1>6, <1>8
  <2>3. \A i \in DOMAIN r : r[i].key \in Point /\ r[i].score \in Int
    BY <1>6, <1>7
  <2>4. QED
    BY <2>1, <2>2, <2>3 DEF TypedResult
<1>10. StrongestResult(r)
  <2>1. SUFFICES ASSUME NEW i \in DOMAIN r
        PROVE  LET x == r[i].key
                   Weighs(l) == IF sought.weights[l] <= 0 \/ Search!GroupRank(x, l) = 0 THEN -1
                                ELSE sought.weights[l] * Search!Share(sought.k, Search!GroupRank(x, l))
                   l == IF Weighs(1) >= Weighs(2) THEN 1 ELSE 2
               IN /\ Search!FirstRank(x, sought.lists[l]) = Search!Min(MembersOf(sought.lists[l], x))
                  /\ \A j \in DOMAIN r : Grouping[r[j].key] = Grouping[x] => i = j
    BY Zenon DEF StrongestResult, MembersOf
  <2> DEFINE x == r[i].key
             Weighs(l) == IF sought.weights[l] <= 0 \/ Search!GroupRank(x, l) = 0 THEN -1
                          ELSE sought.weights[l] * Search!Share(sought.k, Search!GroupRank(x, l))
             l == IF Weighs(1) >= Weighs(2) THEN 1 ELSE 2
             c == ShownIn(t[i])
             g == t[i].key
  <2>2. i \in DOMAIN t /\ x \in Point /\ Grouping[x] = g
    BY <1>6, <1>7
  <2>3. \A m \in 1 .. 2 : Weighs(m) = Strength(g, m)
    <3>1. ASSUME NEW m \in 1 .. 2 PROVE Weighs(m) = Strength(g, m)
      <4>1. Search!GroupRank(x, m) = Search!FirstRank(g, Ranking(sought.lists[m]))
        BY <2>2, GroupRankIs
      <4>2. QED
        BY <4>1 DEF Strength
    <3>2. QED
      BY <3>1
  <2>4. c \in 1 .. 2 /\ \A m \in 1 .. 2 : Strength(g, m) \in Int
    BY <2>2, <1>7
  <2>5. Heavier(c, g)
    BY <2>2, <1>7
  <2>6. Search!FirstRank(x, sought.lists[c]) = Search!Min(MembersOf(sought.lists[c], x))
    BY <2>2, <1>7
  <2>7. \A j \in DOMAIN r : Grouping[r[j].key] = Grouping[x] => i = j
    BY <2>2, <1>6, <1>8
  <2> HIDE DEF x, c, g, Weighs
  <2>8. l = c
    <3>1. 1 \in 1 .. 2 /\ 2 \in 1 .. 2 /\ (c = 1 \/ c = 2)
      BY <2>4
    <3>2. PICK a \in Int, b \in Int : a = Strength(g, 1) /\ b = Strength(g, 2)
      BY <3>1, <2>4
    <3>3. Weighs(1) = a /\ Weighs(2) = b
      BY <3>1, <3>2, <2>3
    <3>4. CASE c = 1
      <4>1. a > b \/ a = b
        BY <3>1, <3>2, <3>4, <2>5 DEF Heavier
      <4>2. QED
        BY <4>1, <3>3, <3>4
    <3>5. CASE c = 2
      <4>1. b > a \/ (b = a /\ 2 <= 1)
        BY <3>1, <3>2, <3>5, <2>5 DEF Heavier
      <4>2. ~(a >= b)
        BY <4>1
      <4>3. QED
        BY <4>2, <3>3, <3>5
    <3>6. QED
      BY <3>1, <3>4, <3>5
  <2> HIDE DEF l
  <2>9. Search!FirstRank(x, sought.lists[l]) = Search!Min(MembersOf(sought.lists[l], x))
    BY <2>6, <2>8
  <2>10. QED
    BY <2>7, <2>9, Zenon DEF l, x, Weighs
<1>11. found' = r
  BY <1>1 DEF r, t
<1>12. ~(sought.kind \in {"fuse", "results"} \/ Search!FusedHere)
  BY <1>2 DEF Search!FusedHere
<1>13. QED
  BY <1>2, <1>9, <1>10, <1>11, <1>12, <1>1, FairReturn

LEMMA StepSearch ==
  ASSUME Search!HybridAssumption, Sought, FusionIsFair, [Search!Next]_Search!vars
  PROVE  Sought' /\ FusionIsFair'
<1>1. CASE Search!Fuse
  <2>1. sought' = sought
    BY <1>1 DEF Search!Fuse, Search!Return
  <2>2. QED
    BY <1>1, <2>1, StepFuse DEF Sought, Search!Distinct, Search!Rankings
<1>2. CASE Search!SearchOne
  <2>1. sought' = sought
    BY <1>2 DEF Search!SearchOne, Search!Return
  <2>2. QED
    BY <1>2, <2>1, StepSearchOne DEF Sought, Search!Distinct, Search!Rankings
<1>3. CASE Search!SearchEqual
  <2>1. sought' = sought
    BY <1>3 DEF Search!SearchEqual, Search!Return
  <2>2. QED
    BY <1>3, <2>1, StepSearchEqual DEF Sought, Search!Distinct, Search!Rankings
<1>4. CASE Search!SearchWeighted
  <2>1. sought' = sought
    BY <1>4 DEF Search!SearchWeighted, Search!Return
  <2>2. QED
    BY <1>4, <2>1, StepSearchWeighted DEF Sought, Search!Distinct, Search!Rankings
<1>5. CASE Search!SearchGrouped
  <2>1. sought' = sought
    BY <1>5 DEF Search!SearchGrouped, Search!Return
  <2>2. QED
    BY <1>5, <2>1, StepSearchGrouped DEF Sought, Search!Distinct, Search!Rankings
<1>6. CASE Search!FuseResults
  <2>1. sought' = sought
    BY <1>6 DEF Search!FuseResults, Search!Return
  <2>2. QED
    BY <1>6, <2>1, StepFuseResults DEF Sought, Search!Distinct, Search!Rankings
<1>7. CASE UNCHANGED Search!vars
  <2>1. sought' = sought /\ found' = found
    BY <1>7 DEF Search!vars
  <2>2. Sought'
    BY <2>1 DEF Sought, Search!Distinct, Search!Rankings
  <2>3. CASE found = NoResult
    <3>1. found' = NoResult
      BY <2>1, <2>3
    <3>2. Search!TypeOK' /\ Search!AheadComesFirst'
      BY <3>1 DEF Search!TypeOK, Search!AheadComesFirst
    <3>3. Search!ScoresFollowTheFormula' /\ Search!StrongestHit'
      BY <3>1 DEF Search!ScoresFollowTheFormula, Search!StrongestHit
    <3>4. QED
      BY <3>2, <3>3, <2>2 DEF FusionIsFair
  <2>4. CASE found # NoResult
    <3> DEFINE r == found
    <3>1. TypedResult(r)
      <4>1. \A i \in DOMAIN found : found[i] \in Search!Range(found)
        BY DEF Search!Range
      <4>2. QED
        BY <4>1, <2>4 DEF FusionIsFair, Search!TypeOK, TypedResult
    <3>2. sought.kind # "grouped" => OrderedResult(r)
      BY <2>4 DEF FusionIsFair, Search!AheadComesFirst, OrderedResult
    <3>3. sought.kind \in {"fuse", "results"} \/ Search!FusedHere => ScoredResult(r)
      BY <2>4 DEF FusionIsFair, Search!ScoresFollowTheFormula, ScoredResult
    <3>4. sought.kind = "grouped" => StrongestResult(r)
      BY <2>4 DEF FusionIsFair, Search!StrongestHit, StrongestResult
    <3>5. found' = r /\ sought' = sought
      BY <2>1
    <3> HIDE DEF r
    <3>6. QED
      BY <3>5, <3>1, <3>2, <3>3, <3>4, <2>2, FairReturn
  <2>5. QED
    BY <2>2, <2>3, <2>4
<1>8. QED
  BY <1>1, <1>2, <1>3, <1>4, <1>5, <1>6, <1>7 DEF Search!Next

(* For every two rankings and all weights and limits, whichever path a     *)
(* search takes: a point ahead of another in every ranking comes before    *)
(* it, scores follow the formula, and a group is shown by its hit in the   *)
(* branch that weighs most, one whose hit was cut off included.            *)
THEOREM FusionSafety ==
  ASSUME Search!HybridAssumption
  PROVE  Search!Spec => []FusionIsFair
<1>1. Search!Init => Sought /\ FusionIsFair
  <2>1. SUFFICES ASSUME Search!Init PROVE Sought /\ FusionIsFair
    OBVIOUS
  <2>2. Sought
    BY <2>1 DEF Search!Init, Sought
  <2>3. found = NoResult
    BY <2>1 DEF Search!Init
  <2>4. FusionIsFair
    BY <2>3 DEF FusionIsFair, Search!TypeOK, Search!AheadComesFirst, Search!ScoresFollowTheFormula,
                Search!StrongestHit
  <2>5. QED
    BY <2>2, <2>4
<1>2. Sought /\ FusionIsFair /\ [Search!Next]_Search!vars => Sought' /\ FusionIsFair'
  BY StepSearch
<1>3. QED
  BY <1>1, <1>2, PTL DEF Search!Spec
=============================================================================
