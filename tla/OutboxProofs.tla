---------------------------- MODULE OutboxProofs ----------------------------
(***************************************************************************)
(* Proofs about Outbox, for any number of events and publishers.           *)
(*                                                                         *)
(* IndInv follows an event from the statement that stamps its id to the    *)
(* topic: a row is stamped, publishers handle rows only, every message     *)
(* carries its row's id, and an accepted write is in the topic before the  *)
(* row is marked.                                                          *)
(***************************************************************************)
EXTENDS Outbox, TLAPS

\* Every statement and every Kafka write keeps the types.
LEMMA TypeStep ==
  ASSUME TypeOK, [Next]_vars
  PROVE  TypeOK'
<1> USE OutboxAssumption DEF TypeOK, table, workers
<1>1. ASSUME NEW e \in Events, Commit(e) PROVE TypeOK'
  BY <1>1 DEF Commit
<1>2. ASSUME NEW e \in Events, Enqueue(e) PROVE TypeOK'
  BY <1>2 DEF Enqueue
<1>3. ASSUME NEW e \in Events, PublishFails(e) PROVE TypeOK'
  BY <1>3 DEF PublishFails
<1>4. ASSUME NEW e \in Events, PublishDirect(e) PROVE TypeOK'
  BY <1>4 DEF PublishDirect
<1>5. ASSUME NEW e \in Events, Elapse(e) PROVE TypeOK'
  BY <1>5 DEF Elapse
<1>6. ASSUME NEW p \in Publishers, Claim(p) PROVE TypeOK'
  BY <1>6 DEF Claim, IsBatch, DueRows
<1>7. ASSUME NEW p \in Publishers, ClaimLost(p) PROVE TypeOK'
  BY <1>7 DEF ClaimLost, IsBatch, DueRows
<1>8. ASSUME NEW p \in Publishers, MarkDispatched(p) PROVE TypeOK'
  BY <1>8 DEF MarkDispatched
<1>9. ASSUME NEW p \in Publishers, MarkFailed(p) PROVE TypeOK'
  BY <1>9 DEF MarkFailed
<1>10. ASSUME NEW p \in Publishers, MarkLost(p) PROVE TypeOK'
  BY <1>10 DEF MarkLost
<1>11. ASSUME NEW p \in Publishers, Crash(p) PROVE TypeOK'
  BY <1>11 DEF Crash
<1>12. ASSUME NEW p \in Publishers, NEW e \in Events, DispatchOk(p, e) PROVE TypeOK'
  BY <1>12 DEF DispatchOk, Dispatch, Written, EventIds
<1>13. ASSUME NEW p \in Publishers, NEW e \in Events, DispatchFails(p, e) PROVE TypeOK'
  BY <1>13 DEF DispatchFails, Dispatch, Written, EventIds
<1>14. CASE UNCHANGED vars
  BY <1>14 DEF vars
<1> HIDE DEF TypeOK, table, workers
<1>. QED
  BY <1>1, <1>2, <1>3, <1>4, <1>5, <1>6, <1>7,
     <1>8, <1>9, <1>10, <1>11, <1>12, <1>13, <1>14
  DEF Next, Publish, Drain

\* A row gets its event id in the INSERT and keeps it.
LEMMA RowsStampedStep ==
  ASSUME TypeOK, RowsStamped, WorkIsRows, [Next]_vars
  PROVE  RowsStamped'
<1> USE OutboxAssumption DEF TypeOK, RowsStamped, WorkIsRows, Rows, table, workers
<1>1. ASSUME NEW e \in Events, Commit(e) PROVE RowsStamped'
  BY <1>1 DEF Commit
<1>2. ASSUME NEW e \in Events, Enqueue(e) PROVE RowsStamped'
  BY <1>2 DEF Enqueue
<1>3. ASSUME NEW e \in Events, PublishFails(e) PROVE RowsStamped'
  BY <1>3 DEF PublishFails
<1>4. ASSUME NEW e \in Events, PublishDirect(e) PROVE RowsStamped'
  BY <1>4 DEF PublishDirect
<1>5. ASSUME NEW e \in Events, Elapse(e) PROVE RowsStamped'
  BY <1>5 DEF Elapse
<1>6. ASSUME NEW p \in Publishers, Claim(p) PROVE RowsStamped'
  BY <1>6 DEF Claim, IsBatch, DueRows
<1>7. ASSUME NEW p \in Publishers, ClaimLost(p) PROVE RowsStamped'
  BY <1>7 DEF ClaimLost, IsBatch, DueRows
<1>8. ASSUME NEW p \in Publishers, MarkDispatched(p) PROVE RowsStamped'
  BY <1>8 DEF MarkDispatched
<1>9. ASSUME NEW p \in Publishers, MarkFailed(p) PROVE RowsStamped'
  BY <1>9 DEF MarkFailed
<1>10. ASSUME NEW p \in Publishers, MarkLost(p) PROVE RowsStamped'
  BY <1>10 DEF MarkLost
<1>11. ASSUME NEW p \in Publishers, Crash(p) PROVE RowsStamped'
  BY <1>11 DEF Crash
<1>12. ASSUME NEW p \in Publishers, NEW e \in Events, DispatchOk(p, e) PROVE RowsStamped'
  BY <1>12 DEF DispatchOk, Dispatch, Written, EventIds
<1>13. ASSUME NEW p \in Publishers, NEW e \in Events, DispatchFails(p, e) PROVE RowsStamped'
  BY <1>13 DEF DispatchFails, Dispatch, Written, EventIds
<1>14. CASE UNCHANGED vars
  BY <1>14 DEF vars
<1> HIDE DEF TypeOK, RowsStamped, WorkIsRows, Rows, table, workers
<1>. QED
  BY <1>1, <1>2, <1>3, <1>4, <1>5, <1>6, <1>7,
     <1>8, <1>9, <1>10, <1>11, <1>12, <1>13, <1>14
  DEF Next, Publish, Drain

\* Publishers handle rows only, and an accepted write is in the topic.
LEMMA WorkIsRowsStep ==
  ASSUME TypeOK, RowsStamped, WorkIsRows, MessagesStamped, [Next]_vars
  PROVE  WorkIsRows'
<1> USE OutboxAssumption DEF TypeOK, RowsStamped, WorkIsRows, MessagesStamped, Rows, table, workers
<1>1. ASSUME NEW e \in Events, Commit(e) PROVE WorkIsRows'
  BY <1>1 DEF Commit
<1>2. ASSUME NEW e \in Events, Enqueue(e) PROVE WorkIsRows'
  BY <1>2 DEF Enqueue
<1>3. ASSUME NEW e \in Events, PublishFails(e) PROVE WorkIsRows'
  BY <1>3 DEF PublishFails
<1>4. ASSUME NEW e \in Events, PublishDirect(e) PROVE WorkIsRows'
  BY <1>4 DEF PublishDirect
<1>5. ASSUME NEW e \in Events, Elapse(e) PROVE WorkIsRows'
  BY <1>5 DEF Elapse
<1>6. ASSUME NEW p \in Publishers, Claim(p) PROVE WorkIsRows'
  BY <1>6 DEF Claim, IsBatch, DueRows
<1>7. ASSUME NEW p \in Publishers, ClaimLost(p) PROVE WorkIsRows'
  BY <1>7 DEF ClaimLost, IsBatch, DueRows
<1>8. ASSUME NEW p \in Publishers, MarkDispatched(p) PROVE WorkIsRows'
  BY <1>8 DEF MarkDispatched
<1>9. ASSUME NEW p \in Publishers, MarkFailed(p) PROVE WorkIsRows'
  BY <1>9 DEF MarkFailed
<1>10. ASSUME NEW p \in Publishers, MarkLost(p) PROVE WorkIsRows'
  BY <1>10 DEF MarkLost
<1>11. ASSUME NEW p \in Publishers, Crash(p) PROVE WorkIsRows'
  BY <1>11 DEF Crash
<1>12. ASSUME NEW p \in Publishers, NEW e \in Events, DispatchOk(p, e) PROVE WorkIsRows'
  BY <1>12 DEF DispatchOk, Dispatch, Written, EventIds
<1>13. ASSUME NEW p \in Publishers, NEW e \in Events, DispatchFails(p, e) PROVE WorkIsRows'
  BY <1>13 DEF DispatchFails, Dispatch, Written, EventIds
<1>14. CASE UNCHANGED vars
  BY <1>14 DEF vars
<1> HIDE DEF TypeOK, RowsStamped, WorkIsRows, MessagesStamped, Rows, table, workers
<1>. QED
  BY <1>1, <1>2, <1>3, <1>4, <1>5, <1>6, <1>7,
     <1>8, <1>9, <1>10, <1>11, <1>12, <1>13, <1>14
  DEF Next, Publish, Drain

\* Messages carry the id of their row.
LEMMA MessagesStampedStep ==
  ASSUME TypeOK, RowsStamped, WorkIsRows, MessagesStamped, [Next]_vars
  PROVE  MessagesStamped'
<1> USE OutboxAssumption DEF TypeOK, RowsStamped, WorkIsRows, MessagesStamped, Rows, table, workers
<1>1. ASSUME NEW e \in Events, Commit(e) PROVE MessagesStamped'
  BY <1>1 DEF Commit
<1>2. ASSUME NEW e \in Events, Enqueue(e) PROVE MessagesStamped'
  BY <1>2 DEF Enqueue
<1>3. ASSUME NEW e \in Events, PublishFails(e) PROVE MessagesStamped'
  BY <1>3 DEF PublishFails
<1>4. ASSUME NEW e \in Events, PublishDirect(e) PROVE MessagesStamped'
  BY <1>4 DEF PublishDirect
<1>5. ASSUME NEW e \in Events, Elapse(e) PROVE MessagesStamped'
  BY <1>5 DEF Elapse
<1>6. ASSUME NEW p \in Publishers, Claim(p) PROVE MessagesStamped'
  BY <1>6 DEF Claim, IsBatch, DueRows
<1>7. ASSUME NEW p \in Publishers, ClaimLost(p) PROVE MessagesStamped'
  BY <1>7 DEF ClaimLost, IsBatch, DueRows
<1>8. ASSUME NEW p \in Publishers, MarkDispatched(p) PROVE MessagesStamped'
  BY <1>8 DEF MarkDispatched
<1>9. ASSUME NEW p \in Publishers, MarkFailed(p) PROVE MessagesStamped'
  BY <1>9 DEF MarkFailed
<1>10. ASSUME NEW p \in Publishers, MarkLost(p) PROVE MessagesStamped'
  BY <1>10 DEF MarkLost
<1>11. ASSUME NEW p \in Publishers, Crash(p) PROVE MessagesStamped'
  BY <1>11 DEF Crash
<1>12. ASSUME NEW p \in Publishers, NEW e \in Events, DispatchOk(p, e) PROVE MessagesStamped'
  BY <1>12 DEF DispatchOk, Dispatch, Written, EventIds
<1>13. ASSUME NEW p \in Publishers, NEW e \in Events, DispatchFails(p, e) PROVE MessagesStamped'
  BY <1>13 DEF DispatchFails, Dispatch, Written, EventIds
<1>14. CASE UNCHANGED vars
  BY <1>14 DEF vars
<1> HIDE DEF TypeOK, RowsStamped, WorkIsRows, MessagesStamped, Rows, table, workers
<1>. QED
  BY <1>1, <1>2, <1>3, <1>4, <1>5, <1>6, <1>7,
     <1>8, <1>9, <1>10, <1>11, <1>12, <1>13, <1>14
  DEF Next, Publish, Drain

\* Rows are marked only after an accepted write.
LEMMA DeliveredStep ==
  ASSUME TypeOK, RowsStamped, WorkIsRows, DispatchedWasDelivered, [Next]_vars
  PROVE  DispatchedWasDelivered'
<1> USE OutboxAssumption DEF TypeOK, RowsStamped, WorkIsRows, DispatchedWasDelivered, table, workers
<1>1. ASSUME NEW e \in Events, Commit(e) PROVE DispatchedWasDelivered'
  BY <1>1 DEF Commit
<1>2. ASSUME NEW e \in Events, Enqueue(e) PROVE DispatchedWasDelivered'
  BY <1>2 DEF Enqueue
<1>3. ASSUME NEW e \in Events, PublishFails(e) PROVE DispatchedWasDelivered'
  BY <1>3 DEF PublishFails
<1>4. ASSUME NEW e \in Events, PublishDirect(e) PROVE DispatchedWasDelivered'
  BY <1>4 DEF PublishDirect
<1>5. ASSUME NEW e \in Events, Elapse(e) PROVE DispatchedWasDelivered'
  BY <1>5 DEF Elapse
<1>6. ASSUME NEW p \in Publishers, Claim(p) PROVE DispatchedWasDelivered'
  BY <1>6 DEF Claim, IsBatch, DueRows
<1>7. ASSUME NEW p \in Publishers, ClaimLost(p) PROVE DispatchedWasDelivered'
  BY <1>7 DEF ClaimLost, IsBatch, DueRows
<1>8. ASSUME NEW p \in Publishers, MarkDispatched(p) PROVE DispatchedWasDelivered'
  BY <1>8 DEF MarkDispatched
<1>9. ASSUME NEW p \in Publishers, MarkFailed(p) PROVE DispatchedWasDelivered'
  BY <1>9 DEF MarkFailed
<1>10. ASSUME NEW p \in Publishers, MarkLost(p) PROVE DispatchedWasDelivered'
  BY <1>10 DEF MarkLost
<1>11. ASSUME NEW p \in Publishers, Crash(p) PROVE DispatchedWasDelivered'
  BY <1>11 DEF Crash
<1>12. ASSUME NEW p \in Publishers, NEW e \in Events, DispatchOk(p, e) PROVE DispatchedWasDelivered'
  BY <1>12 DEF DispatchOk, Dispatch, Written, EventIds
<1>13. ASSUME NEW p \in Publishers, NEW e \in Events, DispatchFails(p, e) PROVE DispatchedWasDelivered'
  BY <1>13 DEF DispatchFails, Dispatch, Written, EventIds
<1>14. CASE UNCHANGED vars
  BY <1>14 DEF vars
<1> HIDE DEF TypeOK, RowsStamped, WorkIsRows, DispatchedWasDelivered, table, workers
<1>. QED
  BY <1>1, <1>2, <1>3, <1>4, <1>5, <1>6, <1>7,
     <1>8, <1>9, <1>10, <1>11, <1>12, <1>13, <1>14
  DEF Next, Publish, Drain

\* No write gives an event a second id or shares one.
LEMMA IdsStep ==
  ASSUME TypeOK, RowsStamped, WorkIsRows, MessagesStamped, IdsIdentifyEvents, [Next]_vars
  PROVE  IdsIdentifyEvents'
<1> USE OutboxAssumption DEF TypeOK, RowsStamped, WorkIsRows, MessagesStamped, IdsIdentifyEvents, Rows, table, workers
<1>1. ASSUME NEW e \in Events, Commit(e) PROVE IdsIdentifyEvents'
  BY <1>1 DEF Commit
<1>2. ASSUME NEW e \in Events, Enqueue(e) PROVE IdsIdentifyEvents'
  BY <1>2 DEF Enqueue
<1>3. ASSUME NEW e \in Events, PublishFails(e) PROVE IdsIdentifyEvents'
  BY <1>3 DEF PublishFails
<1>4. ASSUME NEW e \in Events, PublishDirect(e) PROVE IdsIdentifyEvents'
  BY <1>4 DEF PublishDirect
<1>5. ASSUME NEW e \in Events, Elapse(e) PROVE IdsIdentifyEvents'
  BY <1>5 DEF Elapse
<1>6. ASSUME NEW p \in Publishers, Claim(p) PROVE IdsIdentifyEvents'
  BY <1>6 DEF Claim, IsBatch, DueRows
<1>7. ASSUME NEW p \in Publishers, ClaimLost(p) PROVE IdsIdentifyEvents'
  BY <1>7 DEF ClaimLost, IsBatch, DueRows
<1>8. ASSUME NEW p \in Publishers, MarkDispatched(p) PROVE IdsIdentifyEvents'
  BY <1>8 DEF MarkDispatched
<1>9. ASSUME NEW p \in Publishers, MarkFailed(p) PROVE IdsIdentifyEvents'
  BY <1>9 DEF MarkFailed
<1>10. ASSUME NEW p \in Publishers, MarkLost(p) PROVE IdsIdentifyEvents'
  BY <1>10 DEF MarkLost
<1>11. ASSUME NEW p \in Publishers, Crash(p) PROVE IdsIdentifyEvents'
  BY <1>11 DEF Crash
<1>12. ASSUME NEW p \in Publishers, NEW e \in Events, DispatchOk(p, e) PROVE IdsIdentifyEvents'
  BY <1>12 DEF DispatchOk, Dispatch, Written, EventIds
<1>13. ASSUME NEW p \in Publishers, NEW e \in Events, DispatchFails(p, e) PROVE IdsIdentifyEvents'
  BY <1>13 DEF DispatchFails, Dispatch, Written, EventIds
<1>14. CASE UNCHANGED vars
  BY <1>14 DEF vars
<1> HIDE DEF TypeOK, RowsStamped, WorkIsRows, MessagesStamped, IdsIdentifyEvents, Rows, table, workers
<1>. QED
  BY <1>1, <1>2, <1>3, <1>4, <1>5, <1>6, <1>7,
     <1>8, <1>9, <1>10, <1>11, <1>12, <1>13, <1>14
  DEF Next, Publish, Drain

\* No mark reopens a dispatched row.
LEMMA FinalStep ==
  ASSUME TypeOK, RowsStamped, MessagesStamped, [Next]_vars
  PROVE  Final
<1> USE OutboxAssumption DEF TypeOK, RowsStamped, MessagesStamped, Final, table, workers
<1>1. ASSUME NEW e \in Events, Commit(e) PROVE Final
  BY <1>1 DEF Commit
<1>2. ASSUME NEW e \in Events, Enqueue(e) PROVE Final
  BY <1>2 DEF Enqueue
<1>3. ASSUME NEW e \in Events, PublishFails(e) PROVE Final
  BY <1>3 DEF PublishFails
<1>4. ASSUME NEW e \in Events, PublishDirect(e) PROVE Final
  BY <1>4 DEF PublishDirect
<1>5. ASSUME NEW e \in Events, Elapse(e) PROVE Final
  BY <1>5 DEF Elapse
<1>6. ASSUME NEW p \in Publishers, Claim(p) PROVE Final
  BY <1>6 DEF Claim, IsBatch, DueRows
<1>7. ASSUME NEW p \in Publishers, ClaimLost(p) PROVE Final
  BY <1>7 DEF ClaimLost, IsBatch, DueRows
<1>8. ASSUME NEW p \in Publishers, MarkDispatched(p) PROVE Final
  BY <1>8 DEF MarkDispatched
<1>9. ASSUME NEW p \in Publishers, MarkFailed(p) PROVE Final
  BY <1>9 DEF MarkFailed
<1>10. ASSUME NEW p \in Publishers, MarkLost(p) PROVE Final
  BY <1>10 DEF MarkLost
<1>11. ASSUME NEW p \in Publishers, Crash(p) PROVE Final
  BY <1>11 DEF Crash
<1>12. ASSUME NEW p \in Publishers, NEW e \in Events, DispatchOk(p, e) PROVE Final
  BY <1>12 DEF DispatchOk, Dispatch, Written, EventIds
<1>13. ASSUME NEW p \in Publishers, NEW e \in Events, DispatchFails(p, e) PROVE Final
  BY <1>13 DEF DispatchFails, Dispatch, Written, EventIds
<1>14. CASE UNCHANGED vars
  BY <1>14 DEF vars
<1> HIDE DEF TypeOK, RowsStamped, MessagesStamped, Final, table, workers
<1>. QED
  BY <1>1, <1>2, <1>3, <1>4, <1>5, <1>6, <1>7,
     <1>8, <1>9, <1>10, <1>11, <1>12, <1>13, <1>14
  DEF Next, Publish, Drain

\* A freshly migrated, empty outbox satisfies the invariant.
LEMMA InitIndInv == Init => IndInv
  BY OutboxAssumption
  DEF Init, IndInv, TypeOK, RowsStamped, WorkIsRows, MessagesStamped,
      DispatchedWasDelivered, IdsIdentifyEvents

\* Every step preserves the invariant.
LEMMA NextIndInv == IndInv /\ [Next]_vars => IndInv'
<1> SUFFICES ASSUME IndInv, [Next]_vars PROVE IndInv'
  OBVIOUS
<1>1. TypeOK' /\ RowsStamped' /\ WorkIsRows'
  BY TypeStep, RowsStampedStep, WorkIsRowsStep DEF IndInv
<1>2. MessagesStamped' /\ DispatchedWasDelivered' /\ IdsIdentifyEvents'
  BY MessagesStampedStep, DeliveredStep, IdsStep DEF IndInv
<1>. QED
  BY <1>1, <1>2 DEF IndInv

\* The invariant holds for any number of events and publishers, any batch size
\* and any crashes.
THEOREM Invariance == Spec => []IndInv
<1>. QED
  BY InitIndInv, NextIndInv, PTL DEF Spec

\* The table, the publishers and the topic have their types.
THEOREM TypeCorrect == Spec => []TypeOK
<1>1. IndInv => TypeOK
  BY DEF IndInv
<1>. QED
  BY <1>1, Invariance, PTL

\* No row is marked dispatched before Kafka has its event.
THEOREM NothingGivenUp == Spec => []DispatchedWasDelivered
<1>1. IndInv => DispatchedWasDelivered
  BY DEF IndInv
<1>. QED
  BY <1>1, Invariance, PTL

\* Redeliveries carry the id of the first delivery, so that consumers can
\* recognise them.
THEOREM DuplicatesAreRecognisable == Spec => []IdsIdentifyEvents
<1>1. IndInv => IdsIdentifyEvents
  BY DEF IndInv
<1>. QED
  BY <1>1, Invariance, PTL

\* A dispatched row is never offered to the publishers again.
THEOREM DispatchedStays == Spec => DispatchedIsFinal
<1>1. IndInv /\ [Next]_vars => [Final]_vars
  BY FinalStep DEF IndInv
<1>. QED
  BY <1>1, Invariance, PTL DEF Spec, DispatchedIsFinal
=============================================================================
