------------------------------- MODULE Outbox -------------------------------
(***************************************************************************)
(* Domain events on their way to iag.commercial: a handler commits the     *)
(* document, then events.Bus publishes an event about it, which inserts a  *)
(* row into pm_event_outbox; an outbox.Publisher on every replica claims   *)
(* due rows, writes them to Kafka and marks them.                          *)
(*                                                                         *)
(* Each SQL statement and each Kafka write is one step.  Time is reduced   *)
(* to whether a row is due: a lease or a backoff makes it not due, and     *)
(* Elapse makes it due again, at any moment, since nothing bounds how long *)
(* a Kafka write takes compared with the one-second lease.                 *)
(***************************************************************************)
EXTENDS Naturals, FiniteSets

CONSTANTS Events,      \* the publications handlers make, one each
          Publishers,  \* the outbox.Publisher of every replica
          Batch,       \* Publisher.batch
          Ids,         \* what uuid.NewString may return
          NoId, None

ASSUME OutboxAssumption ==
  /\ Batch \in Nat \ {0}
  /\ NoId \notin Ids
  /\ None \notin Events

VARIABLES
  hpc,    \* event -> where the handler that publishes it is
  row,    \* event -> its pm_event_outbox row
  rowId,  \* event -> id of that row
  serial, \* the BIGSERIAL sequence behind rowId
  id,     \* event -> the event id in the row's payload
  due,    \* rows with available_at <= NOW()
  work,   \* publisher -> claimed rows it has not dispatched yet
  cur,    \* publisher -> the row whose dispatch has returned
  ok,     \* publishers whose last dispatch returned no error
  topic,  \* <<event, event id>> messages in iag.commercial
  used    \* event ids handed out so far

table   == <<row, rowId, serial, id, due>>
workers == <<work, cur, ok>>
vars    == <<hpc, table, workers, topic, used>>

Init ==
  /\ hpc = [e \in Events |-> "idle"]
  /\ row = [e \in Events |-> "none"]
  /\ rowId = [e \in Events |-> 0]
  /\ serial = 0
  /\ id = [e \in Events |-> NoId]
  /\ due = {}
  /\ work = [p \in Publishers |-> {}]
  /\ cur = [p \in Publishers |-> None]
  /\ ok = {}
  /\ topic = {}
  /\ used = {}

-----------------------------------------------------------------------------
(* The handler and events.Bus.                                             *)

\* Mutate returned without an error.
Commit(e) ==
  /\ hpc[e] = "idle"
  /\ hpc' = [hpc EXCEPT ![e] = "committed"]
  /\ UNCHANGED <<table, workers, topic, used>>

\* Mutant of Enqueue: the payload is stored before finalizeEvent stamps it.
EnqueueUnstamped(e) ==
  /\ hpc[e] = "committed"
  /\ hpc' = [hpc EXCEPT ![e] = "done"]
  /\ row' = [row EXCEPT ![e] = "pending"]
  /\ serial' = serial + 1
  /\ rowId' = [rowId EXCEPT ![e] = serial']
  /\ due' = due \cup {e}
  /\ UNCHANGED <<id, workers, topic, used>>

\* PublishCommercial or PublishPMAlert: finalizeEvent gives the envelope its
\* id, Store.Enqueue inserts it, in a statement of its own.
Enqueue(e) ==
  /\ hpc[e] = "committed"
  /\ hpc' = [hpc EXCEPT ![e] = "done"]
  /\ row' = [row EXCEPT ![e] = "pending"]
  /\ serial' = serial + 1
  /\ rowId' = [rowId EXCEPT ![e] = serial']
  /\ \E i \in Ids \ used :
       /\ id' = [id EXCEPT ![e] = i]
       /\ used' = used \cup {i}
  /\ due' = due \cup {e}
  /\ UNCHANGED <<workers, topic>>

\* The INSERT or the direct write fails, which is only logged, or the replica
\* dies before it.
PublishFails(e) ==
  /\ hpc[e] = "committed"
  /\ hpc' = [hpc EXCEPT ![e] = "done"]
  /\ UNCHANGED <<table, workers, topic, used>>

\* Mutant of PublishDirect: without finalizeEvent.
PublishDirectUnstamped(e) ==
  /\ hpc[e] = "committed"
  /\ hpc' = [hpc EXCEPT ![e] = "done"]
  /\ topic' = topic \cup {<<e, NoId>>}
  /\ UNCHANGED <<table, workers, used>>

\* Bus.publish in a process whose bus has no outbox (cmd/jobs).
PublishDirect(e) ==
  /\ hpc[e] = "committed"
  /\ hpc' = [hpc EXCEPT ![e] = "done"]
  /\ \E i \in Ids \ used :
       /\ topic' = topic \cup {<<e, i>>}
       /\ used' = used \cup {i}
  /\ UNCHANGED <<table, workers>>

-----------------------------------------------------------------------------
(* outbox.Store and outbox.Publisher.                                      *)

DueRows == {e \in due : row[e] = "pending"}

\* The rows of SELECT ... ORDER BY id LIMIT Batch.
IsBatch(s) ==
  /\ s \subseteq DueRows
  /\ Cardinality(s) = Batch \/ (s = DueRows /\ Cardinality(s) < Batch)
  /\ \A a \in s, b \in DueRows \ s : rowId[a] < rowId[b]

Idle(p) == work[p] = {} /\ cur[p] = None

\* drainOnce: ClaimBatch leases the rows for a second.
Claim(p) ==
  /\ Idle(p)
  /\ DueRows # {}
  /\ \E s \in SUBSET DueRows :
       /\ IsBatch(s)
       /\ due' = due \ s
       /\ work' = [work EXCEPT ![p] = s]
  /\ UNCHANGED <<hpc, row, rowId, serial, id, cur, ok, topic, used>>

\* ClaimBatch took effect, but its result did not arrive.
ClaimLost(p) ==
  /\ Idle(p)
  /\ DueRows # {}
  /\ \E s \in SUBSET DueRows : IsBatch(s) /\ due' = due \ s
  /\ UNCHANGED <<hpc, row, rowId, serial, id, workers, topic, used>>

\* DispatchOutbox: finalizeEvent stamps an id only where there is none.
EventIds(e) == IF id[e] = NoId THEN Ids \ used ELSE {id[e]}

Written(e) ==
  \E i \in EventIds(e) : topic' = topic \cup {<<e, i>>} /\ used' = used \cup {i}

Dispatch(p, e) ==
  /\ e \in work[p] /\ cur[p] = None
  /\ work' = [work EXCEPT ![p] = @ \ {e}]
  /\ cur' = [cur EXCEPT ![p] = e]
  /\ UNCHANGED <<hpc, table>>

DispatchOk(p, e) == Dispatch(p, e) /\ Written(e) /\ ok' = ok \cup {p}

\* An error tells nothing: the brokers may have the message all the same.
DispatchFails(p, e) ==
  /\ Dispatch(p, e)
  /\ Written(e) \/ UNCHANGED <<topic, used>>
  /\ ok' = ok \ {p}

\* Mutant of MarkDispatched: DispatchOutbox's error is not looked at.
MarkAnyway(p) ==
  /\ cur[p] # None
  /\ row' = [row EXCEPT ![cur[p]] = "dispatched"]
  /\ cur' = [cur EXCEPT ![p] = None]
  /\ UNCHANGED <<hpc, rowId, serial, id, due, work, ok, topic, used>>

MarkDispatched(p) ==
  /\ cur[p] # None /\ p \in ok
  /\ row' = [row EXCEPT ![cur[p]] = "dispatched"]
  /\ cur' = [cur EXCEPT ![p] = None]
  /\ UNCHANGED <<hpc, rowId, serial, id, due, work, ok, topic, used>>

\* Mutant of MarkFailed: it writes dispatched_at = NULL as well.
MarkFailedReopens(p) ==
  /\ cur[p] # None /\ p \notin ok
  /\ row' = [row EXCEPT ![cur[p]] = "pending"]
  /\ due' = due \ {cur[p]}
  /\ cur' = [cur EXCEPT ![p] = None]
  /\ UNCHANGED <<hpc, rowId, serial, id, work, ok, topic, used>>

\* available_at moves by backoffFor(attempts), which overflows and then lies
\* in the past after 34 failures; dispatched_at is left as it is.
MarkFailed(p) ==
  /\ cur[p] # None /\ p \notin ok
  /\ due' \in {due \ {cur[p]}, due \cup {cur[p]}}
  /\ cur' = [cur EXCEPT ![p] = None]
  /\ UNCHANGED <<hpc, row, rowId, serial, id, work, ok, topic, used>>

\* Either mark fails; that is logged and the next row is dispatched.
MarkLost(p) ==
  /\ cur[p] # None
  /\ cur' = [cur EXCEPT ![p] = None]
  /\ UNCHANGED <<hpc, table, work, ok, topic, used>>

\* The replica dies and a new one takes its place.
Crash(p) ==
  /\ ~Idle(p)
  /\ work' = [work EXCEPT ![p] = {}]
  /\ cur' = [cur EXCEPT ![p] = None]
  /\ UNCHANGED <<hpc, table, ok, topic, used>>

\* Mutant of Elapse: available_at is compared the wrong way round.
ElapseReversed(e) ==
  /\ row[e] = "pending" /\ e \in due
  /\ due' = due \ {e}
  /\ UNCHANGED <<hpc, row, rowId, serial, id, workers, topic, used>>

\* The lease or the backoff of a row ends.
Elapse(e) ==
  /\ row[e] = "pending" /\ e \notin due
  /\ due' = due \cup {e}
  /\ UNCHANGED <<hpc, row, rowId, serial, id, workers, topic, used>>

-----------------------------------------------------------------------------
Publish(e) == Commit(e) \/ Enqueue(e) \/ PublishFails(e) \/ PublishDirect(e)

Drain(p) ==
  \/ Claim(p) \/ ClaimLost(p) \/ MarkDispatched(p) \/ MarkFailed(p)
  \/ MarkLost(p) \/ Crash(p)
  \/ \E e \in Events : DispatchOk(p, e) \/ DispatchFails(p, e)

Next ==
  \/ \E e \in Events : Publish(e) \/ Elapse(e)
  \/ \E p \in Publishers : Drain(p)

Spec == Init /\ [][Next]_vars

\* Handlers go on, timers fire, and neither Kafka nor Postgres fails for ever:
\* what is tried again and again succeeds in the end.
Fairness ==
  /\ \A e \in Events :
       /\ WF_vars(Enqueue(e) \/ PublishFails(e) \/ PublishDirect(e))
       /\ WF_vars(Elapse(e))
       /\ SF_vars(\E p \in Publishers : DispatchOk(p, e))
       /\ SF_vars(\E p \in Publishers : cur[p] = e /\ MarkDispatched(p))
  /\ \A p \in Publishers :
       /\ SF_vars(Claim(p))
       /\ WF_vars(\E e \in Events : DispatchOk(p, e) \/ DispatchFails(p, e))
       /\ WF_vars(MarkDispatched(p) \/ MarkFailed(p) \/ MarkLost(p))

FairSpec == Spec /\ Fairness

-----------------------------------------------------------------------------
(* Properties.                                                             *)

\* Types of the handlers, the table, the publishers and the topic.
TypeOK ==
  /\ hpc \in [Events -> {"idle", "committed", "done"}]
  /\ row \in [Events -> {"none", "pending", "dispatched"}]
  /\ rowId \in [Events -> Nat]
  /\ serial \in Nat
  /\ id \in [Events -> Ids \cup {NoId}]
  /\ due \subseteq Events
  /\ work \in [Publishers -> SUBSET Events]
  /\ cur \in [Publishers -> Events \cup {None}]
  /\ ok \subseteq Publishers
  /\ topic \subseteq Events \X Ids
  /\ used \subseteq Ids

\* No event is given up before Kafka has it: a row marked dispatched has a
\* message in the topic, whoever else claimed the row meanwhile.
DispatchedWasDelivered ==
  \A e \in Events : row[e] = "dispatched" => \E i \in Ids : <<e, i>> \in topic

\* "Worst case is duplicate delivery (idempotent consumers handle that ...)":
\* the duplicates of one event carry one id and no other event carries it, so
\* a consumer that dedupes by id sees every event once.
IdsIdentifyEvents ==
  \A a, b \in topic : a[1] = b[1] <=> a[2] = b[2]

\* A late MarkFailed of a publisher that lost its lease never reopens a row
\* another publisher has delivered.
Final == \A e \in Events : row[e] = "dispatched" => row'[e] = "dispatched"

\* Final at every step.
DispatchedIsFinal == [][Final]_vars

\* Every event that reached the outbox is delivered in the end, in spite of
\* crashes, lost claims, failed writes and failed marks.
EnqueuedIsDelivered ==
  \A e \in Events : row[e] = "pending" ~> row[e] = "dispatched"

\* "Closes the lost-event window when Kafka or the network blips after a
\* handler's DB commit": every committed update is announced in the end.
\* It does not hold: README.md, Findings.
CommittedIsDelivered ==
  \A e \in Events : hpc[e] = "committed" ~> \E i \in Ids : <<e, i>> \in topic

-----------------------------------------------------------------------------
(* The inductive invariant behind the safety properties.                   *)

\* A row's event is identified before anybody can dispatch it.
RowsStamped ==
  /\ \A e \in Events : row[e] # "none" => id[e] # NoId
  /\ \A e \in Events : id[e] # NoId => id[e] \in used
  /\ \A e, f \in Events : id[e] # NoId /\ id[e] = id[f] => e = f

Rows == {e \in Events : row[e] # "none"}

\* Publishers only handle rows, and a dispatch that returned no error wrote.
WorkIsRows ==
  /\ \A p \in Publishers : work[p] \subseteq Rows
  /\ \A p \in Publishers : cur[p] # None => cur[p] \in Rows
  /\ \A p \in Publishers :
       p \in ok /\ cur[p] # None => <<cur[p], id[cur[p]]>> \in topic

\* A message carries its row's id, or was written by a bus without an outbox,
\* once, and then no row carries its id.
MessagesStamped ==
  /\ \A m \in topic : hpc[m[1]] = "done" /\ m[2] \in used
  /\ \A e \in Events : id[e] # NoId => hpc[e] = "done"
  /\ \A m \in topic : id[m[1]] \in {m[2], NoId}
  /\ \A m \in topic, e \in Events : id[e] = m[2] => e = m[1]

IndInv ==
  /\ TypeOK
  /\ RowsStamped
  /\ WorkIsRows
  /\ MessagesStamped
  /\ DispatchedWasDelivered
  /\ IdsIdentifyEvents
=============================================================================
