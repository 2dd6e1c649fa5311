---------------------------- MODULE Requisitions ----------------------------
(***************************************************************************)
(* A cash requisition's round trip: it is created in a workspace, decided  *)
(* by the procurement service, and the decision comes back over Kafka; the *)
(* consumer applies it and books an approved requisition as an accounts-   *)
(* payable item in the finance service.                                    *)
(*                                                                         *)
(* Replicas of the backend share one consumer group, a table of processed  *)
(* events and the workspaces.  A call of Service.Mutate is one step: the   *)
(* Workspace module shows that its writes are atomic.  One message carries *)
(* the decision about one requisition and is named by it.  It names the    *)
(* submitter and a number, not a workspace: every Mutate resolves again    *)
(* which workspace is the submitter's.                                     *)
(***************************************************************************)
EXTENDS Naturals

CONSTANTS Reqs,         \* requisitions, in their lifetime
          Users,        \* user ids; a workspace is named by its owner's id
          Owners,       \* users with a workspace of their own at the start
          By,           \* requisition -> user who submits it
          Sharing,      \* <<w, u>>: w's workspace may at times be shared with u
          Preapproved,  \* requisitions posted with the status "approved"
          Prebooked,    \* requisitions that may be posted with a financeApRef
          Consumers,    \* replicas of the consumer
          MaxRetries,   \* ConsumerConfig.MaxRetries
          MaxNumber,    \* bound on the numbers given out
          MaxFaults,    \* bound on failed calls, rebalances and crashes
          Nobody

ASSUME ReqsAssumption ==
  /\ Owners \subseteq Users
  /\ By \in [Reqs -> Users]
  /\ Preapproved \subseteq Reqs
  /\ Prebooked \subseteq Reqs
  /\ MaxRetries \in Nat
  /\ MaxNumber \in Nat
  /\ MaxFaults \in Nat
  /\ Nobody \notin Reqs \cup Users

VARIABLES rows,      \* users who own a workspace
          home,      \* requisition -> workspace it was put in
          status,    \* requisition -> Requisition.Status
          num,       \* requisition -> Requisition.ID, the number it was given
          ref,       \* requisitions whose FinanceApRef is set
          decision,  \* requisition -> what procurement published about it
          processed, \* pm_processed_events
          committed, \* messages whose offset is committed
          dlq,       \* messages on the dead-letter topic
          ledger,    \* finance: number in the documentRef -> requisition booked
          at, msg, tries, item, \* a consumer: where it is, its message, failed
                                \* attempts, the requisition it read for booking
          finance,   \* whether the finance client is configured
          faults

reqVars  == <<rows, home, status, num, ref>>
busVars  == <<decision, committed, dlq>>
workVars == <<at, msg, tries, item>>
vars     == <<reqVars, busVars, processed, ledger, workVars, finance, faults>>

Statuses  == {"unborn", "submitted", "approved", "rejected", "deleted"}
Decisions == {"none", "approved", "rejected", "malformed"}
Labels    == {"idle", "fetched", "apply", "load", "create", "persist",
              "mark", "dlq", "commit"}
Handling  == {"apply", "load", "create", "persist"}
Numbers   == 1..MaxNumber

Init ==
  /\ rows = Owners
  /\ home = [o \in Reqs |-> Nobody]
  /\ status = [o \in Reqs |-> "unborn"]
  /\ num = [o \in Reqs |-> 0]
  /\ ref = {}
  /\ decision = [o \in Reqs |-> "none"]
  /\ processed = {}
  /\ committed = {}
  /\ dlq = {}
  /\ ledger = [n \in Numbers |-> Nobody]
  /\ at = [c \in Consumers |-> "idle"]
  /\ msg = [c \in Consumers |-> Nobody]
  /\ tries = [c \in Consumers |-> 0]
  /\ item = [c \in Consumers |-> Nobody]
  /\ finance \in BOOLEAN
  /\ faults = 0

Live == {o \in Reqs : status[o] \notin {"unborn", "deleted"}}

Goto(c, l) == at' = [at EXCEPT ![c] = l]

\* The handler returned and process with it: the locals are gone.
Return(c, l) ==
  /\ Goto(c, l)
  /\ tries' = [tries EXCEPT ![c] = 0]
  /\ item' = [item EXCEPT ![c] = Nobody]

\* The loop body of Run is left.
Leave(c) ==
  /\ Return(c, "idle")
  /\ msg' = [msg EXCEPT ![c] = Nobody]

Fault == faults < MaxFaults /\ faults' = faults + 1

-----------------------------------------------------------------------------
(* The requisition endpoints.                                              *)

\* ResolveForUser: the user's own workspace, else one that is shared with the
\* user at the moment, else a new one of the user's own.  (Memberships and
\* updated_at change all the time; Workspace has them.)
Resolution(u) ==
  IF u \in rows THEN {u} ELSE {u} \cup {w \in rows : <<w, u>> \in Sharing}

\* NextIntID over the workspace's requisitions: one more than the largest.
IsNextID(n, w) ==
  /\ \A o \in Live : home[o] = w => num[o] < n
  /\ n = 1 \/ \E o \in Live : home[o] = w /\ num[o] = n - 1

\* createRequisition.  The status and the finance reference are the client's.
Create(o) ==
  /\ status[o] = "unborn"
  /\ \E w \in Resolution(By[o]), n \in Numbers :
       /\ IsNextID(n, w)
       /\ rows' = rows \cup {w}
       /\ home' = [home EXCEPT ![o] = w]
       /\ num' = [num EXCEPT ![o] = n]
  /\ status' = [status EXCEPT ![o] =
                  IF o \in Preapproved THEN "approved" ELSE "submitted"]
  /\ ref' = ref \/ (o \in Prebooked /\ ref' = ref \cup {o})
  /\ UNCHANGED <<busVars, processed, ledger, workVars, faults>>

\* Any other request of a user whom nothing is shared with: GetOrCreate.
Visit(u) ==
  /\ rows' = rows \cup {u}
  /\ UNCHANGED <<home, status, num, ref, busVars, processed, ledger, workVars, faults>>

\* Mutant of MayRemove: a requisition counts as settled once it is booked.
MayRemoveUnbooked(o) == o \in Live /\ o \notin ref

\* removeRequisition refuses what is approved or has reached finance.
MayRemove(o) == o \in Live /\ o \notin ref /\ status[o] # "approved"

\* deleteRequisition.
Delete(o) ==
  /\ MayRemove(o)
  /\ status' = [status EXCEPT ![o] = "deleted"]
  /\ UNCHANGED <<rows, home, num, ref, busVars, processed, ledger, workVars, faults>>

\* External: procurement decides what was submitted to it, once, whether or
\* not the requisition has been withdrawn since.
Decide(o) ==
  /\ status[o] # "unborn"
  /\ decision[o] = "none"
  /\ \E d \in Decisions \ {"none"} : decision' = [decision EXCEPT ![o] = d]
  /\ UNCHANGED <<reqVars, committed, dlq, processed, ledger, workVars, faults>>

-----------------------------------------------------------------------------
(* Consumer.Run: fetch, look up, handle, mark, commit.                     *)

\* FetchMessage.  After a crash or a rebalance an uncommitted message is
\* delivered again, even while another replica still works on it.
Fetch(c) ==
  /\ at[c] = "idle"
  /\ \E o \in Reqs \ committed :
       /\ decision[o] # "none"
       /\ IF \E d \in Consumers : msg[d] = o
            THEN Fault ELSE UNCHANGED faults
       /\ msg' = [msg EXCEPT ![c] = o]
  /\ Goto(c, "fetched")
  /\ UNCHANGED <<reqVars, busVars, processed, ledger, tries, item>>

\* Dedupe.Seen.
Seen(c) ==
  /\ at[c] = "fetched"
  /\ Goto(c, IF msg[c] \in processed THEN "commit" ELSE "apply")
  /\ UNCHANGED <<reqVars, busVars, processed, ledger, msg, tries, item, faults>>

\* The lookup failed: "processing anyway".
SeenFails(c) ==
  /\ at[c] = "fetched"
  /\ Fault
  /\ Goto(c, "apply")
  /\ UNCHANGED <<reqVars, busVars, processed, ledger, msg, tries, item>>

\* Mutant of Retry: the attempts are not counted.
RetryForever(c) ==
  /\ Goto(c, "apply")
  /\ item' = [item EXCEPT ![c] = Nobody]
  /\ UNCHANGED tries

\* Mutant of Retry: one attempt too many.
RetryOnceMore(c) ==
  IF tries[c] <= MaxRetries
    THEN /\ Goto(c, "apply")
         /\ tries' = [tries EXCEPT ![c] = @ + 1]
         /\ item' = [item EXCEPT ![c] = Nobody]
    ELSE Return(c, "dlq")

\* process: the handler runs again from the start, MaxRetries times at most.
Retry(c) ==
  IF tries[c] < MaxRetries
    THEN /\ Goto(c, "apply")
         /\ tries' = [tries EXCEPT ![c] = @ + 1]
         /\ item' = [item EXCEPT ![c] = Nobody]
    ELSE Return(c, "dlq")

\* Mutant of HandlerFails: the failure is logged and the event counts as handled.
FailureSwallowed(c) ==
  /\ at[c] \in Handling
  /\ Fault
  /\ Return(c, "mark")
  /\ UNCHANGED <<reqVars, busVars, processed, ledger, msg>>

\* A call of the handler failed: a query, Mutate (a second version conflict),
\* or finance.  A call that took effect and whose answer was lost is this step
\* after the call's own.
HandlerFails(c) ==
  /\ at[c] \in Handling
  /\ Fault
  /\ Retry(c)
  /\ UNCHANGED <<reqVars, busVars, processed, ledger, msg>>

\* Dedupe.Mark.
Mark(c) ==
  /\ at[c] = "mark"
  /\ processed' = processed \cup {msg[c]}
  /\ Goto(c, "commit")
  /\ UNCHANGED <<reqVars, busVars, ledger, msg, tries, item, faults>>

\* Its failure is only logged.
MarkFails(c) ==
  /\ at[c] = "mark"
  /\ Fault
  /\ Goto(c, "commit")
  /\ UNCHANGED <<reqVars, busVars, processed, ledger, msg, tries, item>>

\* toDLQ.
DeadLetter(c) ==
  /\ at[c] = "dlq"
  /\ dlq' = dlq \cup {msg[c]}
  /\ Goto(c, "commit")
  /\ UNCHANGED <<reqVars, decision, committed, processed, ledger, msg, tries,
                 item, faults>>

\* Its failure is only logged.
DeadLetterFails(c) ==
  /\ at[c] = "dlq"
  /\ Fault
  /\ Goto(c, "commit")
  /\ UNCHANGED <<reqVars, busVars, processed, ledger, msg, tries, item>>

Commit(c) ==
  /\ at[c] = "commit"
  /\ committed' = committed \cup {msg[c]}
  /\ Leave(c)
  /\ UNCHANGED <<reqVars, decision, dlq, processed, ledger, faults>>

\* CommitMessages failed (logged), or the process died at any earlier point:
\* the message is delivered again.
Abandon(c) ==
  /\ at[c] # "idle"
  /\ Fault
  /\ Leave(c)
  /\ UNCHANGED <<reqVars, busVars, processed, ledger>>

-----------------------------------------------------------------------------
(* Handler.handleRequisition and bookApprovedRequisitionAP.                *)

\* The requisitions of workspace w with the message's number: one, or none.
Target(c, w) == {o \in Live : home[o] = w /\ num[o] = num[msg[c]]}

\* A malformed event is a permanent error.
Poison(c) ==
  /\ at[c] = "apply"
  /\ decision[msg[c]] = "malformed"
  /\ Return(c, "dlq")
  /\ UNCHANGED <<reqVars, busVars, processed, ledger, msg, faults>>

\* The first Mutate sets the status of the requisition with that number in the
\* workspace it resolves to.  found may stem from its first attempt, and the
\* requisition be gone at the second.
Apply(c) ==
  /\ at[c] = "apply"
  /\ decision[msg[c]] # "malformed"
  /\ \E w \in Resolution(By[msg[c]]), found \in BOOLEAN :
       /\ Target(c, w) # {} => found
       /\ rows' = rows \cup {w}
       /\ status' = [o \in Reqs |->
            IF o \in Target(c, w) THEN decision[msg[c]] ELSE status[o]]
       /\ IF found /\ decision[msg[c]] = "approved"
            THEN Goto(c, "load") /\ UNCHANGED <<tries, item>>
            ELSE Return(c, "mark")
  /\ UNCHANGED <<home, num, ref, busVars, processed, ledger, msg, faults>>

\* GetByOwner finds no workspace of the submitter's own: an error, every time.
LoadFails(c) ==
  /\ at[c] = "load"
  /\ finance /\ By[msg[c]] \notin rows
  /\ Retry(c)
  /\ UNCHANGED <<reqVars, busVars, processed, ledger, msg, faults>>

\* Without a finance client there is nothing to book.
NoFinance(c) ==
  /\ at[c] = "load"
  /\ ~finance
  /\ Return(c, "mark")
  /\ UNCHANGED <<reqVars, busVars, processed, ledger, msg, faults>>

\* GetByOwner of the submitter, and the reasons not to book.
Load(c) ==
  /\ at[c] = "load"
  /\ finance /\ By[msg[c]] \in rows
  /\ LET due == {o \in Target(c, By[msg[c]]) : status[o] = "approved" /\ o \notin ref}
     IN  IF due = {} THEN Return(c, "mark")
         ELSE /\ \E o \in due : item' = [item EXCEPT ![c] = o]
              /\ Goto(c, "create")
              /\ UNCHANGED tries
  /\ UNCHANGED <<reqVars, busVars, processed, ledger, msg, faults>>

\* CreateAPItem.  External: finance holds one item per documentRef, which is
\* "PM-REQ-" and the number; a second one is a 409, which counts as booked.
CreateAPItem(c) ==
  /\ at[c] = "create"
  /\ ledger' = IF ledger[num[msg[c]]] = Nobody
                 THEN [ledger EXCEPT ![num[msg[c]]] = item[c]] ELSE ledger
  /\ Goto(c, "persist")
  /\ UNCHANGED <<reqVars, busVars, processed, msg, tries, item, faults>>

\* The second Mutate records the reference; it resolves once more.
PersistRef(c) ==
  /\ at[c] = "persist"
  /\ \E w \in Resolution(By[msg[c]]) :
       /\ rows' = rows \cup {w}
       /\ ref' = ref \cup Target(c, w)
  /\ Return(c, "mark")
  /\ UNCHANGED <<home, status, num, busVars, processed, ledger, msg, faults>>

-----------------------------------------------------------------------------
Handle(c) == Poison(c) \/ Apply(c) \/ LoadFails(c) \/ NoFinance(c) \/ Load(c)
               \/ CreateAPItem(c) \/ PersistRef(c)

Consume(c) ==
  /\ Fetch(c) \/ Seen(c) \/ Handle(c) \/ Mark(c) \/ DeadLetter(c) \/ Commit(c)
  /\ UNCHANGED finance

Fails(c) ==
  /\ SeenFails(c) \/ HandlerFails(c) \/ MarkFails(c) \/ DeadLetterFails(c)
       \/ Abandon(c)
  /\ UNCHANGED finance

Endpoints ==
  /\ \/ \E o \in Reqs : Create(o) \/ Delete(o) \/ Decide(o)
     \/ \E u \in Users : Visit(u)
  /\ UNCHANGED finance

Next == Endpoints \/ \E c \in Consumers : Consume(c) \/ Fails(c)

Spec == Init /\ [][Next]_vars

\* A replica that runs keeps consuming; nobody has to create, delete, decide
\* or fail.
FairSpec == Spec /\ \A c \in Consumers : WF_vars(Consume(c))

-----------------------------------------------------------------------------
(* Properties.                                                             *)

\* Types of the requisitions, the messages and the consumers.
TypeOK ==
  /\ rows \subseteq Users
  /\ home \in [Reqs -> Users \cup {Nobody}]
  /\ status \in [Reqs -> Statuses]
  /\ num \in [Reqs -> Numbers \cup {0}]
  /\ ref \subseteq Reqs
  /\ decision \in [Reqs -> Decisions]
  /\ processed \subseteq Reqs
  /\ committed \subseteq Reqs
  /\ dlq \subseteq Reqs
  /\ ledger \in [Numbers -> Reqs \cup {Nobody}]
  /\ at \in [Consumers -> Labels]
  /\ msg \in [Consumers -> Reqs \cup {Nobody}]
  /\ tries \in [Consumers -> 0..MaxRetries]
  /\ item \in [Consumers -> Reqs \cup {Nobody}]
  /\ finance \in BOOLEAN
  /\ faults \in 0..MaxFaults

\* The decision about p may be applied in w: the workspace p is in and, for a
\* member who owned none, one of the member's own or any that is shared.
MayLand(p, w) ==
  \/ w = home[p]
  \/ home[p] # By[p] /\ (w = By[p] \/ <<w, By[p]>> \in Sharing)

\* No other requisition whose decision may be applied in this one's workspace
\* has, or had, its number.
Unshared(o) ==
  \A p \in Reqs \ {o} :
    status[p] # "unborn" /\ MayLand(p, home[o]) => num[p] # num[o]

\* A requisition in its submitter's own workspace, with a number of its own.
Own(o) == home[o] = By[o] /\ Unshared(o)

\* An event about an owner's requisition is recorded as processed only when
\* its decision is in the document and, for an approval, the finance reference
\* too, with an item booked under it unless the reference is the client's: no
\* failure, crash or second replica lets an approved requisition pass unbooked
\* while finance is configured.
ProcessedIsApplied ==
  \A o \in processed :
    Own(o) /\ o \in Live =>
      /\ status[o] = decision[o]
      /\ decision[o] = "approved" /\ finance =>
           /\ o \in ref
           /\ o \notin Prebooked => ledger[num[o]] # Nobody

\* "money may have moved on it, and the record is the audit trail of that":
\* what is booked in finance stays in its workspace, approved, also while the
\* consumer is between booking it and recording the reference; whichever
\* workspace the submitter's events are applied in meanwhile.
BookedIsKept ==
  \A n \in Numbers :
    ledger[n] # Nobody /\ Unshared(ledger[n]) =>
      /\ status[ledger[n]] = "approved"
      /\ decision[ledger[n]] = "approved"

\* Every decision is dealt with in the end: applied, or dead-lettered after
\* MaxRetries, so that a message nobody can handle does not hold up the rest.
DecisionIsCommitted ==
  \A o \in Reqs : decision[o] # "none" ~> o \in committed

\* "letting PM find the originating workspace": a processed decision is in the
\* requisition, also for members.  It does not hold: README.md, Findings.
ProcessedFindsOrigin ==
  \A o \in processed : Unshared(o) /\ o \in Live => status[o] = decision[o]

\* "the AP exists, so we record the ref": a requisition with a finance
\* reference is the one booked under that reference.  It does not hold:
\* README.md, Findings.
RefNamesOwnItem ==
  \A o \in ref \ Prebooked : Unshared(o) => ledger[num[o]] = o

-----------------------------------------------------------------------------
(* The inductive invariant behind the safety properties.                   *)

\* A requisition has a number and a workspace from its creation on, and only
\* one that was created is decided.
NumberedFromBirth ==
  \A o \in Reqs :
    /\ status[o] # "unborn" => num[o] \in Numbers /\ home[o] \in rows
    /\ decision[o] # "none" => status[o] # "unborn"

\* The requisitions of a workspace that are there have distinct numbers.
LiveNumbersDiffer ==
  \A o, q \in Live : home[o] = home[q] /\ num[o] = num[q] => o = q

\* The decision about o is in the document and, for an approval, the finance
\* reference too; unless o was withdrawn, its number is not its own or it is
\* not in a workspace of its submitter's own.
Settled(o) ==
  Own(o) /\ o \in Live =>
    /\ status[o] = decision[o]
    /\ decision[o] = "approved" /\ finance => o \in ref

\* What a consumer knows of its message from where it is.
SoundWork(c) ==
  /\ at[c] # "idle" => msg[c] \in Reqs /\ decision[msg[c]] # "none"
  /\ at[c] \in {"load", "create", "persist"} =>
       /\ decision[msg[c]] = "approved"
       /\ Own(msg[c]) => status[msg[c]] \in {"approved", "deleted"}
  /\ at[c] \in {"create", "persist"} =>
       /\ item[c] \in Reqs
       /\ status[item[c]] # "unborn"
       /\ home[item[c]] = By[msg[c]]
       /\ num[item[c]] = num[msg[c]]
       /\ Unshared(item[c]) => status[item[c]] = "approved"
  /\ at[c] = "persist" => ledger[num[msg[c]]] # Nobody
  /\ at[c] = "mark" => Settled(msg[c])

WorkIsSound == \A c \in Consumers : SoundWork(c)

\* The decision of a processed event is settled, and it was published.
ProcessedSettled == \A o \in processed : decision[o] # "none" /\ Settled(o)

\* A reference the backend recorded is that of some item.
RefIsBooked ==
  \A o \in ref :
    status[o] # "unborn" /\ (o \notin Prebooked => ledger[num[o]] # Nobody)

\* What was booked had been created.
BookedWasCreated ==
  \A n \in Numbers : ledger[n] # Nobody => status[ledger[n]] # "unborn"

IndInv ==
  /\ TypeOK
  /\ NumberedFromBirth
  /\ LiveNumbersDiffer
  /\ WorkIsSound
  /\ ProcessedSettled
  /\ RefIsBooked
  /\ BookedWasCreated
  /\ BookedIsKept
=============================================================================
