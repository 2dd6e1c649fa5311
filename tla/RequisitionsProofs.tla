------------------------- MODULE RequisitionsProofs -------------------------
(***************************************************************************)
(* Proofs that the requisition round trip keeps its types, that a          *)
(* processed event about an owner's requisition is applied and booked, and *)
(* that what is booked stays in its workspace, for any number of users,    *)
(* requisitions, consumers and faults and any sharing of workspaces.       *)
(***************************************************************************)
EXTENDS Requisitions, TLAPS

\* Only Create, Delete and Apply write a status, and only Create a number.
LEMMA StatusWriters ==
  ASSUME [Next]_vars
  PROVE  \/ \E o \in Reqs : Create(o)
         \/ \E o \in Reqs : Delete(o)
         \/ \E c \in Consumers : Apply(c)
         \/ UNCHANGED <<status, num, home>>
<1> USE DEF vars, reqVars
<1>1. CASE Endpoints
  BY <1>1 DEF Endpoints, Decide, Visit
<1>2. ASSUME NEW c \in Consumers, Handle(c)
      PROVE  Apply(c) \/ UNCHANGED <<status, num, home>>
  BY <1>2 DEF Handle, Poison, LoadFails, NoFinance, Load, CreateAPItem, PersistRef
<1>3. ASSUME NEW c \in Consumers, Consume(c)
      PROVE  Apply(c) \/ UNCHANGED <<status, num, home>>
  BY <1>2, <1>3 DEF Consume, Fetch, Seen, Mark, DeadLetter, Commit
<1>4. ASSUME NEW c \in Consumers, Fails(c) PROVE UNCHANGED <<status, num, home>>
  BY <1>4 DEF Fails, SeenFails, HandlerFails, MarkFails, DeadLetterFails, Abandon
<1>5. CASE UNCHANGED vars
  BY <1>5
<1>. QED
  BY <1>1, <1>3, <1>4, <1>5 DEF Next

\* Only Decide publishes a decision.
LEMMA DecisionWriters ==
  ASSUME [Next]_vars
  PROVE  (\E o \in Reqs : Decide(o)) \/ UNCHANGED decision
<1> USE DEF vars, busVars
<1>1. CASE Endpoints
  BY <1>1 DEF Endpoints, Create, Delete, Visit
<1>2. ASSUME NEW c \in Consumers, Handle(c) PROVE UNCHANGED decision
  BY <1>2 DEF Handle, Poison, Apply, LoadFails, NoFinance, Load, CreateAPItem, PersistRef
<1>3. ASSUME NEW c \in Consumers, Consume(c) PROVE UNCHANGED decision
  BY <1>2, <1>3 DEF Consume, Fetch, Seen, Mark, DeadLetter, Commit
<1>4. ASSUME NEW c \in Consumers, Fails(c) PROVE UNCHANGED decision
  BY <1>4 DEF Fails, SeenFails, HandlerFails, MarkFails, DeadLetterFails, Abandon
<1>5. CASE UNCHANGED vars
  BY <1>5
<1>. QED
  BY <1>1, <1>3, <1>4, <1>5 DEF Next

\* A decision is published once; a finance reference is never taken back and a
\* workspace never removed.
LEMMA PublishedStays ==
  ASSUME TypeOK, [Next]_vars
  PROVE  /\ \A o \in Reqs : decision[o] # "none" => decision'[o] = decision[o]
         /\ ref \subseteq ref' /\ rows \subseteq rows' /\ finance' = finance
<1> DEFINE Good == /\ \A o \in Reqs : decision[o] # "none" => decision'[o] = decision[o]
                   /\ ref \subseteq ref' /\ rows \subseteq rows' /\ finance' = finance
<1> USE DEF TypeOK, vars, reqVars, busVars
<1>1. CASE Endpoints
  BY <1>1 DEF Endpoints, Create, Delete, Decide, Visit
<1>2. ASSUME NEW c \in Consumers, Handle(c), finance' = finance PROVE Good
  BY <1>2 DEF Handle, Poison, Apply, LoadFails, NoFinance, Load, CreateAPItem, PersistRef
<1>3. ASSUME NEW c \in Consumers, Consume(c) PROVE Good
  BY <1>2, <1>3 DEF Consume, Fetch, Seen, Mark, DeadLetter, Commit
<1>4. ASSUME NEW c \in Consumers, Fails(c) PROVE Good
  BY <1>4 DEF Fails, SeenFails, HandlerFails, MarkFails, DeadLetterFails, Abandon
<1>5. CASE UNCHANGED vars
  BY <1>5
<1>. QED
  BY <1>1, <1>3, <1>4, <1>5 DEF Next

\* Once created, a requisition stays so and keeps its number and its workspace;
\* once deleted, it stays deleted.
LEMMA BornStays ==
  ASSUME TypeOK, WorkIsSound, [Next]_vars, NEW o \in Reqs, status[o] # "unborn"
  PROVE  /\ status'[o] # "unborn"
         /\ num'[o] = num[o] /\ home'[o] = home[o]
         /\ status[o] = "deleted" => status'[o] = "deleted"
<1> USE DEF TypeOK
<1>1. ASSUME NEW q \in Reqs, Create(q)
      PROVE  status'[o] = status[o] /\ num'[o] = num[o] /\ home'[o] = home[o]
  BY <1>1 DEF Create
<1>2. ASSUME NEW q \in Reqs, Delete(q)
      PROVE  /\ status'[o] \in {status[o], "deleted"}
             /\ num'[o] = num[o] /\ home'[o] = home[o]
  BY <1>2 DEF Delete
<1>3. ASSUME NEW c \in Consumers, Apply(c)
      PROVE  /\ status'[o] # "unborn"
             /\ num'[o] = num[o] /\ home'[o] = home[o]
             /\ status[o] = "deleted" => status'[o] = "deleted"
  <2>1. PICK w : status' = [q \in Reqs |->
                    IF q \in Target(c, w) THEN decision[msg[c]] ELSE status[q]]
    BY <1>3 DEF Apply
  <2>2. UNCHANGED <<num, home>> /\ decision[msg[c]] \in Decisions
    BY <1>3 DEF Apply, WorkIsSound, SoundWork
  <2>3. CASE o \in Target(c, w)
    BY <2>1, <2>2, <2>3 DEF Target, Live, Decisions
  <2>4. CASE o \notin Target(c, w)
    BY <2>1, <2>2, <2>4
  <2>. QED
    BY <2>3, <2>4
<1>4. CASE UNCHANGED <<status, num, home>>
  BY <1>4
<1>. QED
  BY <1>1, <1>2, <1>3, <1>4, StatusWriters

\* A requisition whose number is its own after a step had it to itself before.
LEMMA UnsharedBefore ==
  ASSUME TypeOK, WorkIsSound, [Next]_vars, NEW o \in Reqs, status[o] # "unborn",
         Unshared(o)'
  PROVE  Unshared(o)
<1> SUFFICES ASSUME NEW q \in Reqs \ {o}, status[q] # "unborn", MayLand(q, home[o])
             PROVE  num[q] # num[o]
  BY DEF Unshared
<1>1. /\ status'[q] # "unborn" /\ num'[q] = num[q] /\ home'[q] = home[q]
      /\ num'[o] = num[o] /\ home'[o] = home[o]
  BY BornStays
<1>2. MayLand(q, home[o])'
  BY <1>1 DEF MayLand
<1>. QED
  BY <1>1, <1>2 DEF Unshared

\* What is an owner's own after a step was so before.
LEMMA OwnBefore ==
  ASSUME TypeOK, WorkIsSound, [Next]_vars, NEW o \in Reqs, status[o] # "unborn",
         Own(o)'
  PROVE  Own(o)
  BY UnsharedBefore, BornStays DEF Own

\* Mutate resolves to a workspace where the decision may land, and for an
\* owner's requisition to the one it is in.
LEMMA LandsWhereItMay ==
  ASSUME NumberedFromBirth, NEW p \in Reqs, status[p] # "unborn",
         NEW w \in Resolution(By[p])
  PROVE  MayLand(p, w) /\ (home[p] = By[p] => w = home[p])
  BY DEF NumberedFromBirth, Resolution, MayLand

\* A decision that changes a requisition with a number of its own is the one
\* about that requisition.
LEMMA TargetIsOwn ==
  ASSUME WorkIsSound, NumberedFromBirth, NEW c \in Consumers, at[c] # "idle",
         NEW w \in Resolution(By[msg[c]]), NEW o \in Target(c, w), Unshared(o)
  PROVE  o = msg[c]
<1>1. msg[c] \in Reqs /\ status[msg[c]] # "unborn"
  BY DEF WorkIsSound, SoundWork, NumberedFromBirth
<1>2. o \in Reqs /\ home[o] = w /\ num[o] = num[msg[c]]
  BY DEF Target, Live
<1>3. MayLand(msg[c], home[o])
  BY <1>1, <1>2, LandsWhereItMay
<1>. QED
  BY <1>1, <1>2, <1>3 DEF Unshared

\* An approval that is in the document is not overwritten and not removed.
LEMMA ApprovedStays ==
  ASSUME TypeOK, WorkIsSound, NumberedFromBirth, [Next]_vars,
         NEW o \in Reqs, Unshared(o), status[o] = "approved", decision[o] = "approved"
  PROVE  status'[o] = "approved"
<1> USE DEF TypeOK
<1>1. ASSUME NEW q \in Reqs, Create(q) PROVE status'[o] = "approved"
  BY <1>1 DEF Create
<1>2. ASSUME NEW q \in Reqs, Delete(q) PROVE status'[o] = "approved"
  BY <1>2 DEF Delete, MayRemove
<1>3. ASSUME NEW c \in Consumers, Apply(c) PROVE status'[o] = "approved"
  <2>1. PICK w \in Resolution(By[msg[c]]) : status' = [q \in Reqs |->
          IF q \in Target(c, w) THEN decision[msg[c]] ELSE status[q]]
    BY <1>3 DEF Apply
  <2>2. ASSUME o \in Target(c, w) PROVE o = msg[c]
    BY <1>3, <2>2, TargetIsOwn DEF Apply
  <2>. QED
    BY <2>1, <2>2
<1>4. CASE UNCHANGED <<status, num, home>>
  BY <1>4
<1>. QED
  BY <1>1, <1>2, <1>3, <1>4, StatusWriters

\* A decision that is settled stays settled, whatever is delivered again.
LEMMA SettledStays ==
  ASSUME TypeOK, WorkIsSound, NumberedFromBirth, [Next]_vars,
         NEW o \in Reqs, decision[o] # "none", Settled(o)
  PROVE  Settled(o)'
<1> SUFFICES ASSUME Own(o)', (o \in Live)'
             PROVE  /\ status'[o] = decision'[o]
                    /\ decision'[o] = "approved" /\ finance' => o \in ref'
  BY DEF Settled
<1>1. status[o] # "unborn"
  BY DEF NumberedFromBirth
<1>2. Own(o) /\ Unshared(o) /\ o \in Live
  BY <1>1, OwnBefore, BornStays DEF Live, Own
<1>3. status[o] = decision[o] /\ (decision[o] = "approved" /\ finance => o \in ref)
  BY <1>2 DEF Settled
<1>4. decision'[o] = decision[o] /\ ref \subseteq ref' /\ finance' = finance
  BY PublishedStays
<1>5. status'[o] = status[o]
  <2> USE DEF TypeOK
  <2>1. ASSUME NEW q \in Reqs, Create(q) PROVE status'[o] = status[o]
    BY <2>1, <1>1 DEF Create
  <2>2. ASSUME NEW q \in Reqs, Delete(q) PROVE status'[o] = status[o]
    BY <2>2 DEF Delete, Live
  <2>3. ASSUME NEW c \in Consumers, Apply(c) PROVE status'[o] = status[o]
    <3>1. PICK w \in Resolution(By[msg[c]]) : status' = [q \in Reqs |->
            IF q \in Target(c, w) THEN decision[msg[c]] ELSE status[q]]
      BY <2>3 DEF Apply
    <3>2. ASSUME o \in Target(c, w) PROVE o = msg[c]
      BY <2>3, <3>2, <1>2, TargetIsOwn DEF Apply
    <3>. QED
      BY <3>1, <3>2, <1>3
  <2>4. CASE UNCHANGED <<status, num, home>>
    BY <2>4
  <2>. QED
    BY <2>1, <2>2, <2>3, <2>4, StatusWriters
<1>. QED
  BY <1>3, <1>4, <1>5

\* Numbers are given at creation, and procurement decides what was created.
LEMMA NumberedStep ==
  ASSUME TypeOK, WorkIsSound, NumberedFromBirth, [Next]_vars
  PROVE  NumberedFromBirth'
<1>1. ASSUME NEW o \in Reqs, status'[o] # "unborn"
      PROVE  num'[o] \in Numbers /\ home'[o] \in rows'
  <2>1. CASE status[o] # "unborn"
    BY <2>1, BornStays, PublishedStays DEF NumberedFromBirth
  <2>2. CASE status[o] = "unborn"
    <3> USE DEF TypeOK
    <3>1. ASSUME NEW q \in Reqs, Create(q)
          PROVE  num'[o] \in Numbers /\ home'[o] \in rows'
      <4>1. q = o
        BY <3>1, <2>2, <1>1 DEF Create
      <4>. QED
        BY <3>1, <4>1 DEF Create
    <3>2. ASSUME NEW q \in Reqs, Delete(q) PROVE FALSE
      BY <3>2, <2>2, <1>1 DEF Delete, MayRemove, Live
    <3>3. ASSUME NEW c \in Consumers, Apply(c) PROVE FALSE
      BY <3>3, <2>2, <1>1 DEF Apply, Target, Live
    <3>4. CASE UNCHANGED <<status, num, home>>
      BY <3>4, <2>2, <1>1
    <3>. QED
      BY <3>1, <3>2, <3>3, <3>4, StatusWriters
  <2>. QED
    BY <2>1, <2>2
<1>2. ASSUME NEW o \in Reqs, decision'[o] # "none" PROVE status[o] # "unborn"
  <2>1. ASSUME NEW q \in Reqs, Decide(q) PROVE status[o] # "unborn"
    BY <2>1, <1>2 DEF Decide, TypeOK, NumberedFromBirth
  <2>2. CASE UNCHANGED decision
    BY <2>2, <1>2 DEF NumberedFromBirth
  <2>. QED
    BY <2>1, <2>2, DecisionWriters
<1>. QED
  BY <1>1, <1>2, BornStays DEF NumberedFromBirth

\* createRequisition gives a number above every one in the workspace.
LEMMA DifferStep ==
  ASSUME TypeOK, WorkIsSound, LiveNumbersDiffer, [Next]_vars
  PROVE  LiveNumbersDiffer'
<1> USE DEF TypeOK
<1>1. ASSUME NEW o \in Reqs, Create(o) PROVE LiveNumbersDiffer'
  <2>1. PICK w \in Resolution(By[o]), n \in Numbers :
          /\ IsNextID(n, w)
          /\ home' = [home EXCEPT ![o] = w]
          /\ num' = [num EXCEPT ![o] = n]
    BY <1>1 DEF Create
  <2>2. Live' = Live \cup {o} /\ o \notin Live
    BY <1>1 DEF Create, Live
  <2>3. \A q \in Live : /\ num'[q] = num[q] /\ home'[q] = home[q]
                        /\ home[q] = w => num[q] < n
    BY <2>1, <2>2 DEF IsNextID, Live
  <2>4. num'[o] = n /\ home'[o] = w /\ n \in Nat
    BY <2>1 DEF Numbers
  <2>5. \A q \in Live : num[q] \in Nat
    BY DEF Live, Numbers
  <2>. QED
    BY <2>2, <2>3, <2>4, <2>5 DEF LiveNumbersDiffer
<1>2. ASSUME NEW o \in Reqs, Delete(o) PROVE LiveNumbersDiffer'
  BY <1>2 DEF Delete, LiveNumbersDiffer, Live
<1>3. ASSUME NEW c \in Consumers, Apply(c) PROVE LiveNumbersDiffer'
  <2>1. Live' \subseteq Live
    BY <1>3, BornStays DEF Apply, Live, Target
  <2>. QED
    BY <1>3, <2>1 DEF Apply, LiveNumbersDiffer, Live
<1>4. CASE UNCHANGED <<status, num, home>>
  BY <1>4 DEF LiveNumbersDiffer, Live
<1>. QED
  BY <1>1, <1>2, <1>3, <1>4, StatusWriters

\* Every endpoint, consumer step and failure keeps the types.
LEMMA TypeStep ==
  ASSUME TypeOK, WorkIsSound, [Next]_vars
  PROVE  TypeOK'
<1> USE ReqsAssumption DEF TypeOK, reqVars, busVars, workVars
<1>1. ASSUME NEW o \in Reqs, Create(o), finance' = finance PROVE TypeOK'
  <2>1. PICK w \in Resolution(By[o]), n \in Numbers :
          /\ rows' = rows \cup {w}
          /\ home' = [home EXCEPT ![o] = w]
          /\ num' = [num EXCEPT ![o] = n]
    BY <1>1 DEF Create
  <2>2. w \in Users
    BY DEF Resolution
  <2>. QED
    BY <1>1, <2>1, <2>2 DEF Create, Statuses
<1>2. ASSUME NEW o \in Reqs, Delete(o), finance' = finance PROVE TypeOK'
  BY <1>2 DEF Delete, Statuses
<1>3. ASSUME NEW o \in Reqs, Decide(o), finance' = finance PROVE TypeOK'
  <2>1. PICK d \in Decisions : decision' = [decision EXCEPT ![o] = d]
    BY <1>3 DEF Decide
  <2>. QED
    BY <1>3, <2>1 DEF Decide
<1>4. ASSUME NEW c \in Consumers, Fetch(c), finance' = finance PROVE TypeOK'
  <2>1. PICK o \in Reqs : /\ msg' = [msg EXCEPT ![c] = o]
                          /\ Fault \/ UNCHANGED faults
    BY <1>4 DEF Fetch
  <2>. QED
    BY <1>4, <2>1 DEF Fetch, Fault, Goto, Labels
<1>5. ASSUME NEW c \in Consumers, Seen(c), finance' = finance PROVE TypeOK'
  BY <1>5 DEF Seen, Goto, Labels
<1>6. ASSUME NEW c \in Consumers, Poison(c), finance' = finance PROVE TypeOK'
  BY <1>6 DEF Poison, Return, Goto, Labels
<1>7. ASSUME NEW c \in Consumers, Apply(c), finance' = finance PROVE TypeOK'
  <2>1. msg[c] \in Reqs /\ decision[msg[c]] \in Statuses
    BY <1>7 DEF Apply, WorkIsSound, SoundWork, Decisions, Statuses
  <2>2. status' \in [Reqs -> Statuses]
    BY <1>7, <2>1 DEF Apply
  <2>3. rows' \subseteq Users
    BY <1>7, <2>1 DEF Apply, Resolution
  <2>. QED
    BY <1>7, <2>2, <2>3 DEF Apply, Return, Goto, Labels
<1>8. ASSUME NEW c \in Consumers, LoadFails(c), finance' = finance PROVE TypeOK'
  BY <1>8 DEF LoadFails, Retry, Return, Goto, Labels
<1>9. ASSUME NEW c \in Consumers, Load(c), finance' = finance PROVE TypeOK'
  <2> DEFINE due == {o \in Target(c, By[msg[c]]) : status[o] = "approved" /\ o \notin ref}
  <2>1. CASE due = {}
    BY <1>9, <2>1 DEF Load, Return, Goto, Labels
  <2>2. CASE due # {}
    <3>1. PICK o \in Reqs : item' = [item EXCEPT ![c] = o]
      BY <1>9, <2>2 DEF Load, Target, Live
    <3>. QED
      BY <1>9, <2>2, <3>1 DEF Load, Goto, Labels
  <2>. QED
    BY <2>1, <2>2
<1>10. ASSUME NEW c \in Consumers, CreateAPItem(c), finance' = finance PROVE TypeOK'
  <2>1. ledger' \in [Numbers -> Reqs \cup {Nobody}]
    BY <1>10 DEF CreateAPItem
  <2>. QED
    BY <1>10, <2>1 DEF CreateAPItem, Goto, Labels
<1>11. ASSUME NEW c \in Consumers, PersistRef(c), finance' = finance PROVE TypeOK'
  <2>1. msg[c] \in Reqs
    BY <1>11 DEF PersistRef, WorkIsSound, SoundWork
  <2>2. rows' \subseteq Users /\ ref' \subseteq Reqs
    BY <1>11, <2>1 DEF PersistRef, Resolution, Target, Live
  <2>. QED
    BY <1>11, <2>2 DEF PersistRef, Return, Goto, Labels
<1>12. ASSUME NEW c \in Consumers, Mark(c), finance' = finance PROVE TypeOK'
  BY <1>12 DEF Mark, Goto, Labels, WorkIsSound, SoundWork
<1>13. ASSUME NEW c \in Consumers, DeadLetter(c), finance' = finance PROVE TypeOK'
  BY <1>13 DEF DeadLetter, Goto, Labels, WorkIsSound, SoundWork
<1>14. ASSUME NEW c \in Consumers, Commit(c), finance' = finance PROVE TypeOK'
  <2>1. msg[c] \in Reqs
    BY <1>14 DEF Commit, WorkIsSound, SoundWork
  <2>. QED
    BY <1>14, <2>1 DEF Commit, Leave, Return, Goto, Labels
<1>15. ASSUME NEW c \in Consumers, SeenFails(c), finance' = finance PROVE TypeOK'
  BY <1>15 DEF SeenFails, Fault, Goto, Labels
<1>16. ASSUME NEW c \in Consumers, HandlerFails(c), finance' = finance PROVE TypeOK'
  BY <1>16 DEF HandlerFails, Fault, Retry, Return, Goto, Labels
<1>17. ASSUME NEW c \in Consumers, MarkFails(c), finance' = finance PROVE TypeOK'
  BY <1>17 DEF MarkFails, Fault, Goto, Labels
<1>18. ASSUME NEW c \in Consumers, DeadLetterFails(c), finance' = finance PROVE TypeOK'
  BY <1>18 DEF DeadLetterFails, Fault, Goto, Labels
<1>19. ASSUME NEW c \in Consumers, Abandon(c), finance' = finance PROVE TypeOK'
  BY <1>19 DEF Abandon, Fault, Leave, Return, Goto, Labels
<1>20. CASE UNCHANGED vars
  BY <1>20 DEF vars
<1>21. ASSUME NEW u \in Users, Visit(u), finance' = finance PROVE TypeOK'
  BY <1>21 DEF Visit
<1>22. ASSUME NEW c \in Consumers, NoFinance(c), finance' = finance PROVE TypeOK'
  BY <1>22 DEF NoFinance, Return, Goto, Labels
<1> HIDE DEF TypeOK, reqVars, busVars, workVars
<1>. QED
  BY <1>1, <1>2, <1>3, <1>4, <1>5, <1>6, <1>7, <1>8, <1>9, <1>10, <1>11,
     <1>12, <1>13, <1>14, <1>15, <1>16, <1>17, <1>18, <1>19, <1>20, <1>21, <1>22
  DEF Next, Endpoints, Consume, Handle, Fails

\* A step is one consumer's, and leaves what the others are doing alone.
LEMMA OneMoves ==
  ASSUME TypeOK, [Next]_vars
  PROVE  \/ UNCHANGED <<at, msg, item>>
         \/ \E c \in Consumers :
              /\ Consume(c) \/ Fails(c)
              /\ \A d \in Consumers \ {c} :
                   at'[d] = at[d] /\ msg'[d] = msg[d] /\ item'[d] = item[d]
<1> USE DEF TypeOK, workVars, Goto, Return, Leave
<1>1. CASE Endpoints
  BY <1>1 DEF Endpoints, Create, Delete, Decide, Visit
<1>2. ASSUME NEW c \in Consumers, Handle(c), NEW d \in Consumers \ {c}
      PROVE  at'[d] = at[d] /\ msg'[d] = msg[d] /\ item'[d] = item[d]
  BY <1>2 DEF Handle, Poison, Apply, LoadFails, NoFinance, Retry, Load, CreateAPItem, PersistRef
<1>3. ASSUME NEW c \in Consumers, Consume(c), NEW d \in Consumers \ {c}
      PROVE  at'[d] = at[d] /\ msg'[d] = msg[d] /\ item'[d] = item[d]
  BY <1>2, <1>3 DEF Consume, Fetch, Seen, Mark, DeadLetter, Commit
<1>4. ASSUME NEW c \in Consumers, Fails(c), NEW d \in Consumers \ {c}
      PROVE  at'[d] = at[d] /\ msg'[d] = msg[d] /\ item'[d] = item[d]
  BY <1>4 DEF Fails, SeenFails, HandlerFails, Retry, MarkFails, DeadLetterFails, Abandon
<1>5. CASE UNCHANGED vars
  BY <1>5 DEF vars
<1> HIDE DEF TypeOK, workVars, Goto, Return, Leave
<1>. QED
  BY <1>1, <1>3, <1>4, <1>5 DEF Next

\* What finance holds stays there.
LEMMA LedgerStays ==
  ASSUME TypeOK, [Next]_vars, NEW n \in Numbers, ledger[n] # Nobody
  PROVE  ledger'[n] = ledger[n]
<1> USE DEF TypeOK
<1>1. CASE Endpoints
  BY <1>1 DEF Endpoints, Create, Delete, Decide, Visit
<1>2. ASSUME NEW c \in Consumers, Handle(c) PROVE ledger'[n] = ledger[n]
  BY <1>2 DEF Handle, Poison, Apply, LoadFails, NoFinance, Load, CreateAPItem, PersistRef
<1>3. ASSUME NEW c \in Consumers, Consume(c) PROVE ledger'[n] = ledger[n]
  BY <1>2, <1>3 DEF Consume, Fetch, Seen, Mark, DeadLetter, Commit
<1>4. ASSUME NEW c \in Consumers, Fails(c) PROVE ledger'[n] = ledger[n]
  BY <1>4 DEF Fails, SeenFails, HandlerFails, MarkFails, DeadLetterFails, Abandon
<1>5. CASE UNCHANGED vars
  BY <1>5 DEF vars
<1>. QED
  BY <1>1, <1>3, <1>4, <1>5 DEF Next

\* A requisition read for booking whose number is its own is the message's.
LEMMA BookedIsMessage ==
  ASSUME NEW m \in Reqs, NEW x \in Reqs, status[m] # "unborn",
         home[x] = By[m], num[x] = num[m], Unshared(x)
  PROVE  x = m
  BY DEF Unshared, MayLand

\* What a consumer knows stays true while others, and the endpoints, move.
LEMMA Undisturbed ==
  ASSUME TypeOK, WorkIsSound, NumberedFromBirth, [Next]_vars, NEW c \in Consumers,
         at'[c] = at[c], msg'[c] = msg[c], item'[c] = item[c]
  PROVE  SoundWork(c)'
<1>1. SoundWork(c)
  BY DEF WorkIsSound
<1>2. CASE at[c] = "idle"
  BY <1>2 DEF SoundWork
<1>3. CASE at[c] # "idle"
  <2>1. PICK m \in Reqs : m = msg[c]
    BY <1>1, <1>3 DEF SoundWork
  <2>2. decision[m] # "none" /\ status[m] # "unborn" /\ decision'[m] = decision[m]
    BY <1>1, <1>3, <2>1, PublishedStays DEF SoundWork, NumberedFromBirth
  <2>3. ASSUME at[c] \in {"load", "create", "persist"}, Own(m)'
        PROVE  status'[m] \in {"approved", "deleted"}
    <3>1. Own(m) /\ Unshared(m) /\ decision[m] = "approved"
      BY <1>1, <2>1, <2>2, <2>3, OwnBefore DEF SoundWork, Own
    <3>2. status[m] \in {"approved", "deleted"}
      BY <1>1, <2>1, <2>3, <3>1 DEF SoundWork
    <3>. QED
      BY <2>2, <3>1, <3>2, ApprovedStays, BornStays
  <2>4. ASSUME at[c] \in {"create", "persist"}
        PROVE  /\ item[c] \in Reqs
               /\ status'[item[c]] # "unborn"
               /\ home'[item[c]] = By[m]
               /\ num'[item[c]] = num'[m]
               /\ Unshared(item[c])' => status'[item[c]] = "approved"
    <3>1. PICK x \in Reqs : x = item[c]
      BY <1>1, <2>4 DEF SoundWork
    <3>2. /\ status[x] # "unborn" /\ home[x] = By[m] /\ num[x] = num[m]
          /\ Unshared(x) => status[x] = "approved"
          /\ decision[m] = "approved"
      BY <1>1, <2>1, <2>4, <3>1 DEF SoundWork
    <3>3. Unshared(x) => x = m
      BY <2>2, <3>2, BookedIsMessage
    <3>4. ASSUME Unshared(x)' PROVE status'[x] = "approved"
      BY <3>2, <3>3, <3>4, UnsharedBefore, ApprovedStays
    <3>5. Unshared(item[c])' => Unshared(x)'
      BY <3>1 DEF Unshared
    <3>. QED
      BY <2>2, <3>1, <3>2, <3>4, <3>5, BornStays
  <2>5. ASSUME at[c] = "mark" PROVE Settled(m)'
    BY <1>1, <2>1, <2>2, <2>5, SettledStays DEF SoundWork
  <2>6. ASSUME at[c] = "persist" PROVE ledger'[num'[m]] # Nobody
    <3>1. ledger[num[m]] # Nobody /\ num'[m] = num[m] /\ num[m] \in Numbers
      BY <1>1, <2>1, <2>2, <2>6, BornStays DEF SoundWork, NumberedFromBirth
    <3>. QED
      BY <3>1, LedgerStays
  <2>7. (Own(msg[c]) <=> Own(m))' /\ (Settled(msg[c]) <=> Settled(m))'
    BY <2>1
  <2>8. /\ at[c] \in {"load", "create", "persist"} => decision'[m] = "approved"
        /\ decision'[m] # "none"
    BY <1>1, <2>1, <2>2 DEF SoundWork
  <2>. QED
    BY <2>1, <2>3, <2>4, <2>5, <2>6, <2>7, <2>8 DEF SoundWork
<1>. QED
  BY <1>2, <1>3

\* The acting consumer has moved to a place where only its message matters.
LEMMA PlainPlace ==
  ASSUME TypeOK, WorkIsSound, [Next]_vars, NEW c \in Consumers,
         \/ at'[c] = "idle"
         \/ /\ at'[c] \in {"fetched", "apply", "dlq", "commit"}
            /\ at[c] # "idle"
            /\ msg'[c] = msg[c]
  PROVE  SoundWork(c)'
  BY PublishedStays DEF SoundWork, WorkIsSound

\* Each step leaves the consumer that takes it where it knows what it needs.
LEMMA MoverStep ==
  ASSUME TypeOK, WorkIsSound, NumberedFromBirth, [Next]_vars,
         NEW c \in Consumers, Consume(c) \/ Fails(c)
  PROVE  SoundWork(c)'
<1>0. SoundWork(c)
  BY DEF WorkIsSound
<1> USE DEF TypeOK, reqVars, busVars, Goto
<1>1. CASE Fetch(c)
  BY <1>1 DEF Fetch, SoundWork
<1>2. CASE Apply(c)
  <2>1. PICK m \in Reqs : m = msg[c] /\ msg'[c] = m /\ decision[m] # "none"
                            /\ decision' = decision /\ status[m] # "unborn"
    BY <1>0, <1>2 DEF SoundWork, Apply, NumberedFromBirth
  <2>2. PICK w \in Resolution(By[m]), found \in BOOLEAN :
          /\ Target(c, w) # {} => found
          /\ status' = [o \in Reqs |-> IF o \in Target(c, w) THEN decision[m] ELSE status[o]]
          /\ IF found /\ decision[m] = "approved"
               THEN Goto(c, "load") /\ UNCHANGED <<tries, item>>
               ELSE Return(c, "mark")
    BY <1>2, <2>1 DEF Apply
  <2>3. Own(m)' => home[m] = w
    BY <2>1, OwnBefore, LandsWhereItMay DEF Own
  <2>4. Own(m)' /\ m \in Live => m \in Target(c, w)
    BY <2>1, <2>3 DEF Target
  <2>5. (m \in Live)' => m \in Live
    BY <2>1, BornStays DEF Live
  <2>6. CASE found /\ decision[m] = "approved"
    <3>1. at'[c] = "load"
      BY <1>2, <2>2, <2>6 DEF Apply
    <3>2. Own(m)' => status'[m] \in {"approved", "deleted"}
      BY <2>1, <2>2, <2>4, <2>6 DEF Live
    <3>3. (Own(msg[c]) <=> Own(m))'
      BY <2>1
    <3>. QED
      BY <2>1, <2>6, <3>1, <3>2, <3>3 DEF SoundWork
  <2>7. CASE ~(found /\ decision[m] = "approved")
    <3>1. at'[c] = "mark"
      BY <1>2, <2>2, <2>7 DEF Apply, Return
    <3>2. Settled(m)'
      BY <2>1, <2>2, <2>4, <2>5, <2>7 DEF Settled
    <3>3. (Settled(msg[c]) <=> Settled(m))'
      BY <2>1
    <3>. QED
      BY <2>1, <3>1, <3>2, <3>3 DEF SoundWork
  <2>. QED
    BY <2>6, <2>7
<1>3. CASE Load(c) \/ NoFinance(c)
  <2>1. PICK m \in Reqs : /\ m = msg[c] /\ msg'[c] = m /\ decision[m] = "approved"
                          /\ Own(m) => status[m] \in {"approved", "deleted"}
    BY <1>0, <1>3 DEF SoundWork, Load, NoFinance
  <2>2. UNCHANGED <<status, num, ref, home, decision, finance>>
    BY <1>3, PublishedStays DEF Load, NoFinance
  <2>3. /\ (Own(m) <=> Own(m)') /\ (Own(msg[c]) <=> Own(m))'
        /\ (Settled(m) => Settled(m)') /\ (Settled(msg[c]) <=> Settled(m))'
    BY <2>1, <2>2 DEF Own, Unshared, MayLand, Settled, Live
  <2> DEFINE due == {o \in Target(c, By[m]) : status[o] = "approved" /\ o \notin ref}
  <2>4. CASE ~finance \/ due = {}
    <3>1. at'[c] = "mark"
      BY <1>3, <2>1, <2>4 DEF Load, NoFinance, Return
    <3>2. Settled(m)
      BY <2>1, <2>4 DEF Settled, Target, Own, Live
    <3>. QED
      BY <2>1, <2>2, <2>3, <3>1, <3>2 DEF SoundWork
  <2>5. CASE finance /\ due # {}
    <3>1. PICK o \in due : item' = [item EXCEPT ![c] = o]
      BY <1>3, <2>1, <2>5 DEF Load, NoFinance
    <3>2. at'[c] = "create" /\ item'[c] = o
      BY <1>3, <2>1, <2>5, <3>1 DEF Load, NoFinance
    <3>3. o \in Reqs /\ status[o] = "approved" /\ home[o] = By[m] /\ num[o] = num[m]
      BY <2>1, <3>1 DEF Target, Live
    <3>. QED
      BY <2>1, <2>2, <2>3, <3>2, <3>3 DEF SoundWork
  <2>. QED
    BY <2>4, <2>5
<1>4. CASE CreateAPItem(c)
  <2>1. PICK m \in Reqs : m = msg[c] /\ msg'[c] = m /\ decision[m] = "approved"
    BY <1>0, <1>4 DEF SoundWork, CreateAPItem
  <2>2. /\ UNCHANGED <<status, num, ref, home, decision>> /\ item' = item
        /\ at[c] = "create" /\ at'[c] = "persist"
    BY <1>4 DEF CreateAPItem
  <2>3. num[m] \in Numbers /\ item[c] \in Reqs /\ item[c] # Nobody
    BY <1>0, <2>1, <2>2, ReqsAssumption DEF SoundWork, NumberedFromBirth
  <2>4. ledger'[num[m]] # Nobody
    BY <1>4, <2>1, <2>3 DEF CreateAPItem
  <2>5. /\ (Own(m) <=> Own(m)') /\ (Own(msg[c]) <=> Own(m))'
        /\ (Unshared(item[c]) <=> Unshared(item[c])')
    BY <2>1, <2>2 DEF Own, Unshared, MayLand
  <2>. QED
    BY <1>0, <2>1, <2>2, <2>4, <2>5 DEF SoundWork
<1>5. CASE PersistRef(c)
  <2>1. PICK m \in Reqs : /\ m = msg[c] /\ msg'[c] = m /\ decision[m] = "approved"
                          /\ status[m] # "unborn"
                          /\ Own(m) => status[m] \in {"approved", "deleted"}
    BY <1>0, <1>5 DEF SoundWork, PersistRef, NumberedFromBirth
  <2>2. PICK w \in Resolution(By[m]) : ref' = ref \cup Target(c, w)
    BY <1>5, <2>1 DEF PersistRef
  <2>3. UNCHANGED <<status, num, home, decision>> /\ at'[c] = "mark"
    BY <1>5 DEF PersistRef, Return
  <2>4. Own(m) => m \notin Live \/ m \in Target(c, w)
    BY <2>1, LandsWhereItMay DEF Own, Target
  <2>5. (Own(m) <=> Own(m)') /\ Live' = Live /\ (Settled(msg[c]) <=> Settled(m))'
    BY <2>1, <2>3 DEF Own, Unshared, MayLand, Live
  <2>6. Settled(m)'
    BY <2>1, <2>2, <2>3, <2>4, <2>5 DEF Settled, Live
  <2>. QED
    BY <2>1, <2>3, <2>5, <2>6 DEF SoundWork
<1>6. CASE Seen(c) \/ Poison(c) \/ LoadFails(c) \/ Mark(c) \/ DeadLetter(c)
  BY <1>6, PlainPlace DEF Seen, Poison, LoadFails, Retry, Return, Mark, DeadLetter
<1>7. CASE Commit(c) \/ Abandon(c)
  BY <1>7, PlainPlace DEF Commit, Abandon, Leave, Return
<1>8. CASE SeenFails(c) \/ HandlerFails(c) \/ MarkFails(c) \/ DeadLetterFails(c)
  BY <1>8, PlainPlace
  DEF SeenFails, HandlerFails, Handling, Retry, Return, MarkFails, DeadLetterFails
<1> HIDE DEF TypeOK, reqVars, busVars, Goto
<1>. QED
  BY <1>1, <1>2, <1>3, <1>4, <1>5, <1>6, <1>7, <1>8 DEF Consume, Handle, Fails

\* Every consumer knows what it needs after every step.
LEMMA WorkStep ==
  ASSUME TypeOK, WorkIsSound, NumberedFromBirth, [Next]_vars
  PROVE  WorkIsSound'
<1> SUFFICES ASSUME NEW d \in Consumers PROVE SoundWork(d)'
  BY DEF WorkIsSound
<1>1. CASE UNCHANGED <<at, msg, item>>
  BY <1>1, Undisturbed
<1>2. ASSUME NEW c \in Consumers, Consume(c) \/ Fails(c),
             \A e \in Consumers \ {c} :
               at'[e] = at[e] /\ msg'[e] = msg[e] /\ item'[e] = item[e]
      PROVE  SoundWork(d)'
  <2>1. CASE d = c
    BY <1>2, <2>1, MoverStep
  <2>2. CASE d # c
    BY <1>2, <2>2, Undisturbed
  <2>. QED
    BY <2>1, <2>2
<1>. QED
  BY <1>1, <1>2, OneMoves

\* Dedupe.Mark records an event only when its decision is settled.
LEMMA ProcessedStep ==
  ASSUME TypeOK, WorkIsSound, NumberedFromBirth, ProcessedSettled, [Next]_vars
  PROVE  ProcessedSettled'
<1>1. \/ UNCHANGED processed
      \/ \E c \in Consumers : at[c] = "mark" /\ processed' = processed \cup {msg[c]}
  <2>1. CASE Endpoints
    BY <2>1 DEF Endpoints, Create, Delete, Decide, Visit
  <2>2. ASSUME NEW c \in Consumers, Handle(c) PROVE UNCHANGED processed
    BY <2>2 DEF Handle, Poison, Apply, LoadFails, NoFinance, Load, CreateAPItem, PersistRef
  <2>3. ASSUME NEW c \in Consumers, Consume(c)
        PROVE  \/ UNCHANGED processed
               \/ at[c] = "mark" /\ processed' = processed \cup {msg[c]}
    BY <2>2, <2>3 DEF Consume, Fetch, Seen, Mark, DeadLetter, Commit
  <2>4. ASSUME NEW c \in Consumers, Fails(c) PROVE UNCHANGED processed
    BY <2>4 DEF Fails, SeenFails, HandlerFails, MarkFails, DeadLetterFails, Abandon
  <2>5. CASE UNCHANGED vars
    BY <2>5 DEF vars
  <2>. QED
    BY <2>1, <2>3, <2>4, <2>5 DEF Next
<1>2. ASSUME NEW o \in processed' PROVE o \in Reqs /\ decision[o] # "none" /\ Settled(o)
  <2>1. CASE o \in processed
    BY <2>1 DEF TypeOK, ProcessedSettled
  <2>2. CASE o \notin processed
    BY <1>1, <1>2, <2>2 DEF WorkIsSound, SoundWork
  <2>. QED
    BY <2>1, <2>2
<1>. QED
  BY <1>2, SettledStays, PublishedStays DEF ProcessedSettled

\* CreateAPItem books a requisition that was created and, if its number is its
\* own, approved; nothing else writes the ledger.
LEMMA LedgerWrites ==
  ASSUME TypeOK, WorkIsSound, NumberedFromBirth, BookedWasCreated, BookedIsKept,
         [Next]_vars, NEW n \in Numbers, ledger'[n] # Nobody
  PROVE  /\ ledger'[n] \in Reqs
         /\ status[ledger'[n]] # "unborn"
         /\ Unshared(ledger'[n]) => /\ status[ledger'[n]] = "approved"
                                    /\ decision[ledger'[n]] = "approved"
<1>1. \/ UNCHANGED ledger
      \/ \E c \in Consumers : CreateAPItem(c)
  <2>1. CASE Endpoints
    BY <2>1 DEF Endpoints, Create, Delete, Decide, Visit
  <2>2. ASSUME NEW c \in Consumers, Handle(c)
        PROVE  UNCHANGED ledger \/ CreateAPItem(c)
    BY <2>2 DEF Handle, Poison, Apply, LoadFails, NoFinance, Load, PersistRef
  <2>3. ASSUME NEW c \in Consumers, Consume(c)
        PROVE  UNCHANGED ledger \/ CreateAPItem(c)
    BY <2>2, <2>3 DEF Consume, Fetch, Seen, Mark, DeadLetter, Commit
  <2>4. ASSUME NEW c \in Consumers, Fails(c) PROVE UNCHANGED ledger
    BY <2>4 DEF Fails, SeenFails, HandlerFails, MarkFails, DeadLetterFails, Abandon
  <2>5. CASE UNCHANGED vars
    BY <2>5 DEF vars
  <2>. QED
    BY <2>1, <2>3, <2>4, <2>5 DEF Next
<1>2. CASE ledger'[n] = ledger[n]
  BY <1>2 DEF TypeOK, BookedWasCreated, BookedIsKept
<1>3. CASE ledger'[n] # ledger[n]
  <2>1. PICK c \in Consumers : CreateAPItem(c)
    BY <1>1, <1>3
  <2>2. ledger'[n] = item[c]
    BY <1>3, <2>1 DEF CreateAPItem, TypeOK
  <2>3. SoundWork(c) /\ at[c] = "create"
    BY <2>1 DEF CreateAPItem, WorkIsSound
  <2>4. msg[c] \in Reqs /\ status[msg[c]] # "unborn" /\ item[c] \in Reqs
          /\ status[item[c]] # "unborn"
    BY <2>3 DEF SoundWork, NumberedFromBirth
  <2>5. Unshared(item[c]) => item[c] = msg[c]
    BY <2>3, <2>4, BookedIsMessage DEF SoundWork
  <2>. QED
    BY <2>2, <2>3, <2>4, <2>5 DEF SoundWork
<1>. QED
  BY <1>2, <1>3

\* What is booked stays approved.
LEMMA BookedStep ==
  ASSUME TypeOK, WorkIsSound, NumberedFromBirth, BookedWasCreated, BookedIsKept,
         [Next]_vars
  PROVE  BookedWasCreated' /\ BookedIsKept'
<1> SUFFICES ASSUME NEW n \in Numbers, ledger'[n] # Nobody
             PROVE  /\ status'[ledger'[n]] # "unborn"
                    /\ Unshared(ledger[n])' => /\ status'[ledger'[n]] = "approved"
                                               /\ decision'[ledger'[n]] = "approved"
  BY DEF BookedWasCreated, BookedIsKept
<1>1. PICK o \in Reqs : o = ledger'[n]
  BY LedgerWrites
<1>2. /\ status[o] # "unborn"
      /\ Unshared(o) => status[o] = "approved" /\ decision[o] = "approved"
  BY <1>1, LedgerWrites
<1>3. status'[o] # "unborn"
  BY <1>2, BornStays
<1>4. ASSUME Unshared(o)' PROVE status'[o] = "approved" /\ decision'[o] = "approved"
  BY <1>2, <1>4, UnsharedBefore, ApprovedStays, PublishedStays
<1>5. Unshared(ledger[n])' => Unshared(o)'
  BY <1>1
<1>. QED
  BY <1>1, <1>3, <1>4, <1>5

\* References come from the client or from PersistRef, after the booking.
LEMMA RefStep ==
  ASSUME TypeOK, WorkIsSound, NumberedFromBirth, RefIsBooked, [Next]_vars
  PROVE  RefIsBooked'
<1>1. \/ UNCHANGED ref
      \/ \E o \in Reqs : Create(o)
      \/ \E c \in Consumers : PersistRef(c)
  <2> USE DEF reqVars
  <2>1. CASE Endpoints
    BY <2>1 DEF Endpoints, Delete, Decide, Visit
  <2>2. ASSUME NEW c \in Consumers, Handle(c) PROVE UNCHANGED ref \/ PersistRef(c)
    BY <2>2 DEF Handle, Poison, Apply, LoadFails, NoFinance, Load, CreateAPItem
  <2>3. ASSUME NEW c \in Consumers, Consume(c) PROVE UNCHANGED ref \/ PersistRef(c)
    BY <2>2, <2>3 DEF Consume, Fetch, Seen, Mark, DeadLetter, Commit
  <2>4. ASSUME NEW c \in Consumers, Fails(c) PROVE UNCHANGED ref
    BY <2>4 DEF Fails, SeenFails, HandlerFails, MarkFails, DeadLetterFails, Abandon
  <2>5. CASE UNCHANGED vars
    BY <2>5 DEF vars
  <2>. QED
    BY <2>1, <2>3, <2>4, <2>5 DEF Next
<1> SUFFICES ASSUME NEW q \in ref'
             PROVE  /\ status'[q] # "unborn"
                    /\ q \notin Prebooked => ledger'[num'[q]] # Nobody
  BY DEF RefIsBooked
<1>2. CASE q \in ref
  <2>1. q \in Reqs /\ status[q] # "unborn"
    BY <1>2 DEF RefIsBooked, TypeOK
  <2>2. num'[q] = num[q] /\ status'[q] # "unborn" /\ num[q] \in Numbers
    BY <2>1, BornStays DEF NumberedFromBirth
  <2>. QED
    BY <1>2, <2>2, LedgerStays DEF RefIsBooked
<1>3. ASSUME q \notin ref, NEW o \in Reqs, Create(o)
      PROVE  status'[q] # "unborn" /\ q \in Prebooked
  BY <1>3 DEF Create, TypeOK
<1>4. ASSUME q \notin ref, NEW c \in Consumers, PersistRef(c)
      PROVE  status'[q] # "unborn" /\ ledger'[num'[q]] # Nobody
  BY <1>4 DEF PersistRef, Target, Live, WorkIsSound, SoundWork
<1>. QED
  BY <1>1, <1>2, <1>3, <1>4

\* The inductive invariant holds of every reachable state.
THEOREM Invariance == Spec => []IndInv
<1>1. Init => IndInv
  <2> SUFFICES ASSUME Init PROVE IndInv
    OBVIOUS
  <2>1. TypeOK
    BY ReqsAssumption DEF Init, TypeOK, Statuses, Decisions, Labels
  <2>2. NumberedFromBirth /\ LiveNumbersDiffer
    BY DEF Init, NumberedFromBirth, LiveNumbersDiffer, Live
  <2>3. WorkIsSound
    BY DEF Init, WorkIsSound, SoundWork
  <2>4. ProcessedSettled /\ RefIsBooked /\ BookedWasCreated /\ BookedIsKept
    BY DEF Init, ProcessedSettled, RefIsBooked, BookedWasCreated, BookedIsKept
  <2>. QED
    BY <2>1, <2>2, <2>3, <2>4 DEF IndInv
<1>2. IndInv /\ [Next]_vars => IndInv'
  BY TypeStep, NumberedStep, DifferStep, WorkStep, ProcessedStep, RefStep, BookedStep
  DEF IndInv
<1>. QED
  BY <1>1, <1>2, PTL DEF Spec

\* Requisitions, messages, the ledger and the consumers keep their types; the
\* attempts at a message never exceed MaxRetries.
THEOREM TypeCorrect == Spec => []TypeOK
<1>1. IndInv => TypeOK
  BY DEF IndInv
<1>. QED
  BY <1>1, Invariance, PTL

\* However messages are redelivered and calls fail, an event about a requisition
\* in its submitter's own workspace is recorded as processed only when its
\* decision is in the document, booked if approved and finance is configured;
\* decisions of members that land in that workspace do not disturb it.
THEOREM ProcessedApplied == Spec => []ProcessedIsApplied
<1>1. IndInv => ProcessedIsApplied
  BY DEF IndInv, ProcessedSettled, Settled, RefIsBooked, ProcessedIsApplied
<1>. QED
  BY <1>1, Invariance, PTL

\* A requisition booked in finance is never removed from its workspace and
\* never loses its approval.
THEOREM BookedStaysInPlace == Spec => []BookedIsKept
<1>1. IndInv => BookedIsKept
  BY DEF IndInv
<1>. QED
  BY <1>1, Invariance, PTL
=============================================================================
