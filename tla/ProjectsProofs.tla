---------------------------- MODULE ProjectsProofs ----------------------------
(***************************************************************************)
(* Proofs about Projects, for any requests, status posts and contracts.    *)
(*                                                                         *)
(* A PUT's UPDATE succeeds only on the version it resolved, and by then    *)
(* the resolved project is the stored one (SnapshotsCoherent): what the    *)
(* closure takes from the resolved project at its last run is current.     *)
(***************************************************************************)
EXTENDS Projects, TLAPS

\* putProject's closure fills a struct of the right type from the document.
LEMMA ClosureType ==
  ASSUME TypeOK, NEW r \in Puts
  PROVE  Closure(r) \in Structs
<1>1. p[r] \in Structs /\ snap[r] \in Project
  BY DEF TypeOK
<1>2. Merged(r, snap[r]) \in Structs
  BY <1>1 DEF Merged, Filled, Structs, Project
<1>3. Fresh(r) \in Structs
  BY <1>1 DEF Fresh, Structs
<1>. QED
  BY <1>2, <1>3 DEF Closure

\* The struct is stored as a project with the struct's access fields.
LEMMA StoredType ==
  ASSUME NEW s \in Structs
  PROVE  /\ Stored(s) \in Project
         /\ Stored(s).present
         /\ Stored(s).visibility = s.visibility
         /\ Stored(s).conversation = s.conversation
<1>1. s.history \in {Nil} \cup SUBSET Updates /\ s.contracts \in {Nil} \cup SUBSET Contracts
  BY DEF Structs
<1>2. Listed(s.history) \in SUBSET Updates /\ Listed(s.contracts) \in SUBSET Contracts
  BY <1>1 DEF Listed
<1>. QED
  BY <1>2 DEF Stored, Structs, Project

\* An empty struct and an absent project have their types.
LEMMA DefaultTypes == Absent \in Project /\ NoBody \in Structs
  BY DEF Absent, NoBody, Project, Structs, Visibilities

\* Every request, thread and event keeps the types.
LEMMA TypeStep ==
  ASSUME TypeOK, [Next]_vars
  PROVE  TypeOK'
<1> USE ProjectsAssumption DEF TypeOK, store, putVars
<1>1. ASSUME NEW r \in Puts, Start(r) PROVE TypeOK'
  <2>1. PICK b \in Bodies : body' = [body EXCEPT ![r] = b] /\ p' = [p EXCEPT ![r] = b]
    BY <1>1 DEF Start
  <2>2. b \in Structs
    BY DEF Bodies, Structs
  <2>. QED
    BY <1>1, <2>1, <2>2 DEF Start, Labels
<1>2. ASSUME NEW r \in Puts, Read(r) PROVE TypeOK'
  BY <1>2 DEF Read, Labels
<1>3. ASSUME NEW r \in Puts, Commit(r) PROVE TypeOK'
  <2>1. Stored(Closure(r)) \in Project
    BY ClosureType, StoredType
  <2>2. Wipes(r, Stored(Closure(r))) \subseteq Puts \X (Updates \cup Contracts)
    <3>1. proj.history \subseteq Updates /\ proj.contracts \subseteq Contracts
      BY DEF Project
    <3>. QED
      BY <3>1 DEF Wipes
  <2>. QED
    BY <1>3, <2>1, <2>2, DefaultTypes DEF Commit, Answer, Write, Labels
<1>4. ASSUME NEW r \in Puts, Retry(r) PROVE TypeOK'
  BY <1>4, ClosureType DEF Retry, Labels
<1>5. ASSUME NEW r \in Puts, Conflict(r) PROVE TypeOK'
  BY <1>5, DefaultTypes DEF Conflict, Answer, Labels
<1>6. ASSUME NEW r \in Puts, SaveThread(r) PROVE TypeOK'
  <2>1. PICK t \in Threads :
          IF proj.present /\ proj.conversation = Nil
            THEN Write([proj EXCEPT !.conversation = t]) ELSE Write(proj)
    BY <1>6 DEF SaveThread
  <2>2. [proj EXCEPT !.conversation = t] \in Project
    BY DEF Project
  <2>. QED
    BY <1>6, <2>1, <2>2 DEF SaveThread, Write
<1>7. ASSUME NEW r \in Puts, ThreadFails(r) PROVE TypeOK'
  BY <1>7 DEF ThreadFails
<1>8. ASSUME NEW u \in Updates, PostStatus(u) PROVE TypeOK'
  <2>1. [proj EXCEPT !.history = @ \cup {u}] \in Project
    BY DEF Project
  <2>. QED
    BY <1>8, <2>1 DEF PostStatus, Write
<1>9. ASSUME NEW k \in Contracts, LinkContract(k) PROVE TypeOK'
  <2>1. [proj EXCEPT !.contracts = @ \cup {k}] \in Project
    BY DEF Project
  <2>. QED
    BY <1>9, <2>1 DEF LinkContract, Write
<1>10. ASSUME NEW k \in Contracts, UnlinkContract(k) PROVE TypeOK'
  <2>1. [proj EXCEPT !.contracts = @ \ {k}] \in Project
    BY DEF Project
  <2>. QED
    BY <1>10, <2>1 DEF UnlinkContract, Write
<1>11. CASE DeleteProject
  BY <1>11, DefaultTypes DEF DeleteProject, Write
<1>12. CASE ApplyTemplate
  <2>1. [Absent EXCEPT !.present = TRUE] \in Project
    BY DefaultTypes DEF Project
  <2>. QED
    BY <1>12, <2>1 DEF ApplyTemplate, Write
<1>13. CASE EditElsewhere
  BY <1>13 DEF EditElsewhere, Write
<1>14. CASE UNCHANGED vars
  BY <1>14 DEF vars
<1>15. ASSUME NEW r \in Puts, QueryFails(r) PROVE TypeOK'
  BY <1>15, DefaultTypes DEF QueryFails, Answer, Labels
<1> HIDE DEF TypeOK, store, putVars
<1>. QED
  BY <1>1, <1>2, <1>3, <1>4, <1>5, <1>6, <1>7, <1>8, <1>9, <1>10,
     <1>11, <1>12, <1>13, <1>14, <1>15
  DEF Next, Put, Thread, Others

\* Every write moves the version, so a resolved project goes stale together
\* with its version.
LEMMA CoherentStep ==
  ASSUME TypeOK, SnapshotsCoherent, [Next]_vars
  PROVE  SnapshotsCoherent'
<1> USE DEF TypeOK, SnapshotsCoherent, store, putVars
<1>1. ASSUME NEW r \in Puts, Start(r) PROVE SnapshotsCoherent'
  BY <1>1 DEF Start, Bodies, Structs
<1>2. ASSUME NEW r \in Puts, Read(r) PROVE SnapshotsCoherent'
  BY <1>2 DEF Read
<1>3. ASSUME NEW r \in Puts, Commit(r) PROVE SnapshotsCoherent'
  <2>1. ver' = ver + 1 /\ pc' = [pc EXCEPT ![r] = "written"]
    BY <1>3 DEF Commit, Answer, Write
  <2>2. ASSUME NEW q \in Puts, pc'[q] = "apply" PROVE q # r /\ pc[q] = "apply"
    BY <2>1, <2>2
  <2>3. \A q \in Puts : q # r => snap'[q] = snap[q] /\ snapVer'[q] = snapVer[q]
    BY <1>3 DEF Commit, Answer
  <2>. QED
    BY <2>1, <2>2, <2>3
<1>4. ASSUME NEW r \in Puts, Retry(r) PROVE SnapshotsCoherent'
  BY <1>4 DEF Retry
<1>5. ASSUME NEW r \in Puts, Conflict(r) PROVE SnapshotsCoherent'
  BY <1>5 DEF Conflict, Answer
<1>6. ASSUME NEW r \in Puts, SaveThread(r) PROVE SnapshotsCoherent'
  BY <1>6 DEF SaveThread, Write
<1>7. ASSUME NEW r \in Puts, ThreadFails(r) PROVE SnapshotsCoherent'
  BY <1>7 DEF ThreadFails
<1>8. ASSUME NEW u \in Updates, PostStatus(u) PROVE SnapshotsCoherent'
  BY <1>8 DEF PostStatus, Write
<1>9. ASSUME NEW k \in Contracts, LinkContract(k) PROVE SnapshotsCoherent'
  BY <1>9 DEF LinkContract, Write
<1>10. ASSUME NEW k \in Contracts, UnlinkContract(k) PROVE SnapshotsCoherent'
  BY <1>10 DEF UnlinkContract, Write
<1>11. CASE DeleteProject
  BY <1>11 DEF DeleteProject, Write
<1>12. CASE ApplyTemplate
  BY <1>12 DEF ApplyTemplate, Write
<1>13. CASE EditElsewhere
  BY <1>13 DEF EditElsewhere, Write
<1>14. CASE UNCHANGED vars
  BY <1>14 DEF vars
<1>15. ASSUME NEW r \in Puts, QueryFails(r) PROVE SnapshotsCoherent'
  BY <1>15 DEF QueryFails, Answer
<1> HIDE DEF TypeOK, SnapshotsCoherent, store, putVars
<1>. QED
  BY <1>1, <1>2, <1>3, <1>4, <1>5, <1>6, <1>7, <1>8, <1>9, <1>10,
     <1>11, <1>12, <1>13, <1>14, <1>15
  DEF Next, Put, Thread, Others

\* The closure's last run leaves the conversation of the project it replaces,
\* and without pm.admin its visibility.
LEMMA CommitKeeps ==
  ASSUME TypeOK, SnapshotsCoherent, NEW r \in Puts, Commit(r)
  PROVE  /\ proj'.present
         /\ proj'.conversation = IF proj.present THEN proj.conversation ELSE Nil
         /\ proj.present /\ r \notin Admins => proj'.visibility = proj.visibility
<1>1. snap[r] = proj
  BY DEF Commit, SnapshotsCoherent
<1>2. proj' = Stored(Closure(r))
  BY DEF Commit, Write
<1>3. /\ proj'.present
      /\ proj'.visibility = Closure(r).visibility
      /\ proj'.conversation = Closure(r).conversation
  BY <1>2, ClosureType, StoredType
<1>4. CASE proj.present
  BY <1>1, <1>3, <1>4 DEF Closure, Merged
<1>5. CASE ~proj.present
  <2>1. p[r] \in Structs
    BY DEF TypeOK
  <2>. QED
    BY <1>1, <1>3, <1>5, <2>1 DEF Closure, Fresh, Structs
<1>. QED
  BY <1>4, <1>5

\* Only ensureProjectThread sets a conversation, to chat's answer.
LEMMA FromChatStep ==
  ASSUME TypeOK, SnapshotsCoherent, ConversationFromChat, [Next]_vars
  PROVE  ConversationFromChat'
<1> USE DEF TypeOK, ConversationFromChat, store, putVars
<1>1. ASSUME NEW r \in Puts, Start(r) PROVE ConversationFromChat'
  BY <1>1 DEF Start
<1>2. ASSUME NEW r \in Puts, Read(r) PROVE ConversationFromChat'
  BY <1>2 DEF Read
<1>3. ASSUME NEW r \in Puts, Commit(r) PROVE ConversationFromChat'
  BY <1>3, CommitKeeps, ProjectsAssumption DEF TypeOK
<1>4. ASSUME NEW r \in Puts, Retry(r) PROVE ConversationFromChat'
  BY <1>4 DEF Retry
<1>5. ASSUME NEW r \in Puts, Conflict(r) PROVE ConversationFromChat'
  BY <1>5 DEF Conflict
<1>6. ASSUME NEW r \in Puts, SaveThread(r) PROVE ConversationFromChat'
  <2>1. PICK t \in Threads :
          IF proj.present /\ proj.conversation = Nil
            THEN Write([proj EXCEPT !.conversation = t]) ELSE Write(proj)
    BY <1>6 DEF SaveThread
  <2>. QED
    BY <1>6, <2>1, ProjectsAssumption DEF Write, Project
<1>7. ASSUME NEW r \in Puts, ThreadFails(r) PROVE ConversationFromChat'
  BY <1>7 DEF ThreadFails
<1>8. ASSUME NEW u \in Updates, PostStatus(u) PROVE ConversationFromChat'
  BY <1>8 DEF PostStatus, Write, Project
<1>9. ASSUME NEW k \in Contracts, LinkContract(k) PROVE ConversationFromChat'
  BY <1>9 DEF LinkContract, Write, Project
<1>10. ASSUME NEW k \in Contracts, UnlinkContract(k) PROVE ConversationFromChat'
  BY <1>10 DEF UnlinkContract, Write, Project
<1>11. CASE DeleteProject
  BY <1>11, ProjectsAssumption DEF DeleteProject, Write, Absent
<1>12. CASE ApplyTemplate
  BY <1>12, ProjectsAssumption DEF ApplyTemplate, Write, Absent
<1>13. CASE EditElsewhere
  BY <1>13 DEF EditElsewhere, Write
<1>14. CASE UNCHANGED vars
  BY <1>14 DEF vars
<1>15. ASSUME NEW r \in Puts, QueryFails(r) PROVE ConversationFromChat'
  BY <1>15 DEF QueryFails
<1> HIDE DEF TypeOK, ConversationFromChat, store, putVars
<1>. QED
  BY <1>1, <1>2, <1>3, <1>4, <1>5, <1>6, <1>7, <1>8, <1>9, <1>10,
     <1>11, <1>12, <1>13, <1>14, <1>15
  DEF Next, Put, Thread, Others

\* No step replaces a conversation that is set.
LEMMA ConversationStep ==
  ASSUME TypeOK, SnapshotsCoherent, [Next]_vars
  PROVE  ConversationKept
<1> USE DEF TypeOK, ConversationKept, store, putVars
<1>1. ASSUME NEW r \in Puts, Start(r) PROVE ConversationKept
  BY <1>1 DEF Start
<1>2. ASSUME NEW r \in Puts, Read(r) PROVE ConversationKept
  BY <1>2 DEF Read
<1>3. ASSUME NEW r \in Puts, Commit(r) PROVE ConversationKept
  BY <1>3, CommitKeeps
<1>4. ASSUME NEW r \in Puts, Retry(r) PROVE ConversationKept
  BY <1>4 DEF Retry
<1>5. ASSUME NEW r \in Puts, Conflict(r) PROVE ConversationKept
  BY <1>5 DEF Conflict
<1>6. ASSUME NEW r \in Puts, SaveThread(r) PROVE ConversationKept
  <2>1. PICK t \in Threads :
          IF proj.present /\ proj.conversation = Nil
            THEN Write([proj EXCEPT !.conversation = t]) ELSE Write(proj)
    BY <1>6 DEF SaveThread
  <2>. QED
    BY <1>6, <2>1, ProjectsAssumption DEF Write, Project
<1>7. ASSUME NEW r \in Puts, ThreadFails(r) PROVE ConversationKept
  BY <1>7 DEF ThreadFails
<1>8. ASSUME NEW u \in Updates, PostStatus(u) PROVE ConversationKept
  BY <1>8 DEF PostStatus, Write, Project
<1>9. ASSUME NEW k \in Contracts, LinkContract(k) PROVE ConversationKept
  BY <1>9 DEF LinkContract, Write, Project
<1>10. ASSUME NEW k \in Contracts, UnlinkContract(k) PROVE ConversationKept
  BY <1>10 DEF UnlinkContract, Write, Project
<1>11. CASE DeleteProject
  BY <1>11, ProjectsAssumption DEF DeleteProject, Write, Absent
<1>12. CASE ApplyTemplate
  BY <1>12, ProjectsAssumption DEF ApplyTemplate, Write, Absent
<1>13. CASE EditElsewhere
  BY <1>13 DEF EditElsewhere, Write
<1>14. CASE UNCHANGED vars
  BY <1>14 DEF vars
<1>15. ASSUME NEW r \in Puts, QueryFails(r) PROVE ConversationKept
  BY <1>15 DEF QueryFails
<1> HIDE DEF TypeOK, ConversationKept, store, putVars
<1>. QED
  BY <1>1, <1>2, <1>3, <1>4, <1>5, <1>6, <1>7, <1>8, <1>9, <1>10,
     <1>11, <1>12, <1>13, <1>14, <1>15
  DEF Next, Put, Thread, Others

\* Only a PUT writes a PUT's struct, and it keeps the visibility.
LEMMA AccessStep ==
  ASSUME TypeOK, SnapshotsCoherent, [Next]_vars
  PROVE  AccessKept
<1> USE DEF TypeOK, AccessKept, Written, store, putVars
<1>1. ASSUME NEW r \in Puts, Start(r) PROVE AccessKept
  BY <1>1 DEF Start, Written
<1>2. ASSUME NEW r \in Puts, Read(r) PROVE AccessKept
  BY <1>2 DEF Read, Written
<1>3. ASSUME NEW r \in Puts, Commit(r) PROVE AccessKept
  <2>1. ASSUME NEW q \in Puts, Written(q) PROVE q = r
    BY <1>3, <2>1 DEF Commit, Answer, Written
  <2>. QED
    BY <1>3, <2>1, CommitKeeps DEF AccessKept
<1>4. ASSUME NEW r \in Puts, Retry(r) PROVE AccessKept
  BY <1>4 DEF Retry, Written
<1>5. ASSUME NEW r \in Puts, Conflict(r) PROVE AccessKept
  BY <1>5 DEF Conflict, Answer, Written
<1>6. ASSUME NEW r \in Puts, SaveThread(r) PROVE AccessKept
  BY <1>6 DEF SaveThread
<1>7. ASSUME NEW r \in Puts, ThreadFails(r) PROVE AccessKept
  BY <1>7 DEF ThreadFails
<1>8. ASSUME NEW u \in Updates, PostStatus(u) PROVE AccessKept
  BY <1>8 DEF PostStatus
<1>9. ASSUME NEW k \in Contracts, LinkContract(k) PROVE AccessKept
  BY <1>9 DEF LinkContract
<1>10. ASSUME NEW k \in Contracts, UnlinkContract(k) PROVE AccessKept
  BY <1>10 DEF UnlinkContract
<1>11. CASE DeleteProject
  BY <1>11 DEF DeleteProject
<1>12. CASE ApplyTemplate
  BY <1>12 DEF ApplyTemplate
<1>13. CASE EditElsewhere
  BY <1>13 DEF EditElsewhere
<1>14. CASE UNCHANGED vars
  BY <1>14 DEF vars
<1>15. ASSUME NEW r \in Puts, QueryFails(r) PROVE AccessKept
  BY <1>15 DEF QueryFails, Answer, Written
<1> HIDE DEF TypeOK, AccessKept, Written, store, putVars
<1>. QED
  BY <1>1, <1>2, <1>3, <1>4, <1>5, <1>6, <1>7, <1>8, <1>9, <1>10,
     <1>11, <1>12, <1>13, <1>14, <1>15
  DEF Next, Put, Thread, Others

\* The inductive invariant holds of every reachable state.
THEOREM Invariance == Spec => []IndInv
<1>1. Init => IndInv
  <2> SUFFICES ASSUME Init PROVE IndInv
    OBVIOUS
  <2>1. proj \in Project /\ proj.conversation = Nil
    <3>1. PICK v \in Visibilities :
            proj \in {Absent, [Absent EXCEPT !.present = TRUE, !.visibility = v]}
      BY DEF Init
    <3>2. CASE proj = Absent
      BY <3>2, DefaultTypes DEF Absent
    <3>3. CASE proj = [Absent EXCEPT !.present = TRUE, !.visibility = v]
      <4>1. proj = [present |-> TRUE, visibility |-> v, conversation |-> Nil,
                    history |-> {}, contracts |-> {}]
        BY <3>3 DEF Absent
      <4>. QED
        BY <4>1, <3>1 DEF Project
    <3>. QED
      BY <3>1, <3>2, <3>3
  <2>2. TypeOK
    BY <2>1, DefaultTypes DEF Init, TypeOK, Labels
  <2>3. SnapshotsCoherent
    BY DEF Init, SnapshotsCoherent
  <2>. QED
    BY <2>1, <2>2, <2>3, ProjectsAssumption DEF IndInv, ConversationFromChat
<1>2. IndInv /\ [Next]_vars => IndInv'
  BY TypeStep, CoherentStep, FromChatStep DEF IndInv
<1>. QED
  BY <1>1, <1>2, PTL DEF Spec

\* The project, its writers and the requests keep their types.
THEOREM TypeCorrect == Spec => []TypeOK
<1>1. IndInv => TypeOK
  BY DEF IndInv
<1>. QED
  BY <1>1, Invariance, PTL

\* No client's conversation id is ever stored by putProject.
THEOREM ClientsSetNoConversation == Spec => []ConversationFromChat
<1>1. IndInv => ConversationFromChat
  BY DEF IndInv
<1>. QED
  BY <1>1, Invariance, PTL

\* A conversation stays as long as its project does, under putProject's
\* retries and any number of background thread creations.
THEOREM ConversationStays == Spec => ConversationIsFinal
<1>1. IndInv /\ [Next]_vars => [ConversationKept]_vars
  BY ConversationStep DEF IndInv
<1>. QED
  BY <1>1, Invariance, PTL DEF Spec, ConversationIsFinal

\* A PUT without pm.admin never changes who sees the project.
THEOREM AccessIsGuarded == Spec => AccessNeedsAdmin
<1>1. IndInv /\ [Next]_vars => [AccessKept]_vars
  BY AccessStep DEF IndInv
<1>. QED
  BY <1>1, Invariance, PTL DEF Spec, AccessNeedsAdmin
=============================================================================
