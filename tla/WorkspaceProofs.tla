--------------------------- MODULE WorkspaceProofs ---------------------------
(***************************************************************************)
(* Proofs about Workspace, for every set of users, requests and jobs.      *)
(*                                                                         *)
(* IndInv says that a (document, version) pair somebody holds is coherent  *)
(* with the row: while the versions agree, so do the documents.  Update    *)
(* compares versions, so a successful one works on the current document;   *)
(* no lost update, the role check and the refinement all follow from that. *)
(***************************************************************************)
EXTENDS Workspace, TLAPS

\* Where ResolveForUser returns to is a place of a request.
LEMMA ReturnsAreLabels == Returns \subseteq Labels
  BY DEF Returns, Labels

\* Filling a request's store.Workspace keeps its types.
LEMMA LoadType ==
  ASSUME TypeOK,
         NEW r \in Requests, NEW o \in Users, NEW d \in SUBSET Edits,
           NEW v \in Nat,
         Load(r, o, d, v)
  PROVE  /\ pc' \in [Requests -> Labels]
         /\ snapOwner' \in [Requests -> Users]
         /\ snapDoc' \in [Requests -> SUBSET Edits]
         /\ snapVer' \in [Requests -> Nat]
<1>1. ret[r] \in Labels
  BY ReturnsAreLabels DEF TypeOK
<1>. QED
  BY <1>1 DEF Load, Goto, TypeOK

\* Repository.Update keeps the types of the row and of the history.
LEMMA WrittenType ==
  ASSUME TypeOK, NEW o \in Users, NEW d \in SUBSET Edits, NEW w \in Edits,
         Written(o, d, w)
  PROVE  /\ rows' \subseteq Users
         /\ doc' \in [Users -> SUBSET Edits]
         /\ ver' \in [Users -> Nat \ {0}]
         /\ newer' \subseteq Users \X Users
         /\ by' \in [Users -> Edits \cup {Nobody}]
         /\ lost' \subseteq Edits \X Edits \X Users
         /\ hadRoles' \in [Users -> SUBSET SUBSET RoleEdits]
<1>1. Roles(d) \in SUBSET RoleEdits
  BY DEF Roles
<1>. QED
  BY <1>1 DEF Written, Touch, TypeOK

\* Every statement, handler step and job step preserves the types.
LEMMA TypeStep == TypeOK /\ [Next]_vars => TypeOK'
<1> SUFFICES ASSUME TypeOK, [Next]_vars PROVE TypeOK'
  OBVIOUS
<1> USE DEF TypeOK, store, resolved, putVars, jobVars, requestVars
<1>1. ASSUME NEW r \in Requests, Get(r) PROVE TypeOK'
  <2>1. CASE user[r] \in rows
    BY <1>1, <2>1, LoadType DEF Get
  <2>2. CASE user[r] \notin rows
    BY <1>1, <2>2 DEF Get, Goto, Labels
  <2>. QED
    BY <2>1, <2>2
<1>2. ASSUME NEW r \in Requests, GetShared(r) PROVE TypeOK'
  <2>1. CASE SharedWith(user[r]) = {}
    BY <1>2, <2>1 DEF GetShared, Goto, Labels
  <2>2. CASE SharedWith(user[r]) # {}
    <3>1. PICK o \in SharedWith(user[r]) : Load(r, o, doc[o], ver[o])
      BY <1>2, <2>2 DEF GetShared
    <3>2. o \in Users
      BY DEF SharedWith
    <3>. QED
      BY <1>2, <3>1, <3>2, LoadType DEF GetShared
  <2>. QED
    BY <2>1, <2>2
<1>3. ASSUME NEW r \in Requests, GetAgain(r) PROVE TypeOK'
  <2>1. CASE user[r] \in rows
    BY <1>3, <2>1, LoadType DEF GetAgain
  <2>2. CASE user[r] \notin rows
    BY <1>3, <2>2 DEF GetAgain, Goto, Labels
  <2>. QED
    BY <2>1, <2>2
<1>4. ASSUME NEW r \in Requests, Insert(r) PROVE TypeOK'
  <2>1. rows' \subseteq Users /\ newer' \subseteq Users \X Users
    BY <1>4 DEF Insert, Touch
  <2>2. DefaultDoc \in SUBSET Edits
    BY DEF DefaultDoc
  <2>. QED
    BY <1>4, <2>1, <2>2, LoadType DEF Insert
<1>5. ASSUME NEW r \in Requests, Finish(r) PROVE TypeOK'
  BY <1>5 DEF Finish, Goto, Labels, Answered
<1>6. ASSUME NEW r \in Requests, Fail(r) PROVE TypeOK'
  BY <1>6 DEF Fail, Goto, Labels, Answered
<1>7. ASSUME NEW m \in Mutations, StartMutate(m) PROVE TypeOK'
  BY <1>7 DEF StartMutate, Goto, Labels, Returns, Requests
<1>8. ASSUME NEW m \in Mutations, CommitEdit(m) PROVE TypeOK'
  <2>1. m \in Requests /\ m \in Edits
    BY DEF Requests, Edits
  <2>2. snapOwner[m] \in Users /\ snapDoc[m] \cup {m} \in SUBSET Edits
    BY <2>1
  <2>3. pc' \in [Requests -> Labels] /\ commits' \in [Requests -> Nat]
    BY <1>8, <2>1 DEF CommitEdit, Goto, Labels
  <2>. QED
    BY <1>8, <2>1, <2>2, <2>3, WrittenType DEF CommitEdit
<1>9. ASSUME NEW m \in Mutations, RetryEdit(m) PROVE TypeOK'
  BY <1>9 DEF RetryEdit, Goto, Labels, Answered, Requests
<1>10. ASSUME NEW p \in Puts, StartPut(p) PROVE TypeOK'
  BY <1>10 DEF StartPut, Goto, Labels, Returns, Requests
<1>11. ASSUME NEW p \in Puts, SendPut(p) PROVE TypeOK'
  <2>1. p \in Requests /\ p \in Edits
    BY DEF Requests, Edits
  <2>2. PICK v \in Sendable \cup {snapVer[p]}, rs \in SUBSET RoleEdits :
          /\ body' = [body EXCEPT ![p] =
               (View(snapOwner[p], user[p], snapDoc[p]) \ RoleEdits) \cup rs \cup {p}]
          /\ expected' = [expected EXCEPT ![p] = v]
          /\ ret' = [ret EXCEPT ![p] = IF v = 0 THEN "putVersion" ELSE "putCheck"]
    BY <1>11 DEF SendPut
  <2>3. v \in Nat /\ rs \subseteq Edits
    BY <2>1, SetsAssumption DEF Edits
  <2>4. body' \in [Puts -> SUBSET Edits]
    BY <2>1, <2>2, <2>3 DEF View
  <2>5. blind' \subseteq Puts /\ odd' \subseteq Puts
    BY <1>11 DEF SendPut
  <2>. QED
    BY <1>11, <2>1, <2>2, <2>3, <2>4, <2>5 DEF SendPut, Goto, Labels, Returns
<1>12. ASSUME NEW p \in Puts, AdoptVersion(p) PROVE TypeOK'
  BY <1>12 DEF AdoptVersion, Goto, Labels, Returns, Requests
<1>13. ASSUME NEW p \in Puts, RefusePut(p) PROVE TypeOK'
  BY <1>13 DEF RefusePut, Goto, Labels, Answered, Requests
<1>14. ASSUME NEW p \in Puts, CommitPut(p) PROVE TypeOK'
  <2>1. p \in Requests /\ p \in Edits
    BY DEF Requests, Edits
  <2>2. snapOwner[p] \in Users /\ body[p] \in SUBSET Edits
    BY <2>1
  <2>3. pc' \in [Requests -> Labels] /\ commits' \in [Requests -> Nat]
    BY <1>14, <2>1 DEF CommitPut, Goto, Labels
  <2>. QED
    BY <1>14, <2>1, <2>2, <2>3, WrittenType DEF CommitPut
<1>15. ASSUME NEW p \in Puts, ConflictPut(p) PROVE TypeOK'
  BY <1>15 DEF ConflictPut, Goto, Labels, Answered, Requests
<1>16. ASSUME NEW j \in Jobs, ListWorkspaces(j) PROVE TypeOK'
  BY <1>16 DEF ListWorkspaces, JobLabels
<1>17. ASSUME NEW j \in Jobs, NEW o \in Users, JobSkip(j, o) PROVE TypeOK'
  BY <1>17 DEF JobSkip, JobLabels
<1>18. ASSUME NEW j \in Jobs, NEW o \in Users, JobCommit(j, o) PROVE TypeOK'
  <2>1. j \in Edits
    BY DEF Edits
  <2>2. jdoc[<<j, o>>] \cup {j} \in SUBSET Edits
    BY <2>1
  <2>. QED
    BY <1>18, <2>1, <2>2, WrittenType DEF JobCommit, JobLabels
<1>19. ASSUME NEW j \in Jobs, NEW o \in Users, JobConflict(j, o) PROVE TypeOK'
  BY <1>19 DEF JobConflict, JobLabels
<1>20. ASSUME NEW j \in Jobs, NEW o \in Users, JobRefresh(j, o) PROVE TypeOK'
  BY <1>20 DEF JobRefresh, JobLabels
<1>21. ASSUME NEW o \in Users, SetOrgID(o) PROVE TypeOK'
  BY <1>21 DEF SetOrgID, Touch
<1>22. ASSUME NEW ou \in Sharing, AddMember(ou[1], ou[2]) PROVE TypeOK'
  BY <1>22, SetsAssumption DEF AddMember
<1>23. ASSUME NEW ou \in Sharing, RemoveMember(ou[1], ou[2]) PROVE TypeOK'
  BY <1>23 DEF RemoveMember
<1>24. CASE UNCHANGED vars
  BY <1>24 DEF vars
<1> HIDE DEF TypeOK, store, resolved, putVars, jobVars, requestVars
<1>. QED
  BY <1>1, <1>2, <1>3, <1>4, <1>5, <1>6, <1>7, <1>8, <1>9, <1>10, <1>11, <1>12,
     <1>13, <1>14, <1>15, <1>16, <1>17, <1>18, <1>19, <1>20, <1>21, <1>22,
       <1>23, <1>24
  DEF Next, Resolve, Mutate, Put, Job, Membership, Requests

\* A write moves the version; without one the document stays.
VersionsGrow ==
  \A o \in Users : ver[o] <= ver'[o] /\ (ver'[o] = ver[o] => doc'[o] = doc[o])

\* Repository.Update is the only writer of a document, and it moves the version.
LEMMA VersionsGrowStep ==
  ASSUME TypeOK, [Next]_vars
  PROVE  VersionsGrow
<1> USE DEF TypeOK, VersionsGrow, store, resolved, putVars, jobVars, requestVars
<1>1. ASSUME NEW r \in Requests, Get(r) PROVE VersionsGrow
  BY <1>1 DEF Get
<1>2. ASSUME NEW r \in Requests, GetShared(r) PROVE VersionsGrow
  BY <1>2 DEF GetShared
<1>3. ASSUME NEW r \in Requests, GetAgain(r) PROVE VersionsGrow
  BY <1>3 DEF GetAgain
<1>4. ASSUME NEW r \in Requests, Insert(r) PROVE VersionsGrow
  BY <1>4 DEF Insert
<1>5. ASSUME NEW r \in Requests, Finish(r) PROVE VersionsGrow
  BY <1>5 DEF Finish
<1>6. ASSUME NEW r \in Requests, Fail(r) PROVE VersionsGrow
  BY <1>6 DEF Fail
<1>7. ASSUME NEW m \in Mutations, StartMutate(m) PROVE VersionsGrow
  BY <1>7 DEF StartMutate
<1>8. ASSUME NEW m \in Mutations, CommitEdit(m) PROVE VersionsGrow
  BY <1>8 DEF CommitEdit, Written, Requests
<1>9. ASSUME NEW m \in Mutations, RetryEdit(m) PROVE VersionsGrow
  BY <1>9 DEF RetryEdit
<1>10. ASSUME NEW p \in Puts, StartPut(p) PROVE VersionsGrow
  BY <1>10 DEF StartPut
<1>11. ASSUME NEW p \in Puts, SendPut(p) PROVE VersionsGrow
  BY <1>11 DEF SendPut
<1>12. ASSUME NEW p \in Puts, AdoptVersion(p) PROVE VersionsGrow
  BY <1>12 DEF AdoptVersion
<1>13. ASSUME NEW p \in Puts, RefusePut(p) PROVE VersionsGrow
  BY <1>13 DEF RefusePut
<1>14. ASSUME NEW p \in Puts, CommitPut(p) PROVE VersionsGrow
  BY <1>14 DEF CommitPut, Written, Requests
<1>15. ASSUME NEW p \in Puts, ConflictPut(p) PROVE VersionsGrow
  BY <1>15 DEF ConflictPut
<1>16. ASSUME NEW j \in Jobs, ListWorkspaces(j) PROVE VersionsGrow
  BY <1>16 DEF ListWorkspaces
<1>17. ASSUME NEW j \in Jobs, NEW o \in Users, JobSkip(j, o) PROVE VersionsGrow
  BY <1>17 DEF JobSkip
<1>18. ASSUME NEW j \in Jobs, NEW o \in Users, JobCommit(j,
              o) PROVE VersionsGrow
  BY <1>18 DEF JobCommit, Written, Requests
<1>19. ASSUME NEW j \in Jobs, NEW o \in Users, JobConflict(j,
              o) PROVE VersionsGrow
  BY <1>19 DEF JobConflict
<1>20. ASSUME NEW j \in Jobs, NEW o \in Users, JobRefresh(j,
              o) PROVE VersionsGrow
  BY <1>20 DEF JobRefresh
<1>21. ASSUME NEW o \in Users, SetOrgID(o) PROVE VersionsGrow
  BY <1>21 DEF SetOrgID
<1>22. ASSUME NEW ou \in Sharing, AddMember(ou[1], ou[2]) PROVE VersionsGrow
  BY <1>22 DEF AddMember
<1>23. ASSUME NEW ou \in Sharing, RemoveMember(ou[1], ou[2]) PROVE VersionsGrow
  BY <1>23 DEF RemoveMember
<1>24. CASE UNCHANGED vars
  BY <1>24 DEF vars
<1> HIDE DEF TypeOK, VersionsGrow, store, resolved, putVars, jobVars,
             requestVars
<1>. QED
  BY <1>1, <1>2, <1>3, <1>4, <1>5, <1>6, <1>7, <1>8, <1>9, <1>10, <1>11, <1>12,
     <1>13, <1>14, <1>15, <1>16, <1>17, <1>18, <1>19, <1>20, <1>21, <1>22,
       <1>23, <1>24
  DEF Next, Resolve, Mutate, Put, Job, Membership, Requests

\* Rows are never deleted, so the owner of one always resolves to it.
LEMMA RowsStayStep ==
  ASSUME TypeOK, RowsStay, [Next]_vars
  PROVE  RowsStay'
<1> USE DEF TypeOK, RowsStay, Resolved, store, resolved, putVars, jobVars,
            requestVars
<1>1. ASSUME NEW r \in Requests, Get(r) PROVE RowsStay'
  <2>1. CASE user[r] \in rows
    <3>1. /\ snapOwner' = [snapOwner EXCEPT ![r] = user[r]]
          /\ pc' = [pc EXCEPT ![r] = ret[r]]
          /\ rows' = rows /\ user' = user
      BY <1>1, <2>1 DEF Get, Load, Goto
    <3>2. ret[r] \in Returns
      OBVIOUS
    <3>. QED
      BY <3>1, <3>2 DEF Returns
  <2>2. CASE user[r] \notin rows
    BY <1>1, <2>2 DEF Get, Load, Goto
  <2>. QED
    BY <2>1, <2>2
<1>2. ASSUME NEW r \in Requests, GetShared(r) PROVE RowsStay'
  BY <1>2 DEF GetShared, Load, Goto
<1>3. ASSUME NEW r \in Requests, GetAgain(r) PROVE RowsStay'
  <2>1. CASE user[r] \in rows
    BY <1>3, <2>1 DEF GetAgain, Load, Goto
  <2>2. CASE user[r] \notin rows
    BY <1>3, <2>2 DEF GetAgain, Load, Goto
  <2>. QED
    BY <2>1, <2>2
<1>4. ASSUME NEW r \in Requests, Insert(r) PROVE RowsStay'
  BY <1>4 DEF Insert, Load, Goto
<1>5. ASSUME NEW r \in Requests, Finish(r) PROVE RowsStay'
  BY <1>5 DEF Finish, Goto
<1>6. ASSUME NEW r \in Requests, Fail(r) PROVE RowsStay'
  BY <1>6 DEF Fail, Goto, Answered
<1>7. ASSUME NEW m \in Mutations, StartMutate(m) PROVE RowsStay'
  BY <1>7 DEF StartMutate, Goto, Requests
<1>8. ASSUME NEW m \in Mutations, CommitEdit(m) PROVE RowsStay'
  BY <1>8 DEF CommitEdit, Goto, Written, Requests
<1>9. ASSUME NEW m \in Mutations, RetryEdit(m) PROVE RowsStay'
  BY <1>9 DEF RetryEdit, Goto, Requests
<1>10. ASSUME NEW p \in Puts, StartPut(p) PROVE RowsStay'
  BY <1>10 DEF StartPut, Goto, Requests
<1>11. ASSUME NEW p \in Puts, SendPut(p) PROVE RowsStay'
  BY <1>11 DEF SendPut, Goto, Requests
<1>12. ASSUME NEW p \in Puts, AdoptVersion(p) PROVE RowsStay'
  BY <1>12 DEF AdoptVersion, Goto, Requests
<1>13. ASSUME NEW p \in Puts, RefusePut(p) PROVE RowsStay'
  BY <1>13 DEF RefusePut, Goto, Requests
<1>14. ASSUME NEW p \in Puts, CommitPut(p) PROVE RowsStay'
  BY <1>14 DEF CommitPut, Goto, Written, Requests
<1>15. ASSUME NEW p \in Puts, ConflictPut(p) PROVE RowsStay'
  BY <1>15 DEF ConflictPut, Goto, Requests
<1>16. ASSUME NEW j \in Jobs, ListWorkspaces(j) PROVE RowsStay'
  BY <1>16 DEF ListWorkspaces
<1>17. ASSUME NEW j \in Jobs, NEW o \in Users, JobSkip(j, o) PROVE RowsStay'
  BY <1>17 DEF JobSkip
<1>18. ASSUME NEW j \in Jobs, NEW o \in Users, JobCommit(j, o) PROVE RowsStay'
  BY <1>18 DEF JobCommit, Written
<1>19. ASSUME NEW j \in Jobs, NEW o \in Users, JobConflict(j, o) PROVE RowsStay'
  BY <1>19 DEF JobConflict
<1>20. ASSUME NEW j \in Jobs, NEW o \in Users, JobRefresh(j, o) PROVE RowsStay'
  BY <1>20 DEF JobRefresh
<1>21. ASSUME NEW o \in Users, SetOrgID(o) PROVE RowsStay'
  BY <1>21 DEF SetOrgID
<1>22. ASSUME NEW ou \in Sharing, AddMember(ou[1], ou[2]) PROVE RowsStay'
  BY <1>22 DEF AddMember
<1>23. ASSUME NEW ou \in Sharing, RemoveMember(ou[1], ou[2]) PROVE RowsStay'
  BY <1>23 DEF RemoveMember
<1>24. CASE UNCHANGED vars
  BY <1>24 DEF vars
<1> HIDE DEF TypeOK, RowsStay, Resolved, store, resolved, putVars, jobVars,
             requestVars
<1>. QED
  BY <1>1, <1>2, <1>3, <1>4, <1>5, <1>6, <1>7, <1>8, <1>9, <1>10, <1>11, <1>12,
     <1>13, <1>14, <1>15, <1>16, <1>17, <1>18, <1>19, <1>20, <1>21, <1>22,
       <1>23, <1>24
  DEF Next, Resolve, Mutate, Put, Job, Membership, Requests

\* A request reaches its UPDATE at most once successfully.
LEMMA CommitsCountedStep ==
  ASSUME TypeOK, CommitsCounted, [Next]_vars
  PROVE  CommitsCounted'
<1> USE DEF TypeOK, CommitsCounted, store, resolved, putVars, jobVars,
            requestVars
<1>1. ASSUME NEW r \in Requests, Get(r) PROVE CommitsCounted'
  <2>1. ret[r] \in Returns
    OBVIOUS
  <2>. QED
    BY <1>1, <2>1 DEF Get, Load, Goto, Returns
<1>2. ASSUME NEW r \in Requests, GetShared(r) PROVE CommitsCounted'
  <2>1. ret[r] \in Returns
    OBVIOUS
  <2>. QED
    BY <1>2, <2>1 DEF GetShared, Load, Goto, Returns
<1>3. ASSUME NEW r \in Requests, GetAgain(r) PROVE CommitsCounted'
  <2>1. ret[r] \in Returns
    OBVIOUS
  <2>. QED
    BY <1>3, <2>1 DEF GetAgain, Load, Goto, Returns
<1>4. ASSUME NEW r \in Requests, Insert(r) PROVE CommitsCounted'
  <2>1. ret[r] \in Returns
    OBVIOUS
  <2>. QED
    BY <1>4, <2>1 DEF Insert, Load, Goto, Returns
<1>5. ASSUME NEW r \in Requests, Finish(r) PROVE CommitsCounted'
  BY <1>5 DEF Finish, Goto
<1>6. ASSUME NEW r \in Requests, Fail(r) PROVE CommitsCounted'
  BY <1>6 DEF Fail, Goto, Answered
<1>7. ASSUME NEW m \in Mutations, StartMutate(m) PROVE CommitsCounted'
  BY <1>7 DEF StartMutate, Goto, Requests
<1>8. ASSUME NEW m \in Mutations, CommitEdit(m) PROVE CommitsCounted'
  BY <1>8 DEF CommitEdit, Goto, Written, Requests
<1>9. ASSUME NEW m \in Mutations, RetryEdit(m) PROVE CommitsCounted'
  BY <1>9 DEF RetryEdit, Goto, Requests
<1>10. ASSUME NEW p \in Puts, StartPut(p) PROVE CommitsCounted'
  BY <1>10 DEF StartPut, Goto, Requests
<1>11. ASSUME NEW p \in Puts, SendPut(p) PROVE CommitsCounted'
  BY <1>11 DEF SendPut, Goto, Requests
<1>12. ASSUME NEW p \in Puts, AdoptVersion(p) PROVE CommitsCounted'
  BY <1>12 DEF AdoptVersion, Goto, Requests
<1>13. ASSUME NEW p \in Puts, RefusePut(p) PROVE CommitsCounted'
  BY <1>13 DEF RefusePut, Goto, Requests
<1>14. ASSUME NEW p \in Puts, CommitPut(p) PROVE CommitsCounted'
  BY <1>14 DEF CommitPut, Goto, Written, Requests
<1>15. ASSUME NEW p \in Puts, ConflictPut(p) PROVE CommitsCounted'
  BY <1>15 DEF ConflictPut, Goto, Requests
<1>16. ASSUME NEW j \in Jobs, ListWorkspaces(j) PROVE CommitsCounted'
  BY <1>16 DEF ListWorkspaces
<1>17. ASSUME NEW j \in Jobs, NEW o \in Users, JobSkip(j,
              o) PROVE CommitsCounted'
  BY <1>17 DEF JobSkip
<1>18. ASSUME NEW j \in Jobs, NEW o \in Users, JobCommit(j,
              o) PROVE CommitsCounted'
  BY <1>18 DEF JobCommit, Written
<1>19. ASSUME NEW j \in Jobs, NEW o \in Users, JobConflict(j,
              o) PROVE CommitsCounted'
  BY <1>19 DEF JobConflict
<1>20. ASSUME NEW j \in Jobs, NEW o \in Users, JobRefresh(j,
              o) PROVE CommitsCounted'
  BY <1>20 DEF JobRefresh
<1>21. ASSUME NEW o \in Users, SetOrgID(o) PROVE CommitsCounted'
  BY <1>21 DEF SetOrgID
<1>22. ASSUME NEW ou \in Sharing, AddMember(ou[1], ou[2]) PROVE CommitsCounted'
  BY <1>22 DEF AddMember
<1>23. ASSUME NEW ou \in Sharing, RemoveMember(ou[1],
              ou[2]) PROVE CommitsCounted'
  BY <1>23 DEF RemoveMember
<1>24. CASE UNCHANGED vars
  BY <1>24 DEF vars
<1> HIDE DEF TypeOK, CommitsCounted, store, resolved, putVars, jobVars,
             requestVars
<1>. QED
  BY <1>1, <1>2, <1>3, <1>4, <1>5, <1>6, <1>7, <1>8, <1>9, <1>10, <1>11, <1>12,
     <1>13, <1>14, <1>15, <1>16, <1>17, <1>18, <1>19, <1>20, <1>21, <1>22,
       <1>23, <1>24
  DEF Next, Resolve, Mutate, Put, Job, Membership, Requests

\* What a request or a job holds after a step: what it held before, or a row
\* as it is now.
HeldOrFresh(r) ==
  pc'[r] \in Resolved =>
    \/ /\ pc[r] \in Resolved
       /\ snapOwner'[r] = snapOwner[r]
       /\ snapDoc'[r] = snapDoc[r]
       /\ snapVer'[r] = snapVer[r]
    \/ /\ snapDoc'[r] = doc'[snapOwner'[r]]
       /\ snapVer'[r] = ver'[snapOwner'[r]]
    \/ snapOwner'[r] \notin Provisioned

JobHeldOrFresh(j, o) ==
  jpc'[<<j, o>>] \in {"listed", "fresh"} =>
    \/ /\ jpc[<<j, o>>] \in {"listed", "fresh"}
       /\ jdoc'[<<j, o>>] = jdoc[<<j, o>>]
       /\ jver'[<<j, o>>] = jver[<<j, o>>]
    \/ /\ jdoc'[<<j, o>>] = doc'[o]
       /\ jver'[<<j, o>>] = ver'[o]

HoldersFresh ==
  /\ \A r \in Requests : HeldOrFresh(r)
  /\ \A j \in Jobs, o \in Users : JobHeldOrFresh(j, o)

\* Mutate, PUT and the jobs hold what they read, until they read again.
LEMMA HoldersFreshStep ==
  ASSUME TypeOK, RowsStay, [Next]_vars
  PROVE  HoldersFresh
<1> USE DEF TypeOK, RowsStay, HoldersFresh, HeldOrFresh, JobHeldOrFresh,
            Resolved, store, resolved, putVars, jobVars, requestVars
<1>1. ASSUME NEW r \in Requests, Get(r) PROVE HoldersFresh
  <2>1. CASE user[r] \in rows
    BY <1>1, <2>1 DEF Get, Load, Goto
  <2>2. CASE user[r] \notin rows
    BY <1>1, <2>2 DEF Get, Load, Goto
  <2>. QED
    BY <2>1, <2>2
<1>2. ASSUME NEW r \in Requests, GetShared(r) PROVE HoldersFresh
  <2>1. CASE SharedWith(user[r]) = {}
    BY <1>2, <2>1 DEF GetShared, Goto
  <2>2. CASE SharedWith(user[r]) # {}
    <3>1. PICK o \in SharedWith(user[r]) : Load(r, o, doc[o], ver[o])
      BY <1>2, <2>2 DEF GetShared
    <3>. QED
      BY <1>2, <3>1 DEF GetShared, Load, Goto
  <2>. QED
    BY <2>1, <2>2
<1>3. ASSUME NEW r \in Requests, GetAgain(r) PROVE HoldersFresh
  <2>1. CASE user[r] \in rows
    BY <1>3, <2>1 DEF GetAgain, Load, Goto
  <2>2. CASE user[r] \notin rows
    BY <1>3, <2>2 DEF GetAgain, Load, Goto
  <2>. QED
    BY <2>1, <2>2
<1>4. ASSUME NEW r \in Requests, Insert(r) PROVE HoldersFresh
  BY <1>4 DEF Insert, Load, Goto
<1>5. ASSUME NEW r \in Requests, Finish(r) PROVE HoldersFresh
  BY <1>5 DEF Finish, Goto
<1>6. ASSUME NEW r \in Requests, Fail(r) PROVE HoldersFresh
  BY <1>6 DEF Fail, Goto
<1>7. ASSUME NEW m \in Mutations, StartMutate(m) PROVE HoldersFresh
  BY <1>7 DEF StartMutate, Goto, Requests
<1>8. ASSUME NEW m \in Mutations, CommitEdit(m) PROVE HoldersFresh
  BY <1>8 DEF CommitEdit, Goto, Requests
<1>9. ASSUME NEW m \in Mutations, RetryEdit(m) PROVE HoldersFresh
  BY <1>9 DEF RetryEdit, Goto, Requests
<1>10. ASSUME NEW p \in Puts, StartPut(p) PROVE HoldersFresh
  BY <1>10 DEF StartPut, Goto, Requests
<1>11. ASSUME NEW p \in Puts, SendPut(p) PROVE HoldersFresh
  BY <1>11 DEF SendPut, Goto, Requests
<1>12. ASSUME NEW p \in Puts, AdoptVersion(p) PROVE HoldersFresh
  BY <1>12 DEF AdoptVersion, Goto, Requests
<1>13. ASSUME NEW p \in Puts, RefusePut(p) PROVE HoldersFresh
  BY <1>13 DEF RefusePut, Goto, Requests
<1>14. ASSUME NEW p \in Puts, CommitPut(p) PROVE HoldersFresh
  BY <1>14 DEF CommitPut, Goto, Requests
<1>15. ASSUME NEW p \in Puts, ConflictPut(p) PROVE HoldersFresh
  BY <1>15 DEF ConflictPut, Goto, Requests
<1>16. ASSUME NEW j \in Jobs, ListWorkspaces(j) PROVE HoldersFresh
  BY <1>16 DEF ListWorkspaces
<1>17. ASSUME NEW j \in Jobs, NEW o \in Users, JobSkip(j, o) PROVE HoldersFresh
  BY <1>17 DEF JobSkip
<1>18. ASSUME NEW j \in Jobs, NEW o \in Users, JobCommit(j,
              o) PROVE HoldersFresh
  BY <1>18 DEF JobCommit
<1>19. ASSUME NEW j \in Jobs, NEW o \in Users, JobConflict(j,
              o) PROVE HoldersFresh
  BY <1>19 DEF JobConflict
<1>20. ASSUME NEW j \in Jobs, NEW o \in Users, JobRefresh(j,
              o) PROVE HoldersFresh
  BY <1>20 DEF JobRefresh
<1>21. ASSUME NEW o \in Users, SetOrgID(o) PROVE HoldersFresh
  BY <1>21 DEF SetOrgID
<1>22. ASSUME NEW ou \in Sharing, AddMember(ou[1], ou[2]) PROVE HoldersFresh
  BY <1>22 DEF AddMember
<1>23. ASSUME NEW ou \in Sharing, RemoveMember(ou[1], ou[2]) PROVE HoldersFresh
  BY <1>23 DEF RemoveMember
<1>24. CASE UNCHANGED vars
  BY <1>24 DEF vars
<1> HIDE DEF TypeOK, RowsStay, HoldersFresh, HeldOrFresh, JobHeldOrFresh,
             Resolved, store, resolved, putVars, jobVars, requestVars
<1>. QED
  BY <1>1, <1>2, <1>3, <1>4, <1>5, <1>6, <1>7, <1>8, <1>9, <1>10, <1>11, <1>12,
     <1>13, <1>14, <1>15, <1>16, <1>17, <1>18, <1>19, <1>20, <1>21, <1>22,
       <1>23, <1>24
  DEF Next, Resolve, Mutate, Put, Job, Membership, Requests

\* A (document, version) pair that was read stays coherent with the row.
LEMMA CoherentStays ==
  ASSUME TypeOK, TypeOK', VersionsGrow,
         NEW o \in Users, NEW d, NEW v \in Nat, Coherent(o, d, v)
  PROVE  v <= ver'[o] /\ (v = ver'[o] => d = doc'[o])
<1>1. ver[o] \in Nat /\ ver'[o] \in Nat
  BY DEF TypeOK
<1>. QED
  BY <1>1 DEF VersionsGrow, Coherent

\* What Mutate, PUT and the jobs read stays coherent with the row.
LEMMA SnapshotsStep ==
  ASSUME TypeOK, RowsStay, SnapshotsCoherent, [Next]_vars
  PROVE  SnapshotsCoherent'
<1>1. TypeOK' /\ VersionsGrow /\ HoldersFresh
  BY TypeStep, VersionsGrowStep, HoldersFreshStep
<1>2. ASSUME NEW r \in Requests,
             pc'[r] \in Resolved, snapOwner'[r] \in Provisioned
      PROVE  Coherent(snapOwner[r], snapDoc[r], snapVer[r])'
  <2>1. snapOwner'[r] \in Users /\ ver'[snapOwner'[r]] \in Nat /\ snapVer[r] \in Nat
    BY <1>1 DEF TypeOK
  <2>2. CASE /\ pc[r] \in Resolved
             /\ snapOwner'[r] = snapOwner[r]
             /\ snapDoc'[r] = snapDoc[r]
             /\ snapVer'[r] = snapVer[r]
    <3>1. Coherent(snapOwner[r], snapDoc[r], snapVer[r])
      BY <1>2, <2>2 DEF SnapshotsCoherent
    <3>. QED
      BY <1>1, <2>1, <2>2, <3>1, CoherentStays DEF Coherent
  <2>3. CASE /\ snapDoc'[r] = doc'[snapOwner'[r]]
             /\ snapVer'[r] = ver'[snapOwner'[r]]
    BY <2>1, <2>3 DEF Coherent
  <2>. QED
    BY <1>1, <1>2, <2>2, <2>3 DEF HoldersFresh, HeldOrFresh
<1>3. ASSUME NEW j \in Jobs, NEW o \in Provisioned,
             jpc'[<<j, o>>] \in {"listed", "fresh"}
      PROVE  Coherent(o, jdoc[<<j, o>>], jver[<<j, o>>])'
  <2>1. o \in Users
    BY SetsAssumption
  <2>2. ver'[o] \in Nat /\ jver[<<j, o>>] \in Nat
    BY <1>1, <2>1 DEF TypeOK
  <2>3. CASE /\ jpc[<<j, o>>] \in {"listed", "fresh"}
             /\ jdoc'[<<j, o>>] = jdoc[<<j, o>>]
             /\ jver'[<<j, o>>] = jver[<<j, o>>]
    <3>1. Coherent(o, jdoc[<<j, o>>], jver[<<j, o>>])
      BY <2>3 DEF SnapshotsCoherent
    <3>. QED
      BY <1>1, <2>1, <2>2, <2>3, <3>1, CoherentStays DEF Coherent
  <2>4. CASE jdoc'[<<j, o>>] = doc'[o] /\ jver'[<<j, o>>] = ver'[o]
    BY <2>2, <2>4 DEF Coherent
  <2>. QED
    BY <1>1, <1>3, <2>1, <2>3, <2>4 DEF HoldersFresh, JobHeldOrFresh
<1>. QED
  BY <1>2, <1>3 DEF SnapshotsCoherent

\* The places, the body and the version of a PUT agree.
LEMMA PutsMarkedStep ==
  ASSUME TypeOK, PutsMarked, [Next]_vars
  PROVE  PutsMarked'
<1> USE DEF TypeOK, PutsMarked, store, resolved, putVars, jobVars, requestVars
<1>1. ASSUME NEW r \in Requests, Get(r) PROVE PutsMarked'
  <2>1. CASE user[r] \in rows
    BY <1>1, <2>1 DEF Get, Load, Goto, Requests
  <2>2. CASE user[r] \notin rows
    BY <1>1, <2>2 DEF Get, Load, Goto, Requests
  <2>. QED
    BY <2>1, <2>2
<1>2. ASSUME NEW r \in Requests, GetShared(r) PROVE PutsMarked'
  <2>1. CASE SharedWith(user[r]) = {}
    BY <1>2, <2>1 DEF GetShared, Goto, Requests
  <2>2. CASE SharedWith(user[r]) # {}
    <3>1. PICK o \in SharedWith(user[r]) : Load(r, o, doc[o], ver[o])
      BY <1>2, <2>2 DEF GetShared
    <3>. QED
      BY <1>2, <3>1 DEF GetShared, Load, Goto, Requests
  <2>. QED
    BY <2>1, <2>2
<1>3. ASSUME NEW r \in Requests, GetAgain(r) PROVE PutsMarked'
  <2>1. CASE user[r] \in rows
    BY <1>3, <2>1 DEF GetAgain, Load, Goto, Requests
  <2>2. CASE user[r] \notin rows
    BY <1>3, <2>2 DEF GetAgain, Load, Goto, Requests
  <2>. QED
    BY <2>1, <2>2
<1>4. ASSUME NEW r \in Requests, Insert(r) PROVE PutsMarked'
  BY <1>4 DEF Insert, Load, Goto
<1>5. ASSUME NEW r \in Requests, Finish(r) PROVE PutsMarked'
  BY <1>5 DEF Finish, Goto
<1>6. ASSUME NEW r \in Requests, Fail(r) PROVE PutsMarked'
  BY <1>6 DEF Fail, Goto
<1>7. ASSUME NEW m \in Mutations, StartMutate(m) PROVE PutsMarked'
  BY <1>7 DEF StartMutate, Goto, Requests
<1>8. ASSUME NEW m \in Mutations, CommitEdit(m) PROVE PutsMarked'
  BY <1>8 DEF CommitEdit, Goto, Requests
<1>9. ASSUME NEW m \in Mutations, RetryEdit(m) PROVE PutsMarked'
  BY <1>9 DEF RetryEdit, Goto, Requests
<1>10. ASSUME NEW p \in Puts, StartPut(p) PROVE PutsMarked'
  BY <1>10 DEF StartPut, Goto, Requests
<1>11. ASSUME NEW p \in Puts, SendPut(p) PROVE PutsMarked'
  BY <1>11 DEF SendPut, Goto, Requests
<1>12. ASSUME NEW p \in Puts, AdoptVersion(p) PROVE PutsMarked'
  BY <1>12 DEF AdoptVersion, Goto, Requests
<1>13. ASSUME NEW p \in Puts, RefusePut(p) PROVE PutsMarked'
  BY <1>13 DEF RefusePut, Goto, Requests
<1>14. ASSUME NEW p \in Puts, CommitPut(p) PROVE PutsMarked'
  BY <1>14 DEF CommitPut, Goto, Requests
<1>15. ASSUME NEW p \in Puts, ConflictPut(p) PROVE PutsMarked'
  BY <1>15 DEF ConflictPut, Goto, Requests
<1>16. ASSUME NEW j \in Jobs, ListWorkspaces(j) PROVE PutsMarked'
  BY <1>16 DEF ListWorkspaces
<1>17. ASSUME NEW j \in Jobs, NEW o \in Users, JobSkip(j, o) PROVE PutsMarked'
  BY <1>17 DEF JobSkip
<1>18. ASSUME NEW j \in Jobs, NEW o \in Users, JobCommit(j, o) PROVE PutsMarked'
  BY <1>18 DEF JobCommit
<1>19. ASSUME NEW j \in Jobs, NEW o \in Users, JobConflict(j,
              o) PROVE PutsMarked'
  BY <1>19 DEF JobConflict
<1>20. ASSUME NEW j \in Jobs, NEW o \in Users, JobRefresh(j,
              o) PROVE PutsMarked'
  BY <1>20 DEF JobRefresh
<1>21. ASSUME NEW o \in Users, SetOrgID(o) PROVE PutsMarked'
  BY <1>21 DEF SetOrgID
<1>22. ASSUME NEW ou \in Sharing, AddMember(ou[1], ou[2]) PROVE PutsMarked'
  BY <1>22 DEF AddMember
<1>23. ASSUME NEW ou \in Sharing, RemoveMember(ou[1], ou[2]) PROVE PutsMarked'
  BY <1>23 DEF RemoveMember
<1>24. CASE UNCHANGED vars
  BY <1>24 DEF vars
<1> HIDE DEF TypeOK, PutsMarked, store, resolved, putVars, jobVars, requestVars
<1>. QED
  BY <1>1, <1>2, <1>3, <1>4, <1>5, <1>6, <1>7, <1>8, <1>9, <1>10, <1>11, <1>12,
     <1>13, <1>14, <1>15, <1>16, <1>17, <1>18, <1>19, <1>20, <1>21, <1>22,
       <1>23, <1>24
  DEF Next, Resolve, Mutate, Put, Job, Membership, Requests

\* What a PUT carries after a step: what it carried before, unless this is
\* the step that sends it or gives it a version.
CarriedOrSent(p) ==
  /\ user'[p] = user[p]
  /\ ret'[p] = "putCheck" =>
       \/ SendPut(p)
       \/ AdoptVersion(p)
       \/ /\ ret[p] = "putCheck"
          /\ body'[p] = body[p]
          /\ expected'[p] = expected[p]
          /\ p \in blind => p \in blind'
          /\ p \in odd => p \in odd'

PutsCarried == \A p \in Puts : CarriedOrSent(p)

\* Only sending a PUT or adopting a version changes what it carries.
LEMMA PutsCarriedStep ==
  ASSUME TypeOK, [Next]_vars
  PROVE  PutsCarried
<1> USE DEF TypeOK, PutsCarried, CarriedOrSent, store, resolved, putVars,
            jobVars, requestVars
<1>1. ASSUME NEW r \in Requests, Get(r) PROVE PutsCarried
  BY <1>1 DEF Get
<1>2. ASSUME NEW r \in Requests, GetShared(r) PROVE PutsCarried
  BY <1>2 DEF GetShared
<1>3. ASSUME NEW r \in Requests, GetAgain(r) PROVE PutsCarried
  BY <1>3 DEF GetAgain
<1>4. ASSUME NEW r \in Requests, Insert(r) PROVE PutsCarried
  BY <1>4 DEF Insert
<1>5. ASSUME NEW r \in Requests, Finish(r) PROVE PutsCarried
  BY <1>5 DEF Finish
<1>6. ASSUME NEW r \in Requests, Fail(r) PROVE PutsCarried
  BY <1>6 DEF Fail
<1>7. ASSUME NEW m \in Mutations, StartMutate(m) PROVE PutsCarried
  BY <1>7 DEF StartMutate, Requests
<1>8. ASSUME NEW m \in Mutations, CommitEdit(m) PROVE PutsCarried
  BY <1>8 DEF CommitEdit
<1>9. ASSUME NEW m \in Mutations, RetryEdit(m) PROVE PutsCarried
  BY <1>9 DEF RetryEdit
<1>10. ASSUME NEW p \in Puts, StartPut(p) PROVE PutsCarried
  BY <1>10 DEF StartPut, Requests
<1>11. ASSUME NEW p \in Puts, SendPut(p) PROVE PutsCarried
  BY <1>11 DEF SendPut, Requests
<1>12. ASSUME NEW p \in Puts, AdoptVersion(p) PROVE PutsCarried
  BY <1>12 DEF AdoptVersion, Requests
<1>13. ASSUME NEW p \in Puts, RefusePut(p) PROVE PutsCarried
  BY <1>13 DEF RefusePut
<1>14. ASSUME NEW p \in Puts, CommitPut(p) PROVE PutsCarried
  BY <1>14 DEF CommitPut
<1>15. ASSUME NEW p \in Puts, ConflictPut(p) PROVE PutsCarried
  BY <1>15 DEF ConflictPut
<1>16. ASSUME NEW j \in Jobs, ListWorkspaces(j) PROVE PutsCarried
  BY <1>16 DEF ListWorkspaces
<1>17. ASSUME NEW j \in Jobs, NEW o \in Users, JobSkip(j, o) PROVE PutsCarried
  BY <1>17 DEF JobSkip
<1>18. ASSUME NEW j \in Jobs, NEW o \in Users, JobCommit(j, o) PROVE PutsCarried
  BY <1>18 DEF JobCommit
<1>19. ASSUME NEW j \in Jobs, NEW o \in Users, JobConflict(j,
              o) PROVE PutsCarried
  BY <1>19 DEF JobConflict
<1>20. ASSUME NEW j \in Jobs, NEW o \in Users, JobRefresh(j,
              o) PROVE PutsCarried
  BY <1>20 DEF JobRefresh
<1>21. ASSUME NEW o \in Users, SetOrgID(o) PROVE PutsCarried
  BY <1>21 DEF SetOrgID
<1>22. ASSUME NEW ou \in Sharing, AddMember(ou[1], ou[2]) PROVE PutsCarried
  BY <1>22 DEF AddMember
<1>23. ASSUME NEW ou \in Sharing, RemoveMember(ou[1], ou[2]) PROVE PutsCarried
  BY <1>23 DEF RemoveMember
<1>24. CASE UNCHANGED vars
  BY <1>24 DEF vars
<1> HIDE DEF TypeOK, PutsCarried, CarriedOrSent, store, resolved, putVars,
             jobVars, requestVars
<1>. QED
  BY <1>1, <1>2, <1>3, <1>4, <1>5, <1>6, <1>7, <1>8, <1>9, <1>10, <1>11, <1>12,
     <1>13, <1>14, <1>15, <1>16, <1>17, <1>18, <1>19, <1>20, <1>21, <1>22,
       <1>23, <1>24
  DEF Next, Resolve, Mutate, Put, Job, Membership, Requests

\* The version an owner's PUT expects stays coherent with what it carries.
LEMMA ExpectedStep ==
  ASSUME TypeOK, RowsStay, SnapshotsCoherent, PutsMarked, ExpectedCoherent,
    [Next]_vars
  PROVE  ExpectedCoherent'
<1>1. TypeOK' /\ VersionsGrow /\ PutsCarried
  BY TypeStep, VersionsGrowStep, PutsCarriedStep
<1>2. SUFFICES ASSUME NEW p \in Puts, p \notin odd',
                      user'[p] \in Provisioned, ret'[p] = "putCheck"
               PROVE  /\ expected'[p] <= ver'[user[p]]
                      /\ p \notin blind' /\ expected'[p] = ver'[user[p]]
                           => doc'[user[p]] \subseteq body'[p]
  BY <1>1 DEF ExpectedCoherent, PutsCarried, CarriedOrSent
<1>3. user[p] \in Provisioned /\ p \in Requests
  BY <1>1, <1>2 DEF PutsCarried, CarriedOrSent, Requests
<1>4. user[p] \in Users /\ ver[user[p]] \in Nat /\ ver'[user[p]] \in Nat
        /\ snapVer[p] \in Nat /\ expected[p] \in Nat
  BY <1>1, <1>3 DEF TypeOK
<1>5. ASSUME pc[p] \in Resolved
      PROVE  /\ snapOwner[p] = user[p]
             /\ snapVer[p] <= ver'[user[p]]
             /\ snapVer[p] = ver'[user[p]] => snapDoc[p] = doc'[user[p]]
  <2>1. snapOwner[p] = user[p]
    BY <1>3, <1>5 DEF RowsStay
  <2>2. Coherent(user[p], snapDoc[p], snapVer[p])
    BY <1>3, <1>5, <2>1 DEF SnapshotsCoherent
  <2>. QED
    BY <1>1, <1>4, <2>1, <2>2, CoherentStays
<1>6. CASE SendPut(p)
  <2>1. /\ snapOwner[p] = user[p]
        /\ snapVer[p] <= ver'[user[p]]
        /\ snapVer[p] = ver'[user[p]] => snapDoc[p] = doc'[user[p]]
    BY <1>5, <1>6 DEF SendPut, Resolved
  <2>2. View(snapOwner[p], user[p], snapDoc[p]) = snapDoc[p]
    BY <2>1 DEF View
  <2>3. PICK v \in Sendable \cup {snapVer[p]}, rs \in SUBSET RoleEdits :
          /\ body' = [body EXCEPT ![p] = (snapDoc[p] \ RoleEdits) \cup rs \cup {p}]
          /\ expected' = [expected EXCEPT ![p] = v]
          /\ odd' = IF v \in {0, snapVer[p]} /\ rs = Roles(snapDoc[p])
                      THEN odd ELSE odd \cup {p}
          /\ ret' = [ret EXCEPT ![p] = IF v = 0 THEN "putVersion" ELSE "putCheck"]
    BY <1>6, <2>2 DEF SendPut
  <2>4. v = snapVer[p] /\ rs = Roles(snapDoc[p])
    BY <1>2, <1>3, <2>3 DEF TypeOK
  <2>5. expected'[p] = snapVer[p] /\ body'[p] = snapDoc[p] \cup {p}
    BY <2>3, <2>4 DEF TypeOK, Roles
  <2>. QED
    BY <2>1, <2>5
<1>7. CASE AdoptVersion(p)
  <2>1. snapVer[p] <= ver'[user[p]]
    BY <1>5, <1>7 DEF AdoptVersion, Resolved
  <2>2. expected'[p] = snapVer[p] /\ p \in blind'
    BY <1>7 DEF AdoptVersion, TypeOK, PutsMarked
  <2>. QED
    BY <2>1, <2>2
<1>8. CASE /\ ret[p] = "putCheck"
           /\ body'[p] = body[p]
           /\ expected'[p] = expected[p]
           /\ p \in blind => p \in blind'
           /\ p \in odd => p \in odd'
  <2>1. /\ expected[p] <= ver[user[p]]
        /\ p \notin blind /\ expected[p] = ver[user[p]] => doc[user[p]] \subseteq body[p]
    BY <1>2, <1>3, <1>8 DEF ExpectedCoherent
  <2>. QED
    BY <1>1, <1>4, <1>8, <2>1 DEF VersionsGrow
<1>. QED
  BY <1>1, <1>2, <1>6, <1>7, <1>8 DEF PutsCarried, CarriedOrSent

\* PUT loads the document it compares roles with after it knows its version.
LEMMA LoadedStep ==
  ASSUME TypeOK, RowsStay, PutsMarked, ExpectedCoherent, LoadedAfterExpected,
    [Next]_vars
  PROVE  LoadedAfterExpected'
<1> USE DEF TypeOK, RowsStay, PutsMarked, ExpectedCoherent,
            LoadedAfterExpected, ComparedCurrent, Resolved, store, resolved,
            putVars, jobVars, requestVars
<1>1. ASSUME NEW r \in Requests, Get(r) PROVE LoadedAfterExpected'
  <2>1. CASE user[r] \in rows
    BY <1>1, <2>1 DEF Get, Load, Goto, Requests
  <2>2. CASE user[r] \notin rows
    BY <1>1, <2>2 DEF Get, Load, Goto, Requests
  <2>. QED
    BY <2>1, <2>2
<1>2. ASSUME NEW r \in Requests, GetShared(r) PROVE LoadedAfterExpected'
  <2>1. CASE SharedWith(user[r]) = {}
    BY <1>2, <2>1 DEF GetShared, Goto, Requests
  <2>2. CASE SharedWith(user[r]) # {}
    <3>1. PICK o \in SharedWith(user[r]) : Load(r, o, doc[o], ver[o])
      BY <1>2, <2>2 DEF GetShared
    <3>. QED
      BY <1>2, <3>1 DEF GetShared, Load, Goto, Requests
  <2>. QED
    BY <2>1, <2>2
<1>3. ASSUME NEW r \in Requests, GetAgain(r) PROVE LoadedAfterExpected'
  <2>1. CASE user[r] \in rows
    BY <1>3, <2>1 DEF GetAgain, Load, Goto, Requests
  <2>2. CASE user[r] \notin rows
    BY <1>3, <2>2 DEF GetAgain, Load, Goto, Requests
  <2>. QED
    BY <2>1, <2>2
<1>4. ASSUME NEW r \in Requests, Insert(r) PROVE LoadedAfterExpected'
  BY <1>4 DEF Insert, Load, Goto, Requests
<1>5. ASSUME NEW r \in Requests, Finish(r) PROVE LoadedAfterExpected'
  BY <1>5 DEF Finish, Goto, Requests
<1>6. ASSUME NEW r \in Requests, Fail(r) PROVE LoadedAfterExpected'
  BY <1>6 DEF Fail, Goto, Requests
<1>7. ASSUME NEW m \in Mutations, StartMutate(m) PROVE LoadedAfterExpected'
  BY <1>7 DEF StartMutate, Goto, Requests
<1>8. ASSUME NEW m \in Mutations, CommitEdit(m) PROVE LoadedAfterExpected'
  BY <1>8 DEF CommitEdit, Goto, Requests
<1>9. ASSUME NEW m \in Mutations, RetryEdit(m) PROVE LoadedAfterExpected'
  BY <1>9 DEF RetryEdit, Goto, Requests
<1>10. ASSUME NEW p \in Puts, StartPut(p) PROVE LoadedAfterExpected'
  BY <1>10 DEF StartPut, Goto, Requests
<1>11. ASSUME NEW p \in Puts, SendPut(p) PROVE LoadedAfterExpected'
  BY <1>11 DEF SendPut, Goto, Requests
<1>12. ASSUME NEW p \in Puts, AdoptVersion(p) PROVE LoadedAfterExpected'
  BY <1>12 DEF AdoptVersion, Goto, Requests
<1>13. ASSUME NEW p \in Puts, RefusePut(p) PROVE LoadedAfterExpected'
  BY <1>13 DEF RefusePut, Goto, Requests
<1>14. ASSUME NEW p \in Puts, CommitPut(p) PROVE LoadedAfterExpected'
  BY <1>14 DEF CommitPut, Goto, Requests
<1>15. ASSUME NEW p \in Puts, ConflictPut(p) PROVE LoadedAfterExpected'
  BY <1>15 DEF ConflictPut, Goto, Requests
<1>16. ASSUME NEW j \in Jobs, ListWorkspaces(j) PROVE LoadedAfterExpected'
  BY <1>16 DEF ListWorkspaces
<1>17. ASSUME NEW j \in Jobs, NEW o \in Users, JobSkip(j,
              o) PROVE LoadedAfterExpected'
  BY <1>17 DEF JobSkip
<1>18. ASSUME NEW j \in Jobs, NEW o \in Users, JobCommit(j,
              o) PROVE LoadedAfterExpected'
  BY <1>18 DEF JobCommit
<1>19. ASSUME NEW j \in Jobs, NEW o \in Users, JobConflict(j,
              o) PROVE LoadedAfterExpected'
  BY <1>19 DEF JobConflict
<1>20. ASSUME NEW j \in Jobs, NEW o \in Users, JobRefresh(j,
              o) PROVE LoadedAfterExpected'
  BY <1>20 DEF JobRefresh
<1>21. ASSUME NEW o \in Users, SetOrgID(o) PROVE LoadedAfterExpected'
  BY <1>21 DEF SetOrgID
<1>22. ASSUME NEW ou \in Sharing, AddMember(ou[1],
              ou[2]) PROVE LoadedAfterExpected'
  BY <1>22 DEF AddMember
<1>23. ASSUME NEW ou \in Sharing, RemoveMember(ou[1],
              ou[2]) PROVE LoadedAfterExpected'
  BY <1>23 DEF RemoveMember
<1>24. CASE UNCHANGED vars
  BY <1>24 DEF vars
<1> HIDE DEF TypeOK, RowsStay, PutsMarked, ExpectedCoherent,
             LoadedAfterExpected, ComparedCurrent, Resolved, store, resolved,
             putVars, jobVars, requestVars
<1>. QED
  BY <1>1, <1>2, <1>3, <1>4, <1>5, <1>6, <1>7, <1>8, <1>9, <1>10, <1>11, <1>12,
     <1>13, <1>14, <1>15, <1>16, <1>17, <1>18, <1>19, <1>20, <1>21, <1>22,
       <1>23, <1>24
  DEF Next, Resolve, Mutate, Put, Job, Membership, Requests

\* When the version matches, the writer works on the document that is there.
LEMMA CommitFacts ==
  ASSUME IndInv
  PROVE  /\ \A m \in Mutations :
              CommitEdit(m) /\ snapOwner[m] \in Provisioned
                => snapDoc[m] = doc[snapOwner[m]]
         /\ \A j \in Jobs, o \in Provisioned :
              JobCommit(j, o) => jdoc[<<j, o>>] = doc[o]
         /\ \A p \in Puts : CommitPut(p) => p \in body[p]
<1>1. ASSUME NEW m \in Mutations, CommitEdit(m), snapOwner[m] \in Provisioned
      PROVE  snapDoc[m] = doc[snapOwner[m]]
  BY <1>1 DEF IndInv, SnapshotsCoherent, Coherent, CommitEdit, VersionMatches,
     Resolved, Requests
<1>2. ASSUME NEW j \in Jobs, NEW o \in Provisioned, JobCommit(j, o)
      PROVE  jdoc[<<j, o>>] = doc[o]
  BY <1>2 DEF IndInv, SnapshotsCoherent, Coherent, JobCommit, JobAt,
     VersionMatches
<1>3. ASSUME NEW p \in Puts, CommitPut(p)
      PROVE  p \in body[p]
  BY <1>3 DEF IndInv, PutsMarked, CommitPut
<1>. QED
  BY <1>1, <1>2, <1>3

\* Reading a row again touches no written edit.
LEMMA SurvivesLoad ==
  ASSUME CommittedEditSurvives, NEW r \in Requests,
         doc' = doc, lost' = lost, commits' = commits, commits[r] = 0,
         \A q \in Requests \ {r} : snapOwner'[q] = snapOwner[q]
  PROVE  CommittedEditSurvives'
<1> SUFFICES ASSUME NEW q \in Requests,
                    commits[q] > 0, snapOwner'[q] \in Provisioned
             PROVE  \/ q \in doc[snapOwner'[q]]
                    \/ \E p \in Puts : <<q, p, snapOwner'[q]>> \in lost
  BY DEF CommittedEditSurvives
<1>1. q # r
  OBVIOUS
<1>2. snapOwner'[q] = snapOwner[q]
  BY <1>1
<1>. QED
  BY <1>2 DEF CommittedEditSurvives

\* No step of Mutate or of a job removes a written edit.
LEMMA SurvivesStep ==
  ASSUME IndInv, [Next]_vars
  PROVE  CommittedEditSurvives'
<1> USE DEF TypeOK, CommitsCounted, CommittedEditSurvives, store, resolved,
            putVars, jobVars, requestVars
<1>0. TypeOK /\ CommitsCounted /\ CommittedEditSurvives /\ Provisioned \subseteq Users
  BY SetsAssumption DEF IndInv
<1>1. ASSUME NEW r \in Requests, Get(r) PROVE CommittedEditSurvives'
  <2>1. doc' = doc /\ lost' = lost /\ commits' = commits /\ commits[r] = 0
    BY <1>1, <1>0 DEF Get
  <2>2. \A q \in Requests \ {r} : snapOwner'[q] = snapOwner[q]
    BY <1>1, <1>0 DEF Get, Load
  <2>. QED
    BY <1>0, <2>1, <2>2, SurvivesLoad
<1>2. ASSUME NEW r \in Requests, GetShared(r) PROVE CommittedEditSurvives'
  <2>1. doc' = doc /\ lost' = lost /\ commits' = commits /\ commits[r] = 0
    BY <1>2, <1>0 DEF GetShared
  <2>2. \A q \in Requests \ {r} : snapOwner'[q] = snapOwner[q]
    BY <1>2, <1>0 DEF GetShared, Load
  <2>. QED
    BY <1>0, <2>1, <2>2, SurvivesLoad
<1>3. ASSUME NEW r \in Requests, GetAgain(r) PROVE CommittedEditSurvives'
  <2>1. doc' = doc /\ lost' = lost /\ commits' = commits /\ commits[r] = 0
    BY <1>3, <1>0 DEF GetAgain
  <2>2. \A q \in Requests \ {r} : snapOwner'[q] = snapOwner[q]
    BY <1>3, <1>0 DEF GetAgain, Load
  <2>. QED
    BY <1>0, <2>1, <2>2, SurvivesLoad
<1>4. ASSUME NEW r \in Requests, Insert(r) PROVE CommittedEditSurvives'
  <2>1. doc' = doc /\ lost' = lost /\ commits' = commits /\ commits[r] = 0
    BY <1>4, <1>0 DEF Insert
  <2>2. \A q \in Requests \ {r} : snapOwner'[q] = snapOwner[q]
    BY <1>4, <1>0 DEF Insert, Load
  <2>. QED
    BY <1>0, <2>1, <2>2, SurvivesLoad
<1>5. ASSUME NEW r \in Requests, Finish(r) PROVE CommittedEditSurvives'
  BY <1>5, <1>0 DEF Finish
<1>6. ASSUME NEW r \in Requests, Fail(r) PROVE CommittedEditSurvives'
  BY <1>6, <1>0 DEF Fail
<1>7. ASSUME NEW m \in Mutations, StartMutate(m) PROVE CommittedEditSurvives'
  BY <1>7, <1>0 DEF StartMutate
<1>8. ASSUME NEW m \in Mutations, CommitEdit(m) PROVE CommittedEditSurvives'
  <2>1. m \in Requests
    BY DEF Requests
  <2>2. snapOwner[m] \in Provisioned => snapDoc[m] = doc[snapOwner[m]]
    BY <1>8, CommitFacts
  <2>. QED
    BY <1>8, <1>0, <2>1, <2>2 DEF CommitEdit, Written
<1>9. ASSUME NEW m \in Mutations, RetryEdit(m) PROVE CommittedEditSurvives'
  BY <1>9, <1>0 DEF RetryEdit
<1>10. ASSUME NEW p \in Puts, StartPut(p) PROVE CommittedEditSurvives'
  BY <1>10, <1>0 DEF StartPut
<1>11. ASSUME NEW p \in Puts, SendPut(p) PROVE CommittedEditSurvives'
  BY <1>11, <1>0 DEF SendPut
<1>12. ASSUME NEW p \in Puts, AdoptVersion(p) PROVE CommittedEditSurvives'
  BY <1>12, <1>0 DEF AdoptVersion
<1>13. ASSUME NEW p \in Puts, RefusePut(p) PROVE CommittedEditSurvives'
  BY <1>13, <1>0 DEF RefusePut
<1>14. ASSUME NEW p \in Puts, CommitPut(p) PROVE CommittedEditSurvives'
  <2>1. p \in Requests /\ p \in body[p]
    BY <1>14, CommitFacts DEF Requests
  <2>. QED
    BY <1>14, <1>0, <2>1 DEF CommitPut, Written
<1>15. ASSUME NEW p \in Puts, ConflictPut(p) PROVE CommittedEditSurvives'
  BY <1>15, <1>0 DEF ConflictPut
<1>16. ASSUME NEW j \in Jobs, ListWorkspaces(j) PROVE CommittedEditSurvives'
  BY <1>16, <1>0 DEF ListWorkspaces
<1>17. ASSUME NEW j \in Jobs, NEW o \in Users, JobSkip(j,
              o) PROVE CommittedEditSurvives'
  BY <1>17, <1>0 DEF JobSkip
<1>18. ASSUME NEW j \in Jobs, NEW o \in Users, JobCommit(j,
              o) PROVE CommittedEditSurvives'
  <2>1. o \in Provisioned => jdoc[<<j, o>>] = doc[o]
    BY <1>18, CommitFacts
  <2>. QED
    BY <1>18, <1>0, <2>1 DEF JobCommit, Written
<1>19. ASSUME NEW j \in Jobs, NEW o \in Users, JobConflict(j,
              o) PROVE CommittedEditSurvives'
  BY <1>19, <1>0 DEF JobConflict
<1>20. ASSUME NEW j \in Jobs, NEW o \in Users, JobRefresh(j,
              o) PROVE CommittedEditSurvives'
  BY <1>20, <1>0 DEF JobRefresh
<1>21. ASSUME NEW o \in Users, SetOrgID(o) PROVE CommittedEditSurvives'
  BY <1>21, <1>0 DEF SetOrgID
<1>22. ASSUME NEW ou \in Sharing, AddMember(ou[1],
              ou[2]) PROVE CommittedEditSurvives'
  BY <1>22, <1>0 DEF AddMember
<1>23. ASSUME NEW ou \in Sharing, RemoveMember(ou[1],
              ou[2]) PROVE CommittedEditSurvives'
  BY <1>23, <1>0 DEF RemoveMember
<1>24. CASE UNCHANGED vars
  BY <1>24, <1>0 DEF vars
<1> HIDE DEF TypeOK, CommitsCounted, CommittedEditSurvives, store, resolved,
             putVars, jobVars, requestVars
<1>. QED
  BY <1>1, <1>2, <1>3, <1>4, <1>5, <1>6, <1>7, <1>8, <1>9, <1>10, <1>11, <1>12,
     <1>13, <1>14, <1>15, <1>16, <1>17, <1>18, <1>19, <1>20, <1>21, <1>22,
       <1>23, <1>24
  DEF Next, Resolve, Mutate, Put, Job, Membership, Requests

\* No step makes an owner's PUT with If-Match remove an edit.
LEMMA KeepsStep ==
  ASSUME IndInv, [Next]_vars
  PROVE  OwnerIfMatchPutKeepsEdits'
<1> USE DEF TypeOK, OwnerIfMatchPutKeepsEdits, store, resolved, putVars,
            jobVars, requestVars
<1>0. TypeOK /\ OwnerIfMatchPutKeepsEdits
  BY DEF IndInv
<1>1. ASSUME NEW r \in Requests, Get(r) PROVE OwnerIfMatchPutKeepsEdits'
  BY <1>1, <1>0 DEF Get
<1>2. ASSUME NEW r \in Requests, GetShared(r) PROVE OwnerIfMatchPutKeepsEdits'
  BY <1>2, <1>0 DEF GetShared
<1>3. ASSUME NEW r \in Requests, GetAgain(r) PROVE OwnerIfMatchPutKeepsEdits'
  BY <1>3, <1>0 DEF GetAgain
<1>4. ASSUME NEW r \in Requests, Insert(r) PROVE OwnerIfMatchPutKeepsEdits'
  BY <1>4, <1>0 DEF Insert
<1>5. ASSUME NEW r \in Requests, Finish(r) PROVE OwnerIfMatchPutKeepsEdits'
  BY <1>5, <1>0 DEF Finish
<1>6. ASSUME NEW r \in Requests, Fail(r) PROVE OwnerIfMatchPutKeepsEdits'
  BY <1>6, <1>0 DEF Fail
<1>7. ASSUME NEW m \in Mutations, StartMutate(m) PROVE OwnerIfMatchPutKeepsEdits'
  BY <1>7, <1>0 DEF StartMutate
<1>8. ASSUME NEW m \in Mutations, CommitEdit(m) PROVE OwnerIfMatchPutKeepsEdits'
  <2>1. m \notin Puts
    BY SetsAssumption
  <2>. QED
    BY <1>8, <1>0, <2>1 DEF CommitEdit, Written
<1>9. ASSUME NEW m \in Mutations, RetryEdit(m) PROVE OwnerIfMatchPutKeepsEdits'
  BY <1>9, <1>0 DEF RetryEdit
<1>10. ASSUME NEW p \in Puts, StartPut(p) PROVE OwnerIfMatchPutKeepsEdits'
  BY <1>10, <1>0 DEF StartPut
<1>11. ASSUME NEW p \in Puts, SendPut(p) PROVE OwnerIfMatchPutKeepsEdits'
  BY <1>11, <1>0 DEF SendPut
<1>12. ASSUME NEW p \in Puts, AdoptVersion(p) PROVE OwnerIfMatchPutKeepsEdits'
  BY <1>12, <1>0 DEF AdoptVersion
<1>13. ASSUME NEW p \in Puts, RefusePut(p) PROVE OwnerIfMatchPutKeepsEdits'
  BY <1>13, <1>0 DEF RefusePut
<1>14. ASSUME NEW p \in Puts, CommitPut(p) PROVE OwnerIfMatchPutKeepsEdits'
  <2>1. user[p] = snapOwner[p] /\ user[p] \in Provisioned /\ p \notin blind \cup odd
          => doc[snapOwner[p]] \subseteq body[p]
    BY <1>14 DEF CommitPut, VersionMatches, IndInv, PutsMarked, ExpectedCoherent
  <2>. QED
    BY <1>14, <1>0, <2>1 DEF CommitPut, Written
<1>15. ASSUME NEW p \in Puts, ConflictPut(p) PROVE OwnerIfMatchPutKeepsEdits'
  BY <1>15, <1>0 DEF ConflictPut
<1>16. ASSUME NEW j \in Jobs, ListWorkspaces(j) PROVE OwnerIfMatchPutKeepsEdits'
  BY <1>16, <1>0 DEF ListWorkspaces
<1>17. ASSUME NEW j \in Jobs, NEW o \in Users, JobSkip(j,
              o) PROVE OwnerIfMatchPutKeepsEdits'
  BY <1>17, <1>0 DEF JobSkip
<1>18. ASSUME NEW j \in Jobs, NEW o \in Users, JobCommit(j,
              o) PROVE OwnerIfMatchPutKeepsEdits'
  <2>1. j \notin Puts
    BY SetsAssumption DEF Requests
  <2>. QED
    BY <1>18, <1>0, <2>1 DEF JobCommit, Written
<1>19. ASSUME NEW j \in Jobs, NEW o \in Users, JobConflict(j,
              o) PROVE OwnerIfMatchPutKeepsEdits'
  BY <1>19, <1>0 DEF JobConflict
<1>20. ASSUME NEW j \in Jobs, NEW o \in Users, JobRefresh(j,
              o) PROVE OwnerIfMatchPutKeepsEdits'
  BY <1>20, <1>0 DEF JobRefresh
<1>21. ASSUME NEW o \in Users, SetOrgID(o) PROVE OwnerIfMatchPutKeepsEdits'
  BY <1>21, <1>0 DEF SetOrgID
<1>22. ASSUME NEW ou \in Sharing, AddMember(ou[1],
              ou[2]) PROVE OwnerIfMatchPutKeepsEdits'
  BY <1>22, <1>0 DEF AddMember
<1>23. ASSUME NEW ou \in Sharing, RemoveMember(ou[1],
              ou[2]) PROVE OwnerIfMatchPutKeepsEdits'
  BY <1>23, <1>0 DEF RemoveMember
<1>24. CASE UNCHANGED vars
  BY <1>24, <1>0 DEF vars
<1> HIDE DEF TypeOK, OwnerIfMatchPutKeepsEdits, store, resolved, putVars,
             jobVars, requestVars
<1>. QED
  BY <1>1, <1>2, <1>3, <1>4, <1>5, <1>6, <1>7, <1>8, <1>9, <1>10, <1>11, <1>12,
     <1>13, <1>14, <1>15, <1>16, <1>17, <1>18, <1>19, <1>20, <1>21, <1>22,
       <1>23, <1>24
  DEF Next, Resolve, Mutate, Put, Job, Membership, Requests

\* Roles that somebody read stay on record, and only Update brings in others.
LEMMA RolesOnRecordStep ==
  ASSUME TypeOK, RolesOnRecord, [Next]_vars
  PROVE  RolesOnRecord'
<1> USE DEF TypeOK, RolesOnRecord, store, resolved, putVars, jobVars, requestVars
<1>1. ASSUME NEW r \in Requests, Get(r) PROVE RolesOnRecord'
  <2>1. CASE user[r] \in rows
    BY <1>1, <2>1 DEF Get, Load
  <2>2. CASE user[r] \notin rows
    BY <1>1, <2>2 DEF Get
  <2>. QED
    BY <2>1, <2>2
<1>2. ASSUME NEW r \in Requests, GetShared(r) PROVE RolesOnRecord'
  <2>1. CASE SharedWith(user[r]) = {}
    BY <1>2, <2>1 DEF GetShared
  <2>2. CASE SharedWith(user[r]) # {}
    <3>1. PICK o \in SharedWith(user[r]) : Load(r, o, doc[o], ver[o])
      BY <1>2, <2>2 DEF GetShared
    <3>2. o \in Users
      BY DEF SharedWith
    <3>. QED
      BY <1>2, <3>1, <3>2 DEF GetShared, Load
  <2>. QED
    BY <2>1, <2>2
<1>3. ASSUME NEW r \in Requests, GetAgain(r) PROVE RolesOnRecord'
  <2>1. CASE user[r] \in rows
    BY <1>3, <2>1 DEF GetAgain, Load
  <2>2. CASE user[r] \notin rows
    BY <1>3, <2>2 DEF GetAgain
  <2>. QED
    BY <2>1, <2>2
<1>4. ASSUME NEW r \in Requests, Insert(r) PROVE RolesOnRecord'
  BY <1>4 DEF Insert, Load
<1>5. ASSUME NEW r \in Requests, Finish(r) PROVE RolesOnRecord'
  BY <1>5 DEF Finish
<1>6. ASSUME NEW r \in Requests, Fail(r) PROVE RolesOnRecord'
  BY <1>6 DEF Fail
<1>7. ASSUME NEW m \in Mutations, StartMutate(m) PROVE RolesOnRecord'
  BY <1>7 DEF StartMutate
<1>8. ASSUME NEW m \in Mutations, CommitEdit(m) PROVE RolesOnRecord'
  BY <1>8 DEF CommitEdit, Written, Requests
<1>9. ASSUME NEW m \in Mutations, RetryEdit(m) PROVE RolesOnRecord'
  BY <1>9 DEF RetryEdit
<1>10. ASSUME NEW p \in Puts, StartPut(p) PROVE RolesOnRecord'
  BY <1>10 DEF StartPut
<1>11. ASSUME NEW p \in Puts, SendPut(p) PROVE RolesOnRecord'
  BY <1>11 DEF SendPut
<1>12. ASSUME NEW p \in Puts, AdoptVersion(p) PROVE RolesOnRecord'
  BY <1>12 DEF AdoptVersion
<1>13. ASSUME NEW p \in Puts, RefusePut(p) PROVE RolesOnRecord'
  BY <1>13 DEF RefusePut
<1>14. ASSUME NEW p \in Puts, CommitPut(p) PROVE RolesOnRecord'
  BY <1>14 DEF CommitPut, Written, Requests
<1>15. ASSUME NEW p \in Puts, ConflictPut(p) PROVE RolesOnRecord'
  BY <1>15 DEF ConflictPut
<1>16. ASSUME NEW j \in Jobs, ListWorkspaces(j) PROVE RolesOnRecord'
  BY <1>16 DEF ListWorkspaces
<1>17. ASSUME NEW j \in Jobs, NEW o \in Users, JobSkip(j, o) PROVE RolesOnRecord'
  BY <1>17 DEF JobSkip
<1>18. ASSUME NEW j \in Jobs, NEW o \in Users, JobCommit(j, o) PROVE RolesOnRecord'
  BY <1>18 DEF JobCommit, Written, Requests
<1>19. ASSUME NEW j \in Jobs, NEW o \in Users, JobConflict(j, o) PROVE RolesOnRecord'
  BY <1>19 DEF JobConflict
<1>20. ASSUME NEW j \in Jobs, NEW o \in Users, JobRefresh(j, o) PROVE RolesOnRecord'
  BY <1>20 DEF JobRefresh
<1>21. ASSUME NEW o \in Users, SetOrgID(o) PROVE RolesOnRecord'
  BY <1>21 DEF SetOrgID
<1>22. ASSUME NEW ou \in Sharing, AddMember(ou[1], ou[2]) PROVE RolesOnRecord'
  BY <1>22 DEF AddMember
<1>23. ASSUME NEW ou \in Sharing, RemoveMember(ou[1], ou[2]) PROVE RolesOnRecord'
  BY <1>23 DEF RemoveMember
<1>24. CASE UNCHANGED vars
  BY <1>24 DEF vars
<1> HIDE DEF TypeOK, RolesOnRecord, store, resolved, putVars, jobVars, requestVars
<1>. QED
  BY <1>1, <1>2, <1>3, <1>4, <1>5, <1>6, <1>7, <1>8, <1>9, <1>10, <1>11, <1>12,
     <1>13, <1>14, <1>15, <1>16, <1>17, <1>18, <1>19, <1>20, <1>21, <1>22,
       <1>23, <1>24
  DEF Next, Resolve, Mutate, Put, Job, Membership, Requests

\* The freshly started backend satisfies the invariant.
LEMMA InitIndInv == Init => IndInv
<1> SUFFICES ASSUME Init PROVE IndInv
  OBVIOUS
<1> USE SetsAssumption DEF Init
<1>1. TypeOK
  BY DEF TypeOK, Labels, Returns, JobLabels, DefaultDoc, Roles
<1>2. RowsStay
  BY DEF RowsStay, Resolved
<1>3. SnapshotsCoherent
  BY DEF SnapshotsCoherent, Resolved
<1>4. PutsMarked /\ ExpectedCoherent /\ LoadedAfterExpected
  BY DEF PutsMarked, ExpectedCoherent, LoadedAfterExpected, Requests
<1>5. CommitsCounted /\ CommittedEditSurvives /\ OwnerIfMatchPutKeepsEdits
  BY DEF CommitsCounted, CommittedEditSurvives, OwnerIfMatchPutKeepsEdits
<1>6. RolesOnRecord
  BY <1>1 DEF RolesOnRecord, TypeOK
<1>. QED
  BY <1>1, <1>2, <1>3, <1>4, <1>5, <1>6 DEF IndInv

\* Every step preserves the invariant.
LEMMA NextIndInv == IndInv /\ [Next]_vars => IndInv'
<1> SUFFICES ASSUME IndInv, [Next]_vars PROVE IndInv'
  OBVIOUS
<1>1. TypeOK' /\ RowsStay' /\ SnapshotsCoherent'
  BY TypeStep, RowsStayStep, SnapshotsStep DEF IndInv
<1>2. PutsMarked' /\ ExpectedCoherent' /\ LoadedAfterExpected'
  BY PutsMarkedStep, ExpectedStep, LoadedStep DEF IndInv
<1>3. CommitsCounted' /\ CommittedEditSurvives' /\ OwnerIfMatchPutKeepsEdits'
  BY CommitsCountedStep, SurvivesStep, KeepsStep DEF IndInv
<1>4. RolesOnRecord'
  BY RolesOnRecordStep DEF IndInv
<1>. QED
  BY <1>1, <1>2, <1>3, <1>4 DEF IndInv

\* The invariant holds in every reachable state, for every set of users,
\* requests and jobs.
THEOREM Invariance == Spec => []IndInv
<1>. QED
  BY InitIndInv, NextIndInv, PTL DEF Spec

\* The rows, the requests and the history have their types.
THEOREM TypeCorrect == Spec => []TypeOK
<1>1. IndInv => TypeOK
  BY DEF IndInv
<1>. QED
  BY <1>1, Invariance, PTL

\* Mutate and the jobs lose no update of a workspace that was there before.
THEOREM NoLostUpdate == Spec => []CommittedEditSurvives
<1>1. IndInv => CommittedEditSurvives
  BY DEF IndInv
<1>. QED
  BY <1>1, Invariance, PTL

\* An owner's PUT with If-Match removes nobody's edit.
THEOREM IfMatchIsSafe == Spec => []OwnerIfMatchPutKeepsEdits
<1>1. IndInv => OwnerIfMatchPutKeepsEdits
  BY DEF IndInv
<1>. QED
  BY <1>1, Invariance, PTL

\* Answers are truthful and nothing is written twice.
THEOREM AnswersAreTrue == Spec => []AnswerMatchesOutcome
<1>1. IndInv => AnswerMatchesOutcome
  BY DEF IndInv, TypeOK, CommitsCounted, AnswerMatchesOutcome, Labels, Answered
<1>. QED
  BY <1>1, Invariance, PTL

-----------------------------------------------------------------------------
(* The role check.                                                         *)

\* Only CommitPut moves a PUT from its checks to a commit.
OnlyCommitPutCommits ==
  \A p \in Puts : pc[p] = "putCheck" /\ pc'[p] = "committed" => CommitPut(p)

\* The successful UPDATE is the only way from the checks to a commit.
LEMMA OnlyCommitPutStep ==
  ASSUME TypeOK, [Next]_vars
  PROVE  OnlyCommitPutCommits
<1> USE DEF TypeOK, OnlyCommitPutCommits, store, resolved, putVars, jobVars,
            requestVars
<1>1. ASSUME NEW r \in Requests, Get(r) PROVE OnlyCommitPutCommits
  <2>1. \A p \in Puts : pc[p] = "putCheck" => p # r
    BY <1>1 DEF Get
  <2>. QED
    BY <1>1, <2>1 DEF Get, Load, Goto, Requests
<1>2. ASSUME NEW r \in Requests, GetShared(r) PROVE OnlyCommitPutCommits
  <2>1. \A p \in Puts : pc[p] = "putCheck" => p # r
    BY <1>2 DEF GetShared
  <2>. QED
    BY <1>2, <2>1 DEF GetShared, Load, Goto, Requests
<1>3. ASSUME NEW r \in Requests, GetAgain(r) PROVE OnlyCommitPutCommits
  <2>1. \A p \in Puts : pc[p] = "putCheck" => p # r
    BY <1>3 DEF GetAgain
  <2>. QED
    BY <1>3, <2>1 DEF GetAgain, Load, Goto, Requests
<1>4. ASSUME NEW r \in Requests, Insert(r) PROVE OnlyCommitPutCommits
  <2>1. \A p \in Puts : pc[p] = "putCheck" => p # r
    BY <1>4 DEF Insert
  <2>. QED
    BY <1>4, <2>1 DEF Insert, Load, Goto, Requests
<1>5. ASSUME NEW r \in Requests, Finish(r) PROVE OnlyCommitPutCommits
  BY <1>5 DEF Finish, Goto, Requests
<1>6. ASSUME NEW r \in Requests, Fail(r) PROVE OnlyCommitPutCommits
  BY <1>6 DEF Fail, Goto, Requests
<1>7. ASSUME NEW m \in Mutations, StartMutate(m) PROVE OnlyCommitPutCommits
  BY <1>7 DEF StartMutate, Goto, Requests
<1>8. ASSUME NEW m \in Mutations, CommitEdit(m) PROVE OnlyCommitPutCommits
  BY <1>8 DEF CommitEdit, Goto, Requests
<1>9. ASSUME NEW m \in Mutations, RetryEdit(m) PROVE OnlyCommitPutCommits
  BY <1>9 DEF RetryEdit, Goto, Requests
<1>10. ASSUME NEW p \in Puts, StartPut(p) PROVE OnlyCommitPutCommits
  BY <1>10 DEF StartPut, Goto, Requests
<1>11. ASSUME NEW p \in Puts, SendPut(p) PROVE OnlyCommitPutCommits
  BY <1>11 DEF SendPut, Goto, Requests
<1>12. ASSUME NEW p \in Puts, AdoptVersion(p) PROVE OnlyCommitPutCommits
  BY <1>12 DEF AdoptVersion, Goto, Requests
<1>13. ASSUME NEW p \in Puts, RefusePut(p) PROVE OnlyCommitPutCommits
  BY <1>13 DEF RefusePut, Goto, Requests
<1>14. ASSUME NEW p \in Puts, CommitPut(p) PROVE OnlyCommitPutCommits
  BY <1>14 DEF CommitPut, Goto, Requests
<1>15. ASSUME NEW p \in Puts, ConflictPut(p) PROVE OnlyCommitPutCommits
  BY <1>15 DEF ConflictPut, Goto, Requests
<1>16. ASSUME NEW j \in Jobs, ListWorkspaces(j) PROVE OnlyCommitPutCommits
  BY <1>16 DEF ListWorkspaces
<1>17. ASSUME NEW j \in Jobs, NEW o \in Users, JobSkip(j,
              o) PROVE OnlyCommitPutCommits
  BY <1>17 DEF JobSkip
<1>18. ASSUME NEW j \in Jobs, NEW o \in Users, JobCommit(j,
              o) PROVE OnlyCommitPutCommits
  BY <1>18 DEF JobCommit
<1>19. ASSUME NEW j \in Jobs, NEW o \in Users, JobConflict(j,
              o) PROVE OnlyCommitPutCommits
  BY <1>19 DEF JobConflict
<1>20. ASSUME NEW j \in Jobs, NEW o \in Users, JobRefresh(j,
              o) PROVE OnlyCommitPutCommits
  BY <1>20 DEF JobRefresh
<1>21. ASSUME NEW o \in Users, SetOrgID(o) PROVE OnlyCommitPutCommits
  BY <1>21 DEF SetOrgID
<1>22. ASSUME NEW ou \in Sharing, AddMember(ou[1],
              ou[2]) PROVE OnlyCommitPutCommits
  BY <1>22 DEF AddMember
<1>23. ASSUME NEW ou \in Sharing, RemoveMember(ou[1],
              ou[2]) PROVE OnlyCommitPutCommits
  BY <1>23 DEF RemoveMember
<1>24. CASE UNCHANGED vars
  BY <1>24 DEF vars
<1> HIDE DEF TypeOK, OnlyCommitPutCommits, store, resolved, putVars, jobVars,
             requestVars
<1>. QED
  BY <1>1, <1>2, <1>3, <1>4, <1>5, <1>6, <1>7, <1>8, <1>9, <1>10, <1>11, <1>12,
     <1>13, <1>14, <1>15, <1>16, <1>17, <1>18, <1>19, <1>20, <1>21, <1>22,
       <1>23, <1>24
  DEF Next, Resolve, Mutate, Put, Job, Membership, Requests

\* A PUT without pm.admin stores roles of the document it was compared with;
\* when that one is not older than the expected version, it is the very document
\* the UPDATE replaces.
LEMMA CommitPutKeepsRoles ==
  ASSUME IndInv, NEW p \in Puts, CommitPut(p),
         user[p] \notin Admins, snapOwner[p] \in Provisioned
  PROVE  /\ Roles(doc'[snapOwner[p]]) \in hadRoles[snapOwner[p]]
         /\ ComparedCurrent(p) \/ (user[p] = snapOwner[p] /\ p \notin odd)
              => Roles(doc'[snapOwner[p]]) = Roles(doc[snapOwner[p]])
<1>1. p \in Requests /\ snapOwner[p] \in Users
  BY SetsAssumption DEF Requests
<1>2. TypeOK /\ pc[p] = "putCheck"
  BY DEF IndInv, CommitPut
<1>3. Roles(snapDoc[p]) = Roles(body[p])
  BY DEF CommitPut, RolesAllowed
<1>4. doc'[snapOwner[p]] = body[p]
  BY <1>1, <1>2 DEF CommitPut, Written, TypeOK
<1>5. Roles(snapDoc[p]) \in hadRoles[snapOwner[p]]
  BY <1>1 DEF IndInv, RolesOnRecord
<1>6. ASSUME ComparedCurrent(p) \/ (user[p] = snapOwner[p] /\ p \notin odd)
      PROVE  snapDoc[p] = doc[snapOwner[p]]
  <2>1. ComparedCurrent(p)
    BY <1>2, <1>6 DEF IndInv, LoadedAfterExpected
  <2>2. Coherent(snapOwner[p], snapDoc[p], snapVer[p])
    BY <1>1, <1>2 DEF IndInv, SnapshotsCoherent, Resolved
  <2>3. expected[p] = ver[snapOwner[p]]
    BY DEF CommitPut, VersionMatches
  <2>4. ver[snapOwner[p]] \in Nat /\ snapVer[p] \in Nat
    BY <1>1, <1>2 DEF TypeOK
  <2>. QED
    BY <2>1, <2>2, <2>3, <2>4 DEF Coherent, ComparedCurrent
<1>. QED
  BY <1>3, <1>4, <1>5, <1>6

\* A client without pm.admin brings in no new roles by PUT, whatever version it
\* sends, and changes none unless it sent a version that did not exist yet when
\* its roles were compared, although the check and the write are separate
\* statements.
THEOREM RolesAreGuarded == Spec => RolesNeedAdmin
<1>1. ASSUME IndInv, [Next]_vars PROVE RolesKept
  <2>1. OnlyCommitPutCommits
    BY <1>1, OnlyCommitPutStep DEF IndInv
  <2>2. ASSUME NEW p \in Puts, pc[p] = "putCheck", pc'[p] = "committed",
               user[p] \notin Admins, snapOwner[p] \in Provisioned
        PROVE  /\ Roles(doc'[snapOwner[p]]) \in hadRoles[snapOwner[p]]
               /\ ComparedCurrent(p) \/ (user[p] = snapOwner[p] /\ p \notin odd)
                    => Roles(doc'[snapOwner[p]]) = Roles(doc[snapOwner[p]])
    <3>1. CommitPut(p)
      BY <2>1, <2>2 DEF OnlyCommitPutCommits
    <3>. QED
      BY <1>1, <2>2, <3>1, CommitPutKeepsRoles
  <2>. QED
    BY <2>2 DEF RolesKept
<1>2. IndInv /\ [Next]_vars => [RolesKept]_vars
  BY <1>1
<1>. QED
  BY <1>2, Invariance, PTL DEF Spec, RolesNeedAdmin

-----------------------------------------------------------------------------
(* The store implements the atomic versioned register.                     *)

\* No provisioned workspace is written by the step.
RegisterStays ==
  \A o \in Provisioned : doc'[o] = doc[o] /\ ver'[o] = ver[o] /\ by'[o] = by[o]

\* A write on top of the current document is an edit of the register.
LEMMA WrittenIsEdit ==
  ASSUME TypeOK, NEW o \in Provisioned, NEW d, NEW e \in Mutations \cup Jobs,
         Written(o, d, e), d = doc[o] \cup {e}
  PROVE  Register!Next
<1>1. Provisioned \subseteq Users
  BY SetsAssumption
<1>2. Register!Edit(o, e)
  BY <1>1 DEF TypeOK, Written, Register!Edit, Register!Write
<1>. QED
  BY <1>2 DEF Register!Next

\* A write of a PUT's body is a replacement in the register.
LEMMA WrittenIsReplace ==
  ASSUME TypeOK, NEW o \in Provisioned, NEW p \in Puts, NEW d \in SUBSET Edits,
         Written(o, d, p), p \in d
  PROVE  Register!Next
<1>1. Provisioned \subseteq Users
  BY SetsAssumption
<1>2. Register!Replace(o, p, d)
  BY <1>1 DEF TypeOK, Written, Register!Replace, Register!Write
<1>3. d \in SUBSET Register!Edits
  BY DEF Register!Edits, Edits, Requests
<1>. QED
  BY <1>2, <1>3 DEF Register!Next

\* A write of a workspace created later does not touch the register.
LEMMA WrittenElsewhere ==
  ASSUME TypeOK, NEW o \in Users \ Provisioned, NEW d, NEW w, Written(o, d, w)
  PROVE  RegisterStays
<1>1. Provisioned \subseteq Users
  BY SetsAssumption
<1>. QED
  BY <1>1 DEF TypeOK, Written, RegisterStays

\* Leaving the provisioned rows alone is a stuttering step of the register.
LEMMA StaysIsStutter == RegisterStays => UNCHANGED Register!vars
  BY DEF RegisterStays, Register!vars

\* A step of the store, seen through the refinement mapping.
RegisterMoves == Register!Next \/ RegisterStays

\* Every step of the store is a step of the register or leaves it alone.
LEMMA RegisterStep ==
  ASSUME IndInv, [Next]_vars
  PROVE  RegisterMoves
<1> USE DEF RegisterMoves, RegisterStays, store, resolved, putVars, jobVars,
            requestVars
<1>0. TypeOK
  BY DEF IndInv
<1>1. ASSUME NEW r \in Requests, Get(r) PROVE RegisterMoves
  BY <1>1 DEF Get
<1>2. ASSUME NEW r \in Requests, GetShared(r) PROVE RegisterMoves
  BY <1>2 DEF GetShared
<1>3. ASSUME NEW r \in Requests, GetAgain(r) PROVE RegisterMoves
  BY <1>3 DEF GetAgain
<1>4. ASSUME NEW r \in Requests, Insert(r) PROVE RegisterMoves
  BY <1>4 DEF Insert
<1>5. ASSUME NEW r \in Requests, Finish(r) PROVE RegisterMoves
  BY <1>5 DEF Finish
<1>6. ASSUME NEW r \in Requests, Fail(r) PROVE RegisterMoves
  BY <1>6 DEF Fail
<1>7. ASSUME NEW m \in Mutations, StartMutate(m) PROVE RegisterMoves
  BY <1>7 DEF StartMutate
<1>8. ASSUME NEW m \in Mutations, CommitEdit(m) PROVE RegisterMoves
  <2>1. m \in Requests /\ m \in Mutations \cup Jobs
    BY DEF Requests
  <2>2. snapOwner[m] \in Users /\ Written(snapOwner[m], snapDoc[m] \cup {m}, m)
    BY <1>8, <1>0, <2>1 DEF CommitEdit, TypeOK
  <2>3. CASE snapOwner[m] \in Provisioned
    <3>1. snapDoc[m] = doc[snapOwner[m]]
      BY <1>8, <2>3, CommitFacts
    <3>. QED
      BY <1>0, <2>1, <2>2, <2>3, <3>1, WrittenIsEdit
  <2>4. CASE snapOwner[m] \notin Provisioned
    BY <1>0, <2>2, <2>4, WrittenElsewhere
  <2>. QED
    BY <2>3, <2>4
<1>9. ASSUME NEW m \in Mutations, RetryEdit(m) PROVE RegisterMoves
  BY <1>9 DEF RetryEdit
<1>10. ASSUME NEW p \in Puts, StartPut(p) PROVE RegisterMoves
  BY <1>10 DEF StartPut
<1>11. ASSUME NEW p \in Puts, SendPut(p) PROVE RegisterMoves
  BY <1>11 DEF SendPut
<1>12. ASSUME NEW p \in Puts, AdoptVersion(p) PROVE RegisterMoves
  BY <1>12 DEF AdoptVersion
<1>13. ASSUME NEW p \in Puts, RefusePut(p) PROVE RegisterMoves
  BY <1>13 DEF RefusePut
<1>14. ASSUME NEW p \in Puts, CommitPut(p) PROVE RegisterMoves
  <2>1. p \in Requests /\ p \in body[p]
    BY <1>14, CommitFacts DEF Requests
  <2>2. snapOwner[p] \in Users /\ Written(snapOwner[p], body[p],
    p) /\ body[p] \in SUBSET Edits
    BY <1>14, <1>0, <2>1 DEF CommitPut, TypeOK
  <2>3. CASE snapOwner[p] \in Provisioned
    BY <1>0, <2>1, <2>2, <2>3, WrittenIsReplace
  <2>4. CASE snapOwner[p] \notin Provisioned
    BY <1>0, <2>2, <2>4, WrittenElsewhere
  <2>. QED
    BY <2>3, <2>4
<1>15. ASSUME NEW p \in Puts, ConflictPut(p) PROVE RegisterMoves
  BY <1>15 DEF ConflictPut
<1>16. ASSUME NEW j \in Jobs, ListWorkspaces(j) PROVE RegisterMoves
  BY <1>16 DEF ListWorkspaces
<1>17. ASSUME NEW j \in Jobs, NEW o \in Users, JobSkip(j, o) PROVE RegisterMoves
  BY <1>17 DEF JobSkip
<1>18. ASSUME NEW j \in Jobs, NEW o \in Users, JobCommit(j,
              o) PROVE RegisterMoves
  <2>1. Written(o, jdoc[<<j, o>>] \cup {j}, j)
    BY <1>18 DEF JobCommit
  <2>2. CASE o \in Provisioned
    <3>1. jdoc[<<j, o>>] = doc[o]
      BY <1>18, <2>2, CommitFacts
    <3>. QED
      BY <1>0, <2>1, <2>2, <3>1, WrittenIsEdit
  <2>3. CASE o \notin Provisioned
    BY <1>0, <2>1, <2>3, WrittenElsewhere
  <2>. QED
    BY <2>2, <2>3
<1>19. ASSUME NEW j \in Jobs, NEW o \in Users, JobConflict(j,
              o) PROVE RegisterMoves
  BY <1>19 DEF JobConflict
<1>20. ASSUME NEW j \in Jobs, NEW o \in Users, JobRefresh(j,
              o) PROVE RegisterMoves
  BY <1>20 DEF JobRefresh
<1>21. ASSUME NEW o \in Users, SetOrgID(o) PROVE RegisterMoves
  BY <1>21 DEF SetOrgID
<1>22. ASSUME NEW ou \in Sharing, AddMember(ou[1], ou[2]) PROVE RegisterMoves
  BY <1>22 DEF AddMember
<1>23. ASSUME NEW ou \in Sharing, RemoveMember(ou[1], ou[2]) PROVE RegisterMoves
  BY <1>23 DEF RemoveMember
<1>24. CASE UNCHANGED vars
  BY <1>24 DEF vars
<1> HIDE DEF RegisterMoves, RegisterStays, store, resolved, putVars, jobVars,
             requestVars
<1>. QED
  BY <1>1, <1>2, <1>3, <1>4, <1>5, <1>6, <1>7, <1>8, <1>9, <1>10, <1>11, <1>12,
     <1>13, <1>14, <1>15, <1>16, <1>17, <1>18, <1>19, <1>20, <1>21, <1>22,
       <1>23, <1>24
  DEF Next, Resolve, Mutate, Put, Job, Membership, Requests

\* The initial store is an initial register.
LEMMA RegisterInit == Init => Register!Init
<1> SUFFICES ASSUME Init PROVE Register!Init
  OBVIOUS
<1>1. TypeOK /\ Provisioned \subseteq Users
  BY InitIndInv, SetsAssumption DEF IndInv
<1>2. Register!Edits = Edits
  BY DEF Register!Edits, Edits, Requests
<1>. QED
  BY <1>1, <1>2 DEF Register!Init, TypeOK

\* On the workspaces that exist, the statements of Mutate, PUT and the jobs
\* implement an atomic versioned register: whatever interleaves, an edit is
\* added to exactly the document it replaces.
THEOREM StoreIsRegister == Spec => WritesAreAtomic
<1>1. Init => Register!Init
  BY RegisterInit
<1>2. IndInv /\ [Next]_vars => [Register!Next]_(Register!vars)
  BY RegisterStep, StaysIsStutter DEF RegisterMoves
<1>. QED
  BY <1>1, <1>2, Invariance, PTL DEF Spec, WritesAreAtomic, Register!Spec

=============================================================================
