------------------------------ MODULE Workspace ------------------------------
(***************************************************************************)
(* The workspace store of the project-management backend and everybody who *)
(* writes it: the entity endpoints (workspace.Service.Mutate), the full    *)
(* document PUT, and the archive and recurrence jobs.                      *)
(*                                                                         *)
(* Each SQL statement is one step; between two statements of a request any *)
(* other request, job or replica may run.  A document is the set of edits  *)
(* it reflects: a request or a job r that is written adds the element r.   *)
(* (What an edit changes, and the expired rows a retention sweep drops,    *)
(* are data this module leaves out.)                                       *)
(***************************************************************************)
EXTENDS Naturals, FiniteSets

CONSTANTS Users,        \* user ids; a workspace is named by its owner's id
          Provisioned,  \* owners whose pm_workspaces row exists at the start
          Mutations,    \* requests to entity endpoints, and consumer events
          Puts,         \* PUT /workspace requests
          Archivers,    \* runs of jobs.RunArchive
          Recurrers,    \* runs of jobs.RunRecurrence
          Assignments,  \* who may issue the requests: a set of functions
          Schedules,    \* which of the job runs take place: a set of sets
          Admins,       \* users holding pm.admin
          RoleEdits,    \* requests that change the workspace roles
          Private,      \* edits inside projects hidden from shared members
          Sharing,      \* <<o, u>>: o's workspace may be shared with u
          Sendable,     \* versions a client may send, given to it or not; 0: none
          Nobody

Requests == Mutations \cup Puts
Jobs     == Archivers \cup Recurrers
Edits    == Requests \cup Jobs

ASSUME SetsAssumption ==
  /\ Provisioned \subseteq Users
  /\ Admins \subseteq Users
  /\ Mutations \cap Puts = {}
  /\ Requests \cap Jobs = {}
  /\ Archivers \cap Recurrers = {}
  /\ RoleEdits \subseteq Requests
  /\ Private \subseteq Edits
  /\ Sharing \subseteq Users \X Users
  /\ Assignments \subseteq [Requests -> Users]
  /\ Schedules \subseteq SUBSET Jobs
  /\ Sendable \subseteq Nat
  /\ Nobody \notin Edits

\* pm_workspaces and pm_workspace_members.
VARIABLES rows,     \* owners whose row is there
          doc,      \* owner -> edits the document reflects
          ver,      \* owner -> version
          newer,    \* <<a, b>>: a's updated_at is later than b's
          member    \* <<o, u>>: u is a member of o's workspace

\* The requests.
VARIABLES user,     \* who issued the request
          pc,       \* where it is
          ret,      \* where ResolveForUser returns to
          attempt,  \* Mutate's loop counter
          snapOwner, snapDoc, snapVer, \* the store.Workspace it resolved
          body, expected, \* a PUT's document and expected version
          blind,    \* the PUTs that came without If-Match and without version
          odd       \* the PUTs with another version, or other roles, than given

\* The jobs, one entry per job and workspace.
VARIABLES jpc, jdoc, jver

\* History, read by the properties only.
VARIABLES by,       \* owner -> writer of the current version
          commits,  \* request -> how often its edit was written
          lost,     \* <<e, w, o>>: writer w removed edit e from o's document
          hadRoles  \* owner -> the roles its document has had

store    == <<rows, doc, ver, newer, by, commits, lost, hadRoles>>
resolved == <<snapOwner, snapDoc, snapVer>>
putVars  == <<body, expected, blind, odd>>
jobVars  == <<jpc, jdoc, jver>>
vars     == <<store, member, user, pc, ret, attempt, resolved, putVars, jobVars>>

DefaultDoc == {}  \* db/default_workspace.json: it reflects nobody's edit

\* The workspace roles a document holds.
Roles(d) == d \cap RoleEdits

Answered == {"acked", "conflict", "forbidden", "failed"}
Labels   == {"idle", "get", "shared", "get2", "insert",
             "apply", "read", "putVersion", "putCheck", "committed"} \cup Answered
Returns  == {"apply", "read", "putVersion", "putCheck"}
JobLabels == {"idle", "listed", "stale", "fresh", "done"}

Init ==
  /\ rows = Provisioned
  /\ doc = [u \in Users |-> DefaultDoc]
  /\ ver = [u \in Users |-> 1]
  /\ newer = {}
  /\ member \in SUBSET {ou \in Sharing : ou[1] \in Provisioned}
  /\ user \in Assignments
  /\ pc = [r \in Requests |-> "idle"]
  /\ ret = [r \in Requests |-> "apply"]
  /\ attempt = [r \in Requests |-> 0]
  /\ snapOwner = user
  /\ snapDoc = [r \in Requests |-> DefaultDoc]
  /\ snapVer = [r \in Requests |-> 0]
  /\ body = [p \in Puts |-> DefaultDoc]
  /\ expected = [p \in Puts |-> 0]
  /\ blind = {}
  /\ odd = {}
  /\ \E s \in Schedules :
       jpc = [jo \in Jobs \X Users |-> IF jo[1] \in s THEN "idle" ELSE "done"]
  /\ jdoc = [jo \in Jobs \X Users |-> DefaultDoc]
  /\ jver = [jo \in Jobs \X Users |-> 0]
  /\ by = [u \in Users |-> Nobody]
  /\ commits = [r \in Requests |-> 0]
  /\ lost = {}
  /\ hadRoles = [u \in Users |-> {Roles(DefaultDoc)}]

Goto(r, l) == pc' = [pc EXCEPT ![r] = l]

\* updated_at = NOW(): o becomes the most recently updated workspace.
Touch(o) == {ab \in newer \cup ({o} \X Users) : ab[2] # o}

-----------------------------------------------------------------------------
(* Repository.Update: compare-and-swap on the version column.              *)

\* The UPDATE found the row at the expected version and wrote it.
Written(o, d, w) ==
  /\ doc' = [doc EXCEPT ![o] = d]
  /\ ver' = [ver EXCEPT ![o] = @ + 1]
  /\ newer' = Touch(o)
  /\ by' = [by EXCEPT ![o] = w]
  /\ lost' = lost \cup {<<e, w, o>> : e \in doc[o] \ d}
  /\ hadRoles' = [hadRoles EXCEPT ![o] = @ \cup {Roles(d)}]
  /\ UNCHANGED rows

\* Mutant of VersionMatches: WHERE without the version.
VersionMatchesIgnored(o, v) == o \in rows

\* UPDATE ... WHERE owner_user_id = o AND version = v finds the row.
VersionMatches(o, v) == o \in rows /\ ver[o] = v

-----------------------------------------------------------------------------
(* Repository.ResolveForUser and GetOrCreate, statement by statement.      *)

Load(r, o, d, v) ==
  /\ snapOwner' = [snapOwner EXCEPT ![r] = o]
  /\ snapDoc' = [snapDoc EXCEPT ![r] = d]
  /\ snapVer' = [snapVer EXCEPT ![r] = v]
  /\ Goto(r, ret[r])

\* SELECT ... WHERE owner_user_id = the caller.
Get(r) ==
  /\ pc[r] = "get"
  /\ IF user[r] \in rows
       THEN Load(r, user[r], doc[user[r]], ver[user[r]])
       ELSE Goto(r, "shared") /\ UNCHANGED resolved
  /\ UNCHANGED <<store, member, user, ret, attempt, putVars, jobVars>>

SharedWith(u) == {o \in rows : <<o, u>> \in member}

\* SELECT ... JOIN pm_workspace_members ORDER BY updated_at DESC LIMIT 1.
GetShared(r) ==
  /\ pc[r] = "shared"
  /\ IF SharedWith(user[r]) = {}
       THEN Goto(r, "get2") /\ UNCHANGED resolved
       ELSE \E o \in SharedWith(user[r]) :
              /\ \A p \in SharedWith(user[r]) : <<p, o>> \notin newer
              /\ Load(r, o, doc[o], ver[o])
  /\ UNCHANGED <<store, member, user, ret, attempt, putVars, jobVars>>

\* GetOrCreate's own SELECT.
GetAgain(r) ==
  /\ pc[r] = "get2"
  /\ IF user[r] \in rows
       THEN Load(r, user[r], doc[user[r]], ver[user[r]])
       ELSE Goto(r, "insert") /\ UNCHANGED resolved
  /\ UNCHANGED <<store, member, user, ret, attempt, putVars, jobVars>>

\* INSERT ... ON CONFLICT DO UPDATE ... RETURNING id, version.  The document
\* handed back is the default one even when the row was there already.
Insert(r) ==
  /\ pc[r] = "insert"
  /\ rows' = rows \cup {user[r]}
  /\ newer' = IF user[r] \in rows THEN newer ELSE Touch(user[r])
  /\ Load(r, user[r], DefaultDoc, ver[user[r]])
  /\ UNCHANGED <<doc, ver, by, commits, lost, hadRoles,
                 member, user, ret, attempt, putVars, jobVars>>

Resolve(r) == Get(r) \/ GetShared(r) \/ GetAgain(r) \/ Insert(r)

-----------------------------------------------------------------------------
(* workspace.Service.Mutate: two attempts of resolve, apply, update.       *)

StartMutate(m) ==
  /\ m \in Mutations
  /\ pc[m] = "idle"
  /\ Goto(m, "get")
  /\ ret' = [ret EXCEPT ![m] = "apply"]
  /\ UNCHANGED <<store, member, user, attempt, resolved, putVars, jobVars>>

\* The UPDATE matched the version it read.
CommitEdit(m) ==
  /\ pc[m] = "apply"
  /\ VersionMatches(snapOwner[m], snapVer[m])
  /\ Written(snapOwner[m], snapDoc[m] \cup {m}, m)
  /\ commits' = [commits EXCEPT ![m] = @ + 1]
  /\ Goto(m, "committed")
  /\ UNCHANGED <<member, user, ret, attempt, resolved, putVars, jobVars>>

\* Mutant of RetryEdit: the document is not resolved again, and the request
\* is acknowledged after the loop.
RetryUnresolved(m) ==
  /\ pc[m] = "apply"
  /\ ~VersionMatches(snapOwner[m], snapVer[m])
  /\ Goto(m, IF attempt[m] = 0 THEN "apply" ELSE "acked")
  /\ attempt' = [attempt EXCEPT ![m] = 1]
  /\ UNCHANGED <<store, member, user, ret, resolved, putVars, jobVars>>

\* Mutant of RetryEdit: one attempt too many.
RetryOnceMore(m) ==
  /\ pc[m] = "apply"
  /\ ~VersionMatches(snapOwner[m], snapVer[m])
  /\ IF attempt[m] <= 1
       THEN Goto(m, "get") /\ attempt' = [attempt EXCEPT ![m] = @ + 1]
       ELSE Goto(m, "conflict") /\ UNCHANGED attempt
  /\ UNCHANGED <<store, member, user, ret, resolved, putVars, jobVars>>

\* ErrVersionConflict: resolve again once, then answer 409.
RetryEdit(m) ==
  /\ pc[m] = "apply"
  /\ ~VersionMatches(snapOwner[m], snapVer[m])
  /\ IF attempt[m] = 0
       THEN Goto(m, "get") /\ attempt' = [attempt EXCEPT ![m] = 1]
       ELSE Goto(m, "conflict") /\ UNCHANGED attempt
  /\ UNCHANGED <<store, member, user, ret, resolved, putVars, jobVars>>

\* Broadcast, reindex, notify and webhooks, then the response.
Finish(r) ==
  /\ pc[r] = "committed"
  /\ Goto(r, "acked")
  /\ UNCHANGED <<store, member, user, ret, attempt, resolved, putVars, jobVars>>

\* The closure rejects the request, a statement fails, the context is
\* cancelled or the replica dies: the request ends where it is.  Ending in
\* "committed" is also an UPDATE that took effect and whose answer was lost.
Fail(r) ==
  /\ pc[r] \notin Answered \cup {"idle"}
  /\ Goto(r, "failed")
  /\ UNCHANGED <<store, member, user, ret, attempt, resolved, putVars, jobVars>>

-----------------------------------------------------------------------------
(* GET then PUT /workspace.                                                *)

\* visibility.Apply: only the owner sees everything.
View(o, u, d) == IF u = o THEN d ELSE d \ Private

StartPut(p) ==
  /\ p \in Puts
  /\ pc[p] = "idle"
  /\ Goto(p, "get")
  /\ ret' = [ret EXCEPT ![p] = "read"]
  /\ UNCHANGED <<store, member, user, attempt, resolved, putVars, jobVars>>

\* The client edits the document it was given and sends it back, with the
\* version it was given or with none (0).  Nothing holds it to that: put takes
\* any version, and any roles.
SendPut(p) ==
  /\ pc[p] = "read"
  /\ LET given == View(snapOwner[p], user[p], snapDoc[p]) IN
     \E v \in Sendable \cup {snapVer[p]}, rs \in SUBSET RoleEdits :
       /\ body' = [body EXCEPT ![p] = (given \ RoleEdits) \cup rs \cup {p}]
       /\ expected' = [expected EXCEPT ![p] = v]
       /\ blind' = IF v = 0 THEN blind \cup {p} ELSE blind
       /\ odd' = IF v \in {0, snapVer[p]} /\ rs = Roles(given) THEN odd ELSE odd \cup {p}
       /\ ret' = [ret EXCEPT ![p] = IF v = 0 THEN "putVersion" ELSE "putCheck"]
  /\ Goto(p, "get")
  /\ UNCHANGED <<store, member, user, attempt, resolved, jobVars>>

\* expected = 0: take the version that is current now.
AdoptVersion(p) ==
  /\ pc[p] = "putVersion"
  /\ expected' = [expected EXCEPT ![p] = snapVer[p]]
  /\ ret' = [ret EXCEPT ![p] = "putCheck"]
  /\ Goto(p, "get")
  /\ UNCHANGED <<store, member, user, attempt, resolved, body, blind, odd, jobVars>>

\* Mutant of RolesAllowed: no comparison.
RolesAllowedUnchecked(p) == TRUE

\* rolesChanged is false, or the caller holds pm.admin.
RolesAllowed(p) ==
  Roles(snapDoc[p]) = Roles(body[p]) \/ user[p] \in Admins

RefusePut(p) ==
  /\ pc[p] = "putCheck"
  /\ ~RolesAllowed(p)
  /\ Goto(p, "forbidden")
  /\ UNCHANGED <<store, member, user, ret, attempt, resolved, putVars, jobVars>>

CommitPut(p) ==
  /\ pc[p] = "putCheck"
  /\ RolesAllowed(p)
  /\ VersionMatches(snapOwner[p], expected[p])
  /\ Written(snapOwner[p], body[p], p)
  /\ commits' = [commits EXCEPT ![p] = @ + 1]
  /\ Goto(p, "committed")
  /\ UNCHANGED <<member, user, ret, attempt, resolved, putVars, jobVars>>

ConflictPut(p) ==
  /\ pc[p] = "putCheck"
  /\ RolesAllowed(p)
  /\ ~VersionMatches(snapOwner[p], expected[p])
  /\ Goto(p, "conflict")
  /\ UNCHANGED <<store, member, user, ret, attempt, resolved, putVars, jobVars>>

-----------------------------------------------------------------------------
(* jobs.RunArchive and jobs.RunRecurrence: one SELECT of every workspace,  *)
(* then one workspace after the other from that list.                      *)

requestVars == <<user, pc, ret, attempt, resolved, putVars>>

ListWorkspaces(j) ==
  /\ \A o \in Users : jpc[<<j, o>>] = "idle"
  /\ jpc' = [jo \in Jobs \X Users |->
               IF jo[1] # j THEN jpc[jo]
               ELSE IF jo[2] \in rows THEN "listed" ELSE "done"]
  /\ jdoc' = [jo \in Jobs \X Users |-> IF jo[1] = j THEN doc[jo[2]] ELSE jdoc[jo]]
  /\ jver' = [jo \in Jobs \X Users |-> IF jo[1] = j THEN ver[jo[2]] ELSE jver[jo]]
  /\ UNCHANGED <<store, member, requestVars>>

JobAt(j, o) ==
  /\ jpc[<<j, o>>] \in {"listed", "fresh"}
  /\ \A p \in Users \ {o} : jpc[<<j, p>>] \notin {"stale", "fresh"}

\* Nothing expired or due in this workspace, or it cannot be read or decoded.
JobSkip(j, o) ==
  /\ JobAt(j, o) \/ jpc[<<j, o>>] = "stale"
  /\ jpc' = [jpc EXCEPT ![<<j, o>>] = "done"]
  /\ UNCHANGED <<store, member, requestVars, jdoc, jver>>

JobCommit(j, o) ==
  /\ JobAt(j, o)
  /\ VersionMatches(o, jver[<<j, o>>])
  /\ Written(o, jdoc[<<j, o>>] \cup {j}, j)
  /\ jpc' = [jpc EXCEPT ![<<j, o>>] = "done"]
  /\ UNCHANGED <<commits, member, requestVars, jdoc, jver>>

\* A conflict: the archive job tries once more, the recurrence job logs it.
JobConflict(j, o) ==
  /\ JobAt(j, o)
  /\ ~VersionMatches(o, jver[<<j, o>>])
  /\ jpc' = [jpc EXCEPT ![<<j, o>>] =
               IF j \in Archivers /\ @ = "listed" THEN "stale" ELSE "done"]
  /\ UNCHANGED <<store, member, requestVars, jdoc, jver>>

\* Mutant of JobRefresh: the version is read again, the document is not.
RefreshVersionOnly(j, o) ==
  /\ jpc[<<j, o>>] = "stale"
  /\ jpc' = [jpc EXCEPT ![<<j, o>>] = "fresh"]
  /\ jver' = [jver EXCEPT ![<<j, o>>] = ver[o]]
  /\ UNCHANGED <<store, member, requestVars, jdoc>>

\* GetOrCreate of a listed owner: the row is there.
JobRefresh(j, o) ==
  /\ jpc[<<j, o>>] = "stale"
  /\ jpc' = [jpc EXCEPT ![<<j, o>>] = "fresh"]
  /\ jdoc' = [jdoc EXCEPT ![<<j, o>>] = doc[o]]
  /\ jver' = [jver EXCEPT ![<<j, o>>] = ver[o]]
  /\ UNCHANGED <<store, member, requestVars>>

-----------------------------------------------------------------------------
(* Membership and organisation.                                            *)

AddMember(o, u) ==
  /\ o \in rows
  /\ <<o, u>> \notin member
  /\ member' = member \cup {<<o, u>>}
  /\ UNCHANGED <<store, requestVars, jobVars>>

RemoveMember(o, u) ==
  /\ <<o, u>> \in member
  /\ member' = member \ {<<o, u>>}
  /\ UNCHANGED <<store, requestVars, jobVars>>

\* Linking a workspace to an organisation moves updated_at, not version.
SetOrgID(o) ==
  /\ o \in rows
  /\ newer' = Touch(o)
  /\ UNCHANGED <<rows, doc, ver, by, commits, lost, hadRoles, member, requestVars,
                 jobVars>>

-----------------------------------------------------------------------------
Mutate(m) == StartMutate(m) \/ CommitEdit(m) \/ RetryEdit(m)

Put(p) == StartPut(p) \/ SendPut(p) \/ AdoptVersion(p)
            \/ RefusePut(p) \/ CommitPut(p) \/ ConflictPut(p)

Job(j) ==
  \/ ListWorkspaces(j)
  \/ \E o \in Users : JobSkip(j, o) \/ JobCommit(j, o) \/ JobConflict(j, o)
                        \/ JobRefresh(j, o)

Membership ==
  \/ \E o \in Users : SetOrgID(o)
  \/ \E ou \in Sharing : AddMember(ou[1], ou[2]) \/ RemoveMember(ou[1], ou[2])

Next ==
  \/ \E r \in Requests : Resolve(r) \/ Finish(r) \/ Fail(r)
  \/ \E m \in Mutations : Mutate(m)
  \/ \E p \in Puts : Put(p)
  \/ \E j \in Jobs : Job(j)
  \/ Membership

Spec == Init /\ [][Next]_vars

-----------------------------------------------------------------------------
(* Properties.                                                             *)

\* Types of the rows, of what a request holds and of the history.
TypeOK ==
  /\ rows \subseteq Users
  /\ doc \in [Users -> SUBSET Edits]
  /\ ver \in [Users -> Nat \ {0}]
  /\ newer \subseteq Users \X Users
  /\ member \subseteq Users \X Users
  /\ user \in [Requests -> Users]
  /\ pc \in [Requests -> Labels]
  /\ ret \in [Requests -> Returns]
  /\ attempt \in [Requests -> {0, 1}]
  /\ snapOwner \in [Requests -> Users]
  /\ snapDoc \in [Requests -> SUBSET Edits]
  /\ snapVer \in [Requests -> Nat]
  /\ body \in [Puts -> SUBSET Edits]
  /\ expected \in [Puts -> Nat]
  /\ blind \subseteq Puts
  /\ odd \subseteq Puts
  /\ jpc \in [Jobs \X Users -> JobLabels]
  /\ jdoc \in [Jobs \X Users -> SUBSET Edits]
  /\ jver \in [Jobs \X Users -> Nat]
  /\ by \in [Users -> Edits \cup {Nobody}]
  /\ commits \in [Requests -> Nat]
  /\ lost \subseteq Edits \X Edits \X Users
  /\ hadRoles \in [Users -> SUBSET SUBSET RoleEdits]

\* Mutate and the jobs lose no update: in a workspace that existed before the
\* requests, an edit that was written is in the document for good, or a full
\* PUT removed it.  Neither a concurrent Mutate nor a job that worked from an
\* old list can overwrite it.
CommittedEditSurvives ==
  \A r \in Requests :
    commits[r] > 0 /\ snapOwner[r] \in Provisioned =>
      \/ r \in doc[snapOwner[r]]
      \/ \E p \in Puts : <<r, p, snapOwner[r]>> \in lost

\* The version protocol of PUT: an owner who sends the version he was given
\* removes nobody's edit, however long he kept the document.
OwnerIfMatchPutKeepsEdits ==
  \A x \in lost :
    x[2] \in Puts /\ x[3] \in Provisioned /\ user[x[2]] = x[3]
      => x[2] \in blind \cup odd

\* The answer tells the client the truth: 200 means written exactly once, 409
\* and 403 mean not written, and no request is ever written twice.
AnswerMatchesOutcome ==
  \A r \in Requests :
    /\ commits[r] <= 1
    /\ pc[r] = "acked" => commits[r] = 1
    /\ pc[r] \in {"conflict", "forbidden"} => commits[r] = 0

\* The roles were compared with a version that is not older than the expected
\* one.
ComparedCurrent(p) == expected[p] <= snapVer[p]

\* A PUT without pm.admin stores roles the workspace has had, and leaves those
\* it has now alone if they, or newer ones, were what it was compared with.
RolesKept ==
  \A p \in Puts :
    LET o == snapOwner[p] IN
    /\ pc[p] = "putCheck" /\ pc'[p] = "committed"
    /\ user[p] \notin Admins /\ o \in Provisioned
    => /\ Roles(doc'[o]) \in hadRoles[o]
       /\ ComparedCurrent(p) \/ (user[p] = o /\ p \notin odd)
            => Roles(doc'[o]) = Roles(doc[o])

\* "pm.admin required to change workspace roles", although the roles are
\* compared with a document read by an earlier statement than the one that
\* replaces it: whatever version and roles a client without pm.admin sends, it
\* brings in no roles the workspace never had.  It changes them at all only by
\* sending a version that did not exist yet when the roles were compared, and
\* then to older ones; an owner who sends the version he was given, or none,
\* never does.
RolesNeedAdmin == [][RolesKept]_vars

\* What the store promises: on the provisioned workspaces this module is the
\* atomic versioned register.
Register == INSTANCE VersionedRegister WITH
  Owners <- Provisioned,
  Editors <- Mutations \cup Jobs,
  Replacers <- Puts,
  doc <- [o \in Provisioned |-> doc[o]],
  ver <- [o \in Provisioned |-> ver[o]],
  by <- [o \in Provisioned |-> by[o]]

\* Every write of a provisioned workspace is an atomic edit or a full replace.
WritesAreAtomic == Register!Spec

\* As CommittedEditSurvives, for workspaces created on first use as well.  It
\* does not hold: README.md, Findings.
CommittedEditSurvivesCreation ==
  \A r \in Requests :
    commits[r] > 0 =>
      \/ r \in doc[snapOwner[r]]
      \/ \E p \in Puts : <<r, p, snapOwner[r]>> \in lost

-----------------------------------------------------------------------------
(* The inductive invariant behind the properties.                          *)

Resolved == {"apply", "read", "putVersion", "putCheck"}

\* A provisioned row stays, so its owner never reaches GetOrCreate's INSERT.
RowsStay ==
  /\ Provisioned \subseteq rows
  /\ \A r \in Requests :
       pc[r] \in {"shared", "get2", "insert"} => user[r] \notin Provisioned
  /\ \A r \in Requests :
       pc[r] \in Resolved /\ user[r] \in Provisioned => snapOwner[r] = user[r]

\* A (document, version) pair that somebody read is never newer than the row,
\* and while the versions agree the documents do.
Coherent(o, d, v) == v <= ver[o] /\ (v = ver[o] => d = doc[o])

SnapshotsCoherent ==
  /\ \A r \in Requests :
       pc[r] \in Resolved /\ snapOwner[r] \in Provisioned
         => Coherent(snapOwner[r], snapDoc[r], snapVer[r])
  /\ \A j \in Jobs, o \in Provisioned :
       jpc[<<j, o>>] \in {"listed", "fresh"}
         => Coherent(o, jdoc[<<j, o>>], jver[<<j, o>>])

\* A PUT's document holds the PUT's own edit from the time it is sent, and
\* only a PUT without a version adopts one.
PutsMarked ==
  \A p \in Puts :
    /\ "putVersion" \in {pc[p], ret[p]} => p \in blind
    /\ ret[p] \in {"putVersion", "putCheck"} => p \in body[p]
    /\ pc[p] \in {"putVersion", "putCheck"} => ret[p] = pc[p]

\* What an owner's PUT expects is never newer than the row, and with If-Match
\* its document holds all of the expected version; for a client that sends the
\* version it was given, or none.
ExpectedCoherent ==
  \A p \in Puts \ odd :
    user[p] \in Provisioned /\ ret[p] = "putCheck" =>
      /\ expected[p] <= ver[user[p]]
      /\ p \notin blind /\ expected[p] = ver[user[p]] => doc[user[p]] \subseteq body[p]

\* The document whose roles such a PUT is compared with was read after the
\* version it expects.
LoadedAfterExpected ==
  \A p \in Puts \ odd :
    user[p] \in Provisioned /\ pc[p] = "putCheck" => ComparedCurrent(p)

\* The roles of a document, also of one that was read before, are on record.
RolesOnRecord ==
  /\ \A o \in Users : Roles(DefaultDoc) \in hadRoles[o] /\ Roles(doc[o]) \in hadRoles[o]
  /\ \A r \in Requests : Roles(snapDoc[r]) \in hadRoles[snapOwner[r]]

\* Whether the edit of a request is written can be told from where it is.
CommitsCounted ==
  \A r \in Requests :
    /\ pc[r] \in {"committed", "acked"} => commits[r] = 1
    /\ pc[r] = "failed" => commits[r] \in {0, 1}
    /\ pc[r] \notin {"committed", "acked", "failed"} => commits[r] = 0

IndInv ==
  /\ TypeOK
  /\ RowsStay
  /\ SnapshotsCoherent
  /\ PutsMarked
  /\ ExpectedCoherent
  /\ LoadedAfterExpected
  /\ RolesOnRecord
  /\ CommitsCounted
  /\ CommittedEditSurvives
  /\ OwnerIfMatchPutKeepsEdits
=============================================================================
