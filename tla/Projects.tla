------------------------------ MODULE Projects ------------------------------
(***************************************************************************)
(* One project of a workspace document and everybody who writes it: PUT    *)
(* /projects/:id, status posts, contract links from the consumer, the      *)
(* background creation of its chat thread, templates and deletion.         *)
(*                                                                         *)
(* putProject's closure writes into the struct bound from the request, so  *)
(* Mutate's second attempt starts from what the first left there; that is  *)
(* why a PUT is taken apart into read and apply.  The other writers keep   *)
(* nothing between attempts and are one step each (see Workspace).  The    *)
(* status posts and the linked contracts are sets of what was appended.    *)
(* A full PUT /workspace, which replaces the project by the client's, is   *)
(* not an action here: the properties are about the entity endpoints.      *)
(***************************************************************************)
EXTENDS Naturals

CONSTANTS Puts,        \* PUT /projects/:id requests
          Admins,      \* those whose caller holds pm.admin
          Updates,     \* status posts
          Contracts,   \* contracts linked by the consumer
          Threads,     \* conversation ids chat may answer with
          Forged,      \* a conversation id made up by a client
          MaxVersion,  \* bound: edits elsewhere in the document
          Nil          \* an absent JSON field

ASSUME ProjectsAssumption ==
  /\ Admins \subseteq Puts
  /\ MaxVersion \in Nat
  /\ Nil \notin Threads \cup {Forged}
  /\ Forged \notin Threads
  /\ \A s \in (SUBSET Updates) \cup (SUBSET Contracts) : s # Nil

VARIABLES proj,     \* the project in the stored document
          ver,      \* the document's version
          posted,   \* status posts made
          linked,   \* contract events consumed
          pc, attempt,
          body,     \* the request as bound
          p,        \* the struct the closure fills in
          snap, snapVer, \* what Mutate resolved
          isNew,    \* PUTs whose closure found no project, in either attempt
          tpc,      \* ensureProjectThread: where it is
          wiped     \* history: <<r, x>>, PUT r removed x without sending a list

store   == <<proj, ver>>
putVars == <<pc, attempt, body, p, snap, snapVer, isNew>>
vars    == <<store, posted, linked, putVars, tpc, wiped>>

Visibilities == {"workspace", "members_only"}
Labels       == {"idle", "read", "apply", "written", "failed"}

\* A stored project; the fields of an absent one are those of an empty struct.
Project == [present : BOOLEAN, visibility : Visibilities,
            conversation : Threads \cup {Forged, Nil},
            history : SUBSET Updates, contracts : SUBSET Contracts]

Absent == [present |-> FALSE, visibility |-> "workspace", conversation |-> Nil,
           history |-> {}, contracts |-> {}]

\* A PUT's body: it may leave out either list, or send one (here: an empty
\* one), which then replaces the stored list by the client's will.
Bodies == [visibility : Visibilities, conversation : {Forged, Nil},
           history : {Nil, {}}, contracts : {Nil, {}}]

\* The struct while the closure works on it.
Structs == [visibility : Visibilities, conversation : Threads \cup {Forged, Nil},
            history : {Nil} \cup SUBSET Updates, contracts : {Nil} \cup SUBSET Contracts]

NoBody == [visibility |-> "workspace", conversation |-> Nil,
           history |-> Nil, contracts |-> Nil]

Init ==
  /\ \E v \in Visibilities :
       proj \in {Absent, [Absent EXCEPT !.present = TRUE, !.visibility = v]}
  /\ ver = 1
  /\ posted = {}
  /\ linked = {}
  /\ pc = [r \in Puts |-> "idle"]
  /\ attempt = [r \in Puts |-> 0]
  /\ body = [r \in Puts |-> NoBody]
  /\ p = [r \in Puts |-> NoBody]
  /\ snap = [r \in Puts |-> Absent]
  /\ snapVer = [r \in Puts |-> 0]
  /\ isNew = {}
  /\ tpc = [r \in Puts |-> "none"]
  /\ wiped = {}

Write(new) == proj' = new /\ ver' = ver + 1

-----------------------------------------------------------------------------
(* putProject.                                                             *)

Start(r) ==
  /\ pc[r] = "idle"
  /\ pc' = [pc EXCEPT ![r] = "read"]
  /\ \E b \in Bodies : /\ body' = [body EXCEPT ![r] = b]
                       /\ p' = [p EXCEPT ![r] = b]
  /\ UNCHANGED <<store, posted, linked, attempt, snap, snapVer, isNew, tpc, wiped>>

\* ResolveForUser.
Read(r) ==
  /\ pc[r] = "read"
  /\ pc' = [pc EXCEPT ![r] = "apply"]
  /\ snap' = [snap EXCEPT ![r] = proj]
  /\ snapVer' = [snapVer EXCEPT ![r] = ver]
  /\ UNCHANGED <<store, posted, linked, attempt, body, p, isNew, tpc, wiped>>

\* A nil list is filled from the document; one that is there is kept.  An
\* empty list is left out of the stored document and reads as nil.
Filled(mine, theirs) ==
  IF mine # Nil THEN mine ELSE IF theirs = {} THEN Nil ELSE theirs

\* Mutant of Merged: visibility from the request whenever it is sent.
MergedUnchecked(r, e) ==
  [visibility   |-> p[r].visibility,
   conversation |-> e.conversation,
   history      |-> Filled(p[r].history, e.history),
   contracts    |-> Filled(p[r].contracts, e.contracts)]

\* Mutant of Merged: the conversation is filled in like the lists.
MergedConversation(r, e) ==
  [visibility   |-> IF r \in Admins THEN p[r].visibility ELSE e.visibility,
   conversation |-> Filled(p[r].conversation, e.conversation),
   history      |-> Filled(p[r].history, e.history),
   contracts    |-> Filled(p[r].contracts, e.contracts)]

\* The closure on an existing project e.
Merged(r, e) ==
  [visibility   |-> IF r \in Admins THEN p[r].visibility ELSE e.visibility,
   conversation |-> e.conversation,
   history      |-> Filled(p[r].history, e.history),
   contracts    |-> Filled(p[r].contracts, e.contracts)]

\* The closure on a new one.
Fresh(r) == [p[r] EXCEPT !.conversation = Nil]

Closure(r) == IF snap[r].present THEN Merged(r, snap[r]) ELSE Fresh(r)

Listed(l) == IF l = Nil THEN {} ELSE l

Stored(s) == [present |-> TRUE, visibility |-> s.visibility,
              conversation |-> s.conversation,
              history |-> Listed(s.history), contracts |-> Listed(s.contracts)]

FoundNone(r) == r \in isNew \/ ~snap[r].present

\* Once mutate has answered, whatever it answered, a PUT that found no project
\* starts ensureProjectThread in the background.
Answer(r, l, new) ==
  /\ pc' = [pc EXCEPT ![r] = l]
  /\ tpc' = [tpc EXCEPT ![r] = IF new THEN "started" ELSE "none"]
  /\ body' = [body EXCEPT ![r] = NoBody]
  /\ p' = [p EXCEPT ![r] = NoBody]
  /\ snap' = [snap EXCEPT ![r] = Absent]
  /\ snapVer' = [snapVer EXCEPT ![r] = 0]
  /\ isNew' = isNew \ {r}

\* What a PUT that did not send the lists took out of them.
Wipes(r, new) ==
  {<<r, x>> : x \in (IF body[r].history = Nil THEN proj.history \ new.history ELSE {})
                      \cup (IF body[r].contracts = Nil THEN proj.contracts \ new.contracts
                            ELSE {})}

Commit(r) ==
  /\ pc[r] = "apply"
  /\ snapVer[r] = ver
  /\ Write(Stored(Closure(r)))
  /\ wiped' = wiped \cup Wipes(r, Stored(Closure(r)))
  /\ Answer(r, "written", FoundNone(r))
  /\ UNCHANGED <<posted, linked, attempt>>

\* Mutant of Retry: the attempts are not counted.
RetryUncounted(r) ==
  /\ pc[r] = "apply"
  /\ snapVer[r] # ver
  /\ attempt' = [attempt EXCEPT ![r] = @ + 1]
  /\ pc' = [pc EXCEPT ![r] = "read"]
  /\ p' = [p EXCEPT ![r] = Closure(r)]
  /\ isNew' = IF FoundNone(r) THEN isNew \cup {r} ELSE isNew
  /\ UNCHANGED <<store, posted, linked, body, snap, snapVer, tpc, wiped>>

\* The first attempt failed: the struct and isNew stay as the closure left them.
Retry(r) ==
  /\ pc[r] = "apply"
  /\ snapVer[r] # ver
  /\ attempt[r] = 0
  /\ attempt' = [attempt EXCEPT ![r] = 1]
  /\ pc' = [pc EXCEPT ![r] = "read"]
  /\ p' = [p EXCEPT ![r] = Closure(r)]
  /\ isNew' = IF FoundNone(r) THEN isNew \cup {r} ELSE isNew
  /\ UNCHANGED <<store, posted, linked, body, snap, snapVer, tpc, wiped>>

\* The second failed as well: 409.
Conflict(r) ==
  /\ pc[r] = "apply"
  /\ snapVer[r] # ver
  /\ attempt[r] = 1
  /\ Answer(r, "failed", FoundNone(r))
  /\ UNCHANGED <<store, posted, linked, attempt, wiped>>

\* ResolveForUser or the UPDATE failed: 500, before or after the closure ran.
QueryFails(r) ==
  /\ \/ pc[r] = "read" /\ Answer(r, "failed", r \in isNew)
     \/ pc[r] = "apply" /\ Answer(r, "failed", FoundNone(r))
  /\ UNCHANGED <<store, posted, linked, attempt, wiped>>

-----------------------------------------------------------------------------
(* ensureProjectThread: chat answers, then a Mutate of its own.            *)

\* Mutant of SaveThread: it does not look whether there is one already.
SaveThreadAnyway(r) ==
  /\ tpc[r] = "started"
  /\ tpc' = [tpc EXCEPT ![r] = "done"]
  /\ \E t \in Threads :
       IF proj.present
         THEN Write([proj EXCEPT !.conversation = t])
         ELSE Write(proj)
  /\ UNCHANGED <<posted, linked, putVars, wiped>>

\* External: chat finds or creates the thread; which id it answers is its own.
SaveThread(r) ==
  /\ tpc[r] = "started"
  /\ tpc' = [tpc EXCEPT ![r] = "done"]
  /\ \E t \in Threads :
       IF proj.present /\ proj.conversation = Nil
         THEN Write([proj EXCEPT !.conversation = t])
         ELSE Write(proj)
  /\ UNCHANGED <<posted, linked, putVars, wiped>>

\* Chat is down, the update conflicts twice, or the replica dies.
ThreadFails(r) ==
  /\ tpc[r] = "started"
  /\ tpc' = [tpc EXCEPT ![r] = "done"]
  /\ UNCHANGED <<store, posted, linked, putVars, wiped>>

-----------------------------------------------------------------------------
(* The other writers.                                                      *)

\* postProjectStatus.
PostStatus(u) ==
  /\ u \notin posted
  /\ proj.present
  /\ posted' = posted \cup {u}
  /\ Write([proj EXCEPT !.history = @ \cup {u}])
  /\ UNCHANGED <<linked, putVars, tpc, wiped>>

\* linkContractOnProject, upsertProjectContractLink.
LinkContract(k) ==
  /\ k \notin linked
  /\ linked' = linked \cup {k}
  /\ Write(IF proj.present THEN [proj EXCEPT !.contracts = @ \cup {k}] ELSE proj)
  /\ UNCHANGED <<posted, putVars, tpc, wiped>>

\* contracts.contract.deleted: removeLinkedContract.
UnlinkContract(k) ==
  /\ k \in proj.contracts
  /\ Write([proj EXCEPT !.contracts = @ \ {k}])
  /\ UNCHANGED <<posted, linked, putVars, tpc, wiped>>

DeleteProject ==
  /\ ver < MaxVersion
  /\ proj.present
  /\ Write(Absent)
  /\ UNCHANGED <<posted, linked, putVars, tpc, wiped>>

\* applyProjectTemplate refuses an id that is taken.
ApplyTemplate ==
  /\ ver < MaxVersion
  /\ ~proj.present
  /\ Write([Absent EXCEPT !.present = TRUE])
  /\ UNCHANGED <<posted, linked, putVars, tpc, wiped>>

\* An edit elsewhere in the document.
EditElsewhere ==
  /\ ver < MaxVersion
  /\ Write(proj)
  /\ UNCHANGED <<posted, linked, putVars, tpc, wiped>>

-----------------------------------------------------------------------------
Put(r) == Start(r) \/ Read(r) \/ Commit(r) \/ Retry(r) \/ Conflict(r)
            \/ QueryFails(r)

Thread(r) == SaveThread(r) \/ ThreadFails(r)

Others ==
  \/ \E u \in Updates : PostStatus(u)
  \/ \E k \in Contracts : LinkContract(k) \/ UnlinkContract(k)
  \/ DeleteProject \/ ApplyTemplate \/ EditElsewhere

Next == (\E r \in Puts : Put(r) \/ Thread(r)) \/ Others

Spec == Init /\ [][Next]_vars

-----------------------------------------------------------------------------
(* Properties.                                                             *)

\* Types of the stored project, of the requests and of the history.
TypeOK ==
  /\ proj \in Project
  /\ ver \in Nat
  /\ posted \subseteq Updates
  /\ linked \subseteq Contracts
  /\ pc \in [Puts -> Labels]
  /\ attempt \in [Puts -> {0, 1}]
  /\ body \in [Puts -> Structs]
  /\ p \in [Puts -> Structs]
  /\ snap \in [Puts -> Project]
  /\ snapVer \in [Puts -> Nat]
  /\ isNew \subseteq Puts
  /\ tpc \in [Puts -> {"none", "started", "done"}]
  /\ wiped \subseteq Puts \X (Updates \cup Contracts)

Written(r) == pc[r] = "apply" /\ pc'[r] = "written"

\* "it cannot widen a members_only project": a PUT without pm.admin leaves the
\* visibility of the project it replaces as it is at that moment, although the
\* closure saw a document read earlier and may run twice.
AccessKept ==
  \A r \in Puts \ Admins :
    Written(r) /\ proj.present => proj'.visibility = proj.visibility

\* AccessKept at every step.
AccessNeedsAdmin == [][AccessKept]_vars

\* While the project is there, a conversation that is set is never replaced,
\* by PUTs, their retries or a second background creation of the thread.
ConversationKept ==
  proj.present /\ proj'.present /\ proj.conversation # Nil
    => proj'.conversation = proj.conversation

\* ConversationKept at every step.
ConversationIsFinal == [][ConversationKept]_vars

\* "never let a client PUT set or wipe it": the conversation of a stored
\* project was answered by chat.
ConversationFromChat == proj.conversation # Forged

\* "a partial round-trip does not wipe them": a PUT that leaves a list out
\* removes no status post and no linked contract.  It does not hold: README.md,
\* Findings.
ListsAreKept == wiped = {}

-----------------------------------------------------------------------------
(* The inductive invariant behind the properties.                          *)

\* What a PUT resolved is never newer than the row, and while the versions
\* agree it is the row.
SnapshotsCoherent ==
  \A r \in Puts :
    pc[r] = "apply" => snapVer[r] <= ver /\ (snapVer[r] = ver => snap[r] = proj)

IndInv == TypeOK /\ SnapshotsCoherent /\ ConversationFromChat
=============================================================================
