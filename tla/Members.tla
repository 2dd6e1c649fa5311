------------------------------ MODULE Members ------------------------------
(***************************************************************************)
(* Who is a member of which workspace.  The answer is kept twice: as rows  *)
(* of pm_workspace_members, which give access, and as Members of the       *)
(* document, which have an Active flag.  Both are written by the events of *)
(* the users and auth services (consumer/handlers.go), by the sync that    *)
(* follows setOrg, and by POST /workspace/members, each of them first the  *)
(* row and then the document, in two transactions.  An error of either is  *)
(* logged or dropped and the loop goes on.                                 *)
(*                                                                         *)
(* A behaviour follows one organisation, whose events are one partition of *)
(* the topic: in order, fetched by one replica at a time, and again from   *)
(* the committed offset after a rebalance, while the replica that lost the *)
(* partition goes on with the event it has.                                *)
(*                                                                         *)
(* Users are people other than the owners of the workspaces.  A member     *)
(* record is known by its UserID; the e-mail of a record is that of its    *)
(* user.  Of the tasks one that is open and one that is done are kept per  *)
(* workspace.                                                              *)
(***************************************************************************)
EXTENDS Naturals, Sequences, FiniteSets

CONSTANTS Workspaces, Users,
          Consumers,   \* replicas that consume the events
          NameOf,      \* user -> full name; namesakes have the same
          InitialsOf,  \* full name -> initialsFromName of it
          MaxEvents,   \* bound on events published
          MaxFaults,   \* bound on rebalances, stops and failures of the consumers
          MaxLinks,    \* bound on setOrg requests
          MaxByHand,   \* bound on POST /workspace/members
          MaxTasks,    \* bound on how often a task is assigned or opened again
          None

ASSUME MembersAssumption ==
  /\ None \notin Users \cup Workspaces \cup {NameOf[u] : u \in Users}
  /\ {MaxEvents, MaxFaults, MaxLinks, MaxByHand, MaxTasks} \subseteq Nat

Names == {NameOf[u] : u \in Users}

VARIABLES
  dir,        \* members of the organisation, in the users service
  log,        \* the events published, in the order of the partition
  link,       \* workspaces whose org_id is the organisation's
  sql,        \* workspace -> users with a row in pm_workspace_members
  members,    \* workspace -> Document.Members
  open,       \* workspace -> whom its open task names: a user's id or e-mail, or a name
  closed,     \* workspace -> whom its done task names
  owner,      \* the consumer that has the partition
  next,       \* the position it fetches from
  offset,     \* the position committed
  processed,  \* positions in pm_processed_events
  handled,    \* positions whose handling came to its end once
  doing,      \* consumer -> the position of the event it handles, or 0
  todo,       \* consumer -> workspaces its handler has still to visit
  visiting,   \* consumer -> the workspace it is in
  stage,      \* consumer -> "idle", "loop" or "doc"
  faults,     \* rebalances, stops and failures so far
  sync,       \* workspace -> "idle", "list" or "add": its setOrg request
  roster,     \* workspace -> users its sync has still to add
  links,      \* how many setOrg requests there were
  hands,      \* how many POST /workspace/members
  tasks,      \* how often a task was assigned or opened again
  pending,    \* rows written whose document write is still to come
  byHand,     \* <<workspace, user>> with a record of POST /workspace/members
  excused,    \* <<workspace, user>> where a joining was lost
  stuck,      \* <<workspace, user>> whose row RemoveMember failed to delete
  out,        \* <<workspace, user>> removed, and granted nothing since
  tasked      \* of these, those whom a task was given to since

orgVars   == <<dir, log>>
fetchVars == <<owner, next, offset, processed, handled>>
loopVars  == <<doing, todo, visiting, stage>>
contents  == <<members, open, closed>>
httpVars  == <<sync, roster, links, hands, tasks, pending, byHand>>
marks     == <<excused, stuck, out, tasked>>
memberVars == <<orgVars, link, sql, contents, fetchVars, loopVars, faults, httpVars, marks>>

MembersInit ==
  /\ dir \in SUBSET Users /\ log = << >>
  /\ link = {}
  /\ sql = [w \in Workspaces |-> {}]
  /\ members = [w \in Workspaces |-> << >>]
  /\ open = [w \in Workspaces |-> None] /\ closed = [w \in Workspaces |-> None]
  /\ owner \in Consumers
  /\ next = 1 /\ offset = 0 /\ processed = {} /\ handled = {}
  /\ doing = [c \in Consumers |-> 0] /\ todo = [c \in Consumers |-> {}]
  /\ visiting = [c \in Consumers |-> None] /\ stage = [c \in Consumers |-> "idle"]
  /\ faults = 0
  /\ sync = [w \in Workspaces |-> "idle"] /\ roster = [w \in Workspaces |-> {}]
  /\ links = 0 /\ hands = 0 /\ tasks = 0
  /\ pending = {} /\ byHand = {}
  /\ excused = {} /\ stuck = {} /\ out = {} /\ tasked = {}

-----------------------------------------------------------------------------
(* The users and auth services. *)

Announce(k, u) ==
  /\ Len(log) < MaxEvents
  /\ log' = Append(log, [kind |-> k, user |-> u])
  /\ UNCHANGED <<link, sql, contents, fetchVars, loopVars, faults, httpVars, marks>>

JoinOrg(u)  == u \notin dir /\ dir' = dir \cup {u} /\ Announce("added", u)
LeaveOrg(u) == u \in dir /\ dir' = dir \ {u} /\ Announce("removed", u)

SetActive(k, u) ==
  /\ k \in {"deactivated", "reactivated"}
  /\ Announce(k, u)
  /\ UNCHANGED dir

-----------------------------------------------------------------------------
(* What the closures do to the members of a document. *)

(* The name of an event matches a record as well as the user's id does. *)
memberMatches(m, u) == m.user = u \/ NameOf[m.user] = NameOf[u]

SetActiveFlag(ms, u, b) ==
  [i \in DOMAIN ms |-> IF memberMatches(ms[i], u) THEN [ms[i] EXCEPT !.active = b] ELSE ms[i]]

applyUserReactivation(ms, u) == SetActiveFlag(ms, u, TRUE)

(* A task names a user by id, e-mail or name. *)
IsFor(a, u) == a \in {u, NameOf[u]}

(* Mutant of applyUserDeactivation: a document in which no record changes is
   left as it is, with the assignments. *)
DeactivateKnown(d, u) ==
  LET ms == SetActiveFlag(d.members, u, FALSE) IN
  [members |-> ms,
   open    |-> IF ms # d.members /\ IsFor(d.open, u) THEN None ELSE d.open]

(* An open task is taken from the user; a done one is left alone. *)
applyUserDeactivation(d, u) ==
  [members |-> SetActiveFlag(d.members, u, FALSE),
   open    |-> IF IsFor(d.open, u) THEN None ELSE d.open]

HasRecord(ms, u) == \E i \in DOMAIN ms : ms[i].user = u

(* A record that is there stays as it is, active or not. *)
applyOrgMemberAdded(ms, u) ==
  IF HasRecord(ms, u) THEN ms
  ELSE Append(ms, [user |-> u, initials |-> InitialsOf[NameOf[u]], active |-> TRUE])

(* addMember: the first record with these initials is replaced. *)
PutMember(ms, m) ==
  IF \E i \in DOMAIN ms : ms[i].initials = m.initials
  THEN [ms EXCEPT ![CHOOSE i \in DOMAIN ms :
                      /\ ms[i].initials = m.initials
                      /\ \A j \in 1..(i - 1) : ms[j].initials # m.initials] = m]
  ELSE Append(ms, m)

(* Removed users whom a grant to u, or to a namesake, lets in again. *)
Granted(w, u) == {w} \X {v \in Users : NameOf[v] = NameOf[u]}

-----------------------------------------------------------------------------
(* Consumer.Run of a replica, and the handler of the event it has. *)

Ev(c) == log[doing[c]]
OrgEvent(e) == e.kind \in {"added", "removed"}

Fault == faults < MaxFaults /\ faults' = faults + 1

(* FetchMessage. *)
Fetch(c) ==
  /\ owner = c /\ stage[c] = "idle" /\ next <= Len(log)
  /\ next' = next + 1
  /\ UNCHANGED <<orgVars, link, sql, contents, owner, processed, httpVars, stuck, out, tasked>>

(* The event is one that is not marked, or Dedupe.Seen failed; ListWorkspaces
   or ListWorkspacesByOrgID answers. *)
Receive(c) ==
  /\ Fetch(c)
  /\ IF next \in processed THEN Fault ELSE UNCHANGED faults
  /\ doing' = [doing EXCEPT ![c] = next]
  /\ todo' = [todo EXCEPT ![c] = IF OrgEvent(log[next]) THEN link ELSE Workspaces]
  /\ stage' = [stage EXCEPT ![c] = "loop"]
  /\ UNCHANGED <<offset, handled, visiting, excused>>

(* An error of the commit is logged, here and in Finish. *)
Seen(c) ==
  /\ Fetch(c)
  /\ next \in processed
  /\ (offset' = next /\ UNCHANGED faults) \/ (UNCHANGED offset /\ Fault)
  /\ UNCHANGED <<handled, loopVars, excused>>

(* The list failed at every attempt: the event goes to the dead letters, and
   counts as consumed. *)
DeadLetter(c) ==
  /\ Fetch(c) /\ Fault
  /\ offset' \in {offset, next} /\ handled' = handled \cup {next}
  /\ excused' = IF log[next].kind = "added" THEN excused \cup (Workspaces \X {log[next].user})
                ELSE excused
  /\ UNCHANGED loopVars

(* A removal is carried out although a newer joining of the same user has
   been handled, by another replica or before a redelivery, or is with one. *)
Overtaken(c) ==
  \E k \in (doing[c] + 1)..Len(log) :
    /\ log[k] = [kind |-> "added", user |-> Ev(c).user]
    /\ k \in handled \/ \E d \in Consumers : doing[d] = k

(* AddMember or RemoveMember on the rows. *)
Visit(c, w, written) ==
  /\ stage[c] = "loop" /\ w \in todo[c]
  /\ visiting' = [visiting EXCEPT ![c] = w]
  /\ todo' = [todo EXCEPT ![c] = @ \ {w}]
  /\ stage' = [stage EXCEPT ![c] = "doc"]
  /\ LET u == Ev(c).user IN
     CASE Ev(c).kind = "added" /\ written ->
            /\ sql' = [sql EXCEPT ![w] = @ \cup {u}]
            /\ out' = out \ Granted(w, u)
            /\ UNCHANGED <<excused, stuck>>
       [] Ev(c).kind = "added" /\ ~written ->
            /\ excused' = excused \cup {<<w, u>>}
            /\ UNCHANGED <<sql, out, stuck>>
       [] Ev(c).kind = "removed" /\ written ->
            /\ sql' = [sql EXCEPT ![w] = @ \ {u}]
            /\ stuck' = stuck \ {<<w, u>>}
            /\ excused' = IF Overtaken(c) THEN excused \cup {<<w, u>>} ELSE excused
            /\ UNCHANGED out
       [] Ev(c).kind = "removed" /\ ~written ->
            /\ stuck' = stuck \cup {<<w, u>>}
            /\ UNCHANGED <<sql, out, excused>>
       [] OTHER -> written /\ UNCHANGED <<sql, out, excused, stuck>>
  /\ UNCHANGED <<orgVars, link, contents, fetchVars, doing, faults, httpVars, tasked>>

(* The Mutate of the workspace the handler is in. *)
ApplyEvent(c) ==
  LET w == visiting[c] u == Ev(c).user k == Ev(c).kind
      d == [members |-> members[w], open |-> open[w]]
      e == CASE k = "added"       -> [d EXCEPT !.members = applyOrgMemberAdded(@, u)]
             [] k = "reactivated" -> [d EXCEPT !.members = applyUserReactivation(@, u)]
             [] OTHER             -> applyUserDeactivation(d, u) IN
  /\ stage[c] = "doc" /\ stage' = [stage EXCEPT ![c] = "loop"]
  /\ members' = [members EXCEPT ![w] = e.members]
  /\ open' = [open EXCEPT ![w] = e.open]
  /\ IF k = "removed" /\ (u \notin sql[w] \/ <<w, u>> \in stuck)
     THEN out' = out \cup {<<w, u>>} /\ tasked' = tasked \ {<<w, u>>}
     ELSE /\ out' = IF k \in {"added", "reactivated"} THEN out \ Granted(w, u) ELSE out
          /\ UNCHANGED tasked
  /\ UNCHANGED <<orgVars, link, sql, closed, fetchVars, doing, todo, visiting, faults, httpVars,
                 excused, stuck>>

(* It fails, after a second version conflict or on an error. *)
ApplyFails(c) ==
  /\ stage[c] = "doc" /\ stage' = [stage EXCEPT ![c] = "loop"]
  /\ excused' = IF Ev(c).kind = "added" THEN excused \cup {<<visiting[c], Ev(c).user>>}
                ELSE excused
  /\ UNCHANGED <<orgVars, link, sql, contents, fetchVars, doing, todo, visiting, faults, httpVars,
                 stuck, out, tasked>>

Idle(c) ==
  /\ doing' = [doing EXCEPT ![c] = 0] /\ todo' = [todo EXCEPT ![c] = {}]
  /\ visiting' = [visiting EXCEPT ![c] = None] /\ stage' = [stage EXCEPT ![c] = "idle"]

(* Dedupe.Mark and the commit; an error of either is logged.  Who has lost the
   partition cannot commit. *)
Finish(c, marked, commits) ==
  /\ stage[c] = "loop" /\ todo[c] = {}
  /\ commits => owner = c
  /\ IF marked /\ (commits \/ owner # c) THEN UNCHANGED faults ELSE Fault
  /\ processed' = IF marked THEN processed \cup {doing[c]} ELSE processed
  /\ offset' = IF commits THEN doing[c] ELSE offset
  /\ handled' = handled \cup {doing[c]}
  /\ Idle(c)
  /\ UNCHANGED <<orgVars, link, sql, contents, owner, next, httpVars, marks>>

(* External: the group's partition goes to a consumer, which fetches from the
   committed offset. *)
Assigned(c) == owner' = c /\ next' = offset + 1

Rebalance(c) ==
  /\ Fault /\ Assigned(c)
  /\ UNCHANGED <<orgVars, link, sql, contents, offset, processed, handled, loopVars, httpVars, marks>>

(* A replica stops in the middle of an event. *)
Stop(c) ==
  /\ stage[c] # "idle" /\ Fault /\ Idle(c)
  /\ IF owner = c THEN \E d \in Consumers : Assigned(d) ELSE UNCHANGED <<owner, next>>
  /\ UNCHANGED <<orgVars, link, sql, contents, offset, processed, handled, httpVars, marks>>

Consume(c) ==
  \/ Receive(c) \/ Seen(c) \/ DeadLetter(c) \/ ApplyEvent(c) \/ ApplyFails(c)
  \/ Rebalance(c) \/ Stop(c)
  \/ \E w \in todo[c], written \in BOOLEAN : Visit(c, w, written)
  \/ \E marked, commits \in BOOLEAN : Finish(c, marked, commits)

-----------------------------------------------------------------------------
(* Requests. *)

(* Mutant of SetOrg: the organisation's members are listed before org_id is
   written. *)
ListThenLink(w) ==
  /\ sync[w] = "idle" /\ links < MaxLinks
  /\ \/ /\ roster[w] = {} /\ roster' = [roster EXCEPT ![w] = dir]
        /\ UNCHANGED <<link, links, sync>>
     \/ /\ link' = link \cup {w} /\ links' = links + 1
        /\ sync' = [sync EXCEPT ![w] = "add"]
        /\ UNCHANGED roster
  /\ UNCHANGED <<orgVars, sql, contents, fetchVars, loopVars, faults, hands, tasks, pending, byHand, marks>>

(* setOrg: SetOrgID, then (whatever became of the document's own OrgID) the
   sync. *)
SetOrg(w) ==
  /\ sync[w] = "idle" /\ links < MaxLinks
  /\ link' = link \cup {w} /\ links' = links + 1
  /\ sync' = [sync EXCEPT ![w] = "list"]
  /\ UNCHANGED <<orgVars, sql, contents, fetchVars, loopVars, faults, roster, hands, tasks, pending,
                 byHand, marks>>

(* setOrg without, or with another, organisation: nobody is removed. *)
ClearOrg(w) ==
  /\ w \in link
  /\ link' = link \ {w}
  /\ UNCHANGED <<orgVars, sql, contents, fetchVars, loopVars, faults, httpVars, marks>>

(* ListOrgMembers answers, or fails and the sync is given up. *)
ListOrgMembers(w) ==
  /\ sync[w] = "list"
  /\ \/ /\ roster' = [roster EXCEPT ![w] = dir]
        /\ sync' = [sync EXCEPT ![w] = "add"]
        /\ UNCHANGED excused
     \/ /\ excused' = excused \cup ({w} \X dir)
        /\ sync' = [sync EXCEPT ![w] = "idle"]
        /\ UNCHANGED roster
  /\ UNCHANGED <<orgVars, link, sql, contents, fetchVars, loopVars, faults, links, hands, tasks,
                 pending, byHand, stuck, out, tasked>>

Write(w, u, by) == [ws |-> w, user |-> u, by |-> by]

(* Repo.AddMember by a request, which goes on to the document. *)
AddRow(w, u, by) ==
  /\ sql' = [sql EXCEPT ![w] = @ \cup {u}]
  /\ out' = out \ Granted(w, u)
  /\ pending' = pending \cup {Write(w, u, by)}
  /\ UNCHANGED <<orgVars, link, contents, fetchVars, loopVars, faults, links, tasks, byHand,
                 excused, stuck, tasked>>

Syncing(w, u) ==
  /\ sync[w] = "add" /\ u \in roster[w]
  /\ \A v \in Users : Write(w, v, "sync") \notin pending
  /\ roster' = [roster EXCEPT ![w] = @ \ {u}]
  /\ UNCHANGED <<sync, hands>>

(* One member of the list. *)
SyncMember(w, u) == Syncing(w, u) /\ AddRow(w, u, "sync")

(* Both of its writes are tried whatever becomes of the other; here the row
   fails. *)
SyncRowFails(w, u) ==
  /\ Syncing(w, u)
  /\ excused' = excused \cup {<<w, u>>}
  /\ pending' = pending \cup {Write(w, u, "sync")}
  /\ UNCHANGED <<orgVars, link, sql, contents, fetchVars, loopVars, faults, links, tasks, byHand,
                 stuck, out, tasked>>

SyncDone(w) ==
  /\ sync[w] = "add" /\ roster[w] = {}
  /\ \A v \in Users : Write(w, v, "sync") \notin pending
  /\ sync' = [sync EXCEPT ![w] = "idle"]
  /\ UNCHANGED <<orgVars, link, sql, contents, fetchVars, loopVars, faults, roster, links, hands, tasks,
                 pending, byHand, marks>>

AddMember(w, u) ==
  /\ hands < MaxByHand /\ hands' = hands + 1
  /\ AddRow(w, u, "hand")
  /\ UNCHANGED <<sync, roster>>

(* A document write; a record of somebody else may be replaced. *)
WriteMembers(p, w, u, ms) ==
  /\ p \in pending /\ pending' = pending \ {p}
  /\ members' = [members EXCEPT ![w] = ms]
  /\ out' = out \ Granted(w, u)
  /\ excused' = excused \cup
       {<<w, v>> : v \in {x \in Users : HasRecord(members[w], x) /\ ~HasRecord(ms, x)}}
  /\ UNCHANGED <<orgVars, link, sql, open, closed, fetchVars, loopVars, faults, sync, roster, links,
                 hands, tasks, stuck, tasked>>

SyncDocument(p) ==
  /\ p.by = "sync"
  /\ WriteMembers(p, p.ws, p.user, applyOrgMemberAdded(members[p.ws], p.user))
  /\ UNCHANGED byHand

(* addMember's Mutate resolves the caller's workspace a second time; initials,
   Active and, if it has one, the user of the record are the client's. *)
AddMemberDocument(p, w, m) ==
  /\ p.by = "hand"
  /\ WriteMembers(p, w, m.user, PutMember(members[w], m))
  /\ byHand' = byHand \cup {<<w, m.user>>}

(* It fails, or the request names no member record. *)
NoDocument(p) ==
  /\ p \in pending /\ pending' = pending \ {p}
  /\ excused' = IF p.by = "sync" THEN excused \cup {<<p.ws, p.user>>} ELSE excused
  /\ UNCHANGED <<orgVars, link, sql, contents, fetchVars, loopVars, faults, sync, roster, links,
                 hands, tasks, byHand, stuck, out, tasked>>

(* The open task comes to name a. *)
OpenTask(w, a) ==
  /\ tasks < MaxTasks /\ tasks' = tasks + 1
  /\ open' = [open EXCEPT ![w] = a]
  /\ tasked' = tasked \cup (out \cap ({w} \X {u \in Users : IsFor(a, u)}))
  /\ UNCHANGED <<orgVars, link, sql, members, fetchVars, loopVars, faults, sync, roster, links, hands,
                 pending, byHand, excused, stuck, out>>

(* patchTask: any text is an assignee, active member or not. *)
Assign(w, a) == OpenTask(w, a) /\ UNCHANGED closed

(* patchTask with done, and without; it keeps the assignee. *)
Complete(w) ==
  /\ open[w] # None
  /\ closed' = [closed EXCEPT ![w] = open[w]] /\ open' = [open EXCEPT ![w] = None]
  /\ UNCHANGED <<orgVars, link, sql, members, fetchVars, loopVars, faults, httpVars, marks>>

Reopen(w) ==
  /\ closed[w] # None /\ OpenTask(w, closed[w])
  /\ closed' = [closed EXCEPT ![w] = None]

(* The recurrence job: an open copy of a done task, with its assignee. *)
Recur(w) == closed[w] # None /\ OpenTask(w, closed[w]) /\ UNCHANGED closed

InitialsInUse == {InitialsOf[n] : n \in Names}
Member == [user : Users, initials : InitialsInUse, active : BOOLEAN]

Request ==
  \/ \E w \in Workspaces : SetOrg(w) \/ ClearOrg(w) \/ ListOrgMembers(w) \/ SyncDone(w)
  \/ \E w \in Workspaces, u \in Users :
       SyncMember(w, u) \/ SyncRowFails(w, u) \/ AddMember(w, u)
  \/ \E p \in pending :
       \/ SyncDocument(p) \/ NoDocument(p)
       \/ \E w \in Workspaces, m \in Member : AddMemberDocument(p, w, m)
  \/ \E w \in Workspaces :
       \/ \E a \in Users \cup Names : Assign(w, a)
       \/ Complete(w) \/ Reopen(w) \/ Recur(w)

MembersNext ==
  \/ \E u \in Users :
       \/ JoinOrg(u) \/ LeaveOrg(u)
       \/ \E k \in {"deactivated", "reactivated"} : SetActive(k, u)
  \/ \E c \in Consumers : Consume(c)
  \/ Request

MembersSpec == MembersInit /\ [][MembersNext]_memberVars

-----------------------------------------------------------------------------
(* Every event has been committed, no handler or request is under way. *)
Quiet ==
  /\ offset = Len(log) /\ \A c \in Consumers : stage[c] = "idle"
  /\ pending = {} /\ \A w \in Workspaces : sync[w] = "idle"

Records(w, u) == {i \in DOMAIN members[w] : members[w][i].user = u}

(* Once everything announced has been handled and every sync is over, each
   member of the organisation has access to each linked workspace and one
   record in its document, whichever of the events and the syncs came first,
   however often an event was delivered and however many replicas worked on
   it: whoever joins while the workspace is being linked is either in the list
   or in an event.  A joining is lost only where one of its own writes or lists
   failed, its event went to the dead letters, a request replaced the record,
   or an older removal was carried out when the joining had been handled or
   was with another replica. *)
JoinersGetIn ==
  Quiet => \A w \in link, u \in dir :
    <<w, u>> \notin excused =>
      /\ u \in sql[w]
      /\ Records(w, u) # {}
      /\ <<w, u>> \notin byHand => \A i, j \in Records(w, u) : i = j

(* Somebody removed from a workspace has no active record there until
   something is granted to them, or to a namesake, and no row unless
   RemoveMember failed; an open task names them only if it was assigned, or
   opened again or copied from a done one, since. *)
LeaversStayOut ==
  \A x \in out : LET w == x[1] u == x[2] IN
    /\ u \in sql[w] => x \in stuck
    /\ \A i \in Records(w, u) : ~members[w][i].active
    /\ IsFor(open[w], u) => x \in tasked

Kinds == {"added", "removed", "deactivated", "reactivated"}

(* Types of the state, and where a consumer can be. *)
MembersTypeOK ==
  /\ dir \subseteq Users
  /\ log \in Seq([kind : Kinds, user : Users])
  /\ link \subseteq Workspaces
  /\ sql \in [Workspaces -> SUBSET Users]
  /\ members \in [Workspaces -> Seq(Member)]
  /\ open \in [Workspaces -> Users \cup Names \cup {None}]
  /\ closed \in [Workspaces -> Users \cup Names \cup {None}]
  /\ owner \in Consumers
  /\ next \in 1..(Len(log) + 1) /\ offset \in 0..Len(log)
  /\ handled \subseteq 1..Len(log) /\ processed \subseteq handled
  /\ doing \in [Consumers -> 0..Len(log)]
  /\ todo \in [Consumers -> SUBSET Workspaces]
  /\ visiting \in [Consumers -> Workspaces \cup {None}]
  /\ stage \in [Consumers -> {"idle", "loop", "doc"}]
  /\ \A c \in Consumers :
       /\ stage[c] = "idle" <=> doing[c] = 0
       /\ stage[c] = "doc" => visiting[c] \in Workspaces
  /\ sync \in [Workspaces -> {"idle", "list", "add"}]
  /\ roster \in [Workspaces -> SUBSET Users]
  /\ faults \in Nat /\ links \in Nat /\ hands \in Nat /\ tasks \in Nat
  /\ pending \subseteq [ws : Workspaces, user : Users, by : {"sync", "hand"}]
  /\ byHand \subseteq Workspaces \X Users /\ excused \subseteq Workspaces \X Users
  /\ stuck \subseteq Workspaces \X Users /\ out \subseteq Workspaces \X Users
  /\ tasked \subseteq Workspaces \X Users

(* Why JoinersGetIn holds.  Of the events about a member of the organisation
   the newest says that they joined. *)
OrgEvents(u) == {i \in DOMAIN log : log[i].user = u /\ OrgEvent(log[i])}

DirectoryIsAnnounced ==
  \A u \in dir : \A i \in OrgEvents(u) :
    (\A j \in OrgEvents(u) : j <= i) => log[i].kind = "added"

(* Whatever was committed, or comes before the event somebody is at, has been
   handled: one after the other, whoever had the partition. *)
HandledInOrder ==
  /\ 1..offset \subseteq handled
  /\ \A i \in 1..(next - 1) : i \in handled \/ doing[owner] = i
  /\ \A c \in Consumers : 1..(doing[c] - 1) \subseteq handled

Joining(u) == {i \in OrgEvents(u) : log[i].kind = "added" /\ i \notin handled}

(* It has to be taken to the workspace by whoever has it. *)
EventComes(w, u) ==
  \E i \in Joining(u) : \A c \in Consumers : doing[c] = i => w \in todo[c]

EventIsHere(w, u) ==
  \E i \in Joining(u) : \A c \in Consumers : doing[c] = i =>
    w \in todo[c] \/ (stage[c] = "doc" /\ visiting[c] = w)

(* A sync is still to add the user; or its document write is to come. *)
SyncComes(w, u) == sync[w] = "list" \/ (sync[w] = "add" /\ u \in roster[w])
WriteComes(w, u) == Write(w, u, "sync") \in pending

RowIsDue(w, u) == u \in sql[w] \/ SyncComes(w, u) \/ EventComes(w, u)

RecordIsDue(w, u) ==
  HasRecord(members[w], u) \/ SyncComes(w, u) \/ WriteComes(w, u) \/ EventIsHere(w, u)

(* Whatever a member of the organisation lacks in a linked workspace is on
   its way. *)
MembersAreOnTheWay ==
  \A w \in link, u \in dir :
    <<w, u>> \notin excused => RowIsDue(w, u) /\ RecordIsDue(w, u)

(* Only a request can give a user a second record. *)
SingleRecords ==
  \A w \in Workspaces, u \in Users :
    <<w, u>> \notin byHand => \A i, j \in Records(w, u) : i = j

(* The inductive invariant. *)
MembersInv ==
  /\ MembersTypeOK /\ LeaversStayOut
  /\ DirectoryIsAnnounced /\ HandledInOrder /\ MembersAreOnTheWay /\ SingleRecords
=============================================================================
