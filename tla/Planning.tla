------------------------------ MODULE Planning ------------------------------
(***************************************************************************)
(* Where the tasks of a document are placed and who signs them off: a      *)
(* task's home projects (the older Project beside the list Projects), the  *)
(* sections and sprints it is sorted into, and the approvals of            *)
(* approval-type tasks.  Every action is the whole closure one request     *)
(* hands to Service.Mutate; a patch of several keys is the patches of each *)
(* of them in turn, in the order of applyTaskPatch.                        *)
(*                                                                         *)
(* Sections and sprints are numbered, removed and referred to alike, so a  *)
(* behaviour follows one of the two kinds, as `groups`.  A group carries,  *)
(* besides its id, a serial number that is never used twice; a task        *)
(* remembers the serial of the group it was put into (0 when the id it was *)
(* given named none, which no handler checks).                             *)
(***************************************************************************)
EXTENDS Naturals, SequencesExt, NextIds

CONSTANTS Tasks,       \* task ids
          ProjectIds,
          Actors,      \* workspace users who may be named as approvers
          Blank,       \* the empty string
          MaxSerial    \* bound on sections or sprints ever created

ASSUME PlanningAssumption ==
  /\ Blank \notin ProjectIds \cup Actors
  /\ MaxSerial \in Nat

VARIABLES
  groupKind, \* "section" or "sprint": which of them `groups` are
  projects,  \* keys of Document.Projects
  groups,    \* Document.Sections or Document.Sprints
  serial,    \* how many groups have been created
  tasks      \* task -> the fields of it this module is about

planVars == <<groupKind, projects, groups, serial, tasks>>
docVars == <<groupKind, projects, groups, serial>>

(* A task as a document from before Projects existed has it, or a new one. *)
StoredTask(p) ==
  [project |-> p, projects |-> << >>, group |-> 0, of |-> 0,
   approval |-> FALSE, approvers |-> << >>, approvedBy |-> << >>, done |-> FALSE]

PlanInit ==
  /\ groupKind \in {"section", "sprint"}
  /\ projects = ProjectIds
  /\ groups = {} /\ serial = 0
  /\ tasks \in [Tasks -> {StoredTask(p) : p \in ProjectIds \cup {Blank}}]

Set(t, r) == tasks' = [tasks EXCEPT ![t] = r]

-----------------------------------------------------------------------------
(* Home projects. *)

(* The entries of s at the positions K, in their order: what a loop that
   appends some of the entries to a new list makes. *)
Kept(s, K) ==
  LET Nth(n) == CHOOSE i \in K : Cardinality({j \in K : j <= i}) = n
  IN  [n \in 1..Cardinality(K) |-> s[Nth(n)]]

(* dedupeNonEmpty, and the same loop in normalizeTaskProjects. *)
dedupeNonEmpty(s) ==
  Kept(s, {i \in DOMAIN s : s[i] # Blank /\ \A j \in 1..(i - 1) : s[j] # s[i]})

(* Mutant of normalizeTaskProjects: the list does not rewrite Project. *)
NormalizeOneWay(r) ==
  IF r.projects = << >> /\ r.project # Blank
  THEN [r EXCEPT !.projects = <<r.project>>]
  ELSE [r EXCEPT !.projects = dedupeNonEmpty(r.projects)]

normalizeTaskProjects(r) ==
  CASE r.projects = << >> /\ r.project # Blank ->
         [r EXCEPT !.projects = <<r.project>>]
    [] r.projects # << >> ->
         LET ps == dedupeNonEmpty(r.projects) IN
         [r EXCEPT !.projects = ps, !.project = IF ps = << >> THEN Blank ELSE ps[1]]
    [] OTHER -> r

taskHomedIn(r, p) == r.project = p \/ p \in ToSet(r.projects)

PatchProject(t, p) ==
  /\ Set(t, normalizeTaskProjects([tasks[t] EXCEPT !.project = p, !.projects = << >>]))
  /\ UNCHANGED docVars

PatchProjects(t, ps) ==
  /\ Set(t, normalizeTaskProjects([tasks[t] EXCEPT !.projects = ps]))
  /\ UNCHANGED docVars

AddTaskProject(t, p) ==
  /\ p \in projects
  /\ LET r == normalizeTaskProjects(tasks[t]) IN
     Set(t, normalizeTaskProjects([r EXCEPT !.projects = Append(@, p)]))
  /\ UNCHANGED docVars

Dropping(s, p) == Kept(s, {i \in DOMAIN s : s[i] # p})

RemoveTaskProject(t, p) ==
  LET r == normalizeTaskProjects(tasks[t]) IN
  /\ Len(r.projects) > 1
  /\ Set(t, normalizeTaskProjects([r EXCEPT !.projects = Dropping(@, p)]))
  /\ UNCHANGED docVars

(* putProject. *)
PutProject(p) ==
  /\ projects' = projects \cup {p}
  /\ UNCHANGED <<groupKind, groups, serial, tasks>>

(* Mutant of Detached: Project itself is left alone. *)
DetachedFromList(r, p) ==
  LET n == normalizeTaskProjects(r) IN
  normalizeTaskProjects([n EXCEPT !.projects = Dropping(@, p)])

(* A task after its project p has been removed. *)
Detached(r, p) ==
  LET n == normalizeTaskProjects(r) IN
  normalizeTaskProjects([n EXCEPT !.projects = Dropping(@, p),
                                  !.project = IF @ = p THEN Blank ELSE @])

(* deleteProject; the project's sections, sprints and comments stay. *)
DeleteProject(p) ==
  /\ p \in projects
  /\ projects' = projects \ {p}
  /\ tasks' = [t \in Tasks |-> Detached(tasks[t], p)]
  /\ UNCHANGED <<groupKind, groups, serial>>

-----------------------------------------------------------------------------
(* Sections and sprints. *)

(* createSection, which wants an existing project, and createSprint. *)
CreateGroup(p) ==
  /\ serial < MaxSerial
  /\ groupKind = "section" => p \in projects
  /\ serial' = serial + 1
  /\ groups' = groups \cup {[id |-> NextIntID({g.id : g \in groups}), of |-> serial + 1]}
  /\ UNCHANGED <<groupKind, projects, tasks>>

(* Mutant of DeleteGroup: the tasks are not detached. *)
DeleteGroupOnly(g) ==
  /\ g \in groups
  /\ groups' = groups \ {g}
  /\ UNCHANGED <<groupKind, projects, serial, tasks>>

(* deleteSection and deleteSprint: the tasks that name it are detached. *)
DeleteGroup(g) ==
  /\ g \in groups
  /\ groups' = groups \ {g}
  /\ tasks' = [t \in Tasks |->
                 IF tasks[t].group = g.id THEN [tasks[t] EXCEPT !.group = 0, !.of = 0]
                 ELSE tasks[t]]
  /\ UNCHANGED <<groupKind, projects, serial>>

(* patchTask's sectionId or sprintId: any number. *)
PatchGroup(t, i) ==
  /\ Set(t, [tasks[t] EXCEPT !.group = i,
               !.of = IF \E g \in groups : g.id = i
                      THEN (CHOOSE g \in groups : g.id = i).of ELSE 0])
  /\ UNCHANGED docVars

-----------------------------------------------------------------------------
(* Approvals. *)

(* patchTask's type and done. *)
PatchTypeDone(t, approval, done) ==
  /\ Set(t, [tasks[t] EXCEPT !.approval = approval, !.done = done])
  /\ UNCHANGED docVars

SignedOff(r) == Len(r.approvedBy) >= Len(r.approvers)

(* Mutant of Approve: a repeated approval is counted again. *)
ApproveAgain(r, a) ==
  LET s == [r EXCEPT !.approvedBy = Append(@, a)] IN
  IF SignedOff(s) THEN [s EXCEPT !.done = TRUE] ELSE s

(* A task after an approver's approval; a second one changes nothing. *)
Approve(r, a) ==
  LET s == [r EXCEPT !.approvedBy = Append(@, a)] IN
  CASE a \in ToSet(r.approvedBy) -> r
    [] a \notin ToSet(r.approvedBy) /\ SignedOff(s) -> [s EXCEPT !.done = TRUE]
    [] OTHER -> s

ApproveTask(t, a) ==
  /\ tasks[t].approval /\ a \in ToSet(tasks[t].approvers)
  /\ Set(t, Approve(tasks[t], a))
  /\ UNCHANGED docVars

RejectTask(t, a) ==
  /\ tasks[t].approval /\ a \in ToSet(tasks[t].approvers)
  /\ Set(t, [tasks[t] EXCEPT !.done = FALSE, !.approvedBy = << >>])
  /\ UNCHANGED docVars

(* setApprovers: approvals of people no longer named are dropped, and the
   task is completed when those who remain have all approved. *)
SetApprovers(t, list) ==
  LET as == dedupeNonEmpty(list)
      r == [tasks[t] EXCEPT !.approvers = as,
              !.approvedBy = Kept(@, {i \in DOMAIN @ : @[i] \in ToSet(as)})] IN
  /\ Set(t, IF r.approval /\ as # << >> /\ SignedOff(r) THEN [r EXCEPT !.done = TRUE] ELSE r)
  /\ UNCHANGED docVars

-----------------------------------------------------------------------------
Lists(S) == UNION {[1..n -> S] : n \in 0..2}

PlanNext ==
  \/ \E p \in ProjectIds : PutProject(p) \/ DeleteProject(p) \/ CreateGroup(p)
  \/ \E g \in groups : DeleteGroup(g)
  \/ \E t \in Tasks :
       \/ \E p \in ProjectIds \cup {Blank} : PatchProject(t, p)
       \/ \E ps \in Lists(ProjectIds \cup {Blank}) : PatchProjects(t, ps)
       \/ \E p \in ProjectIds : AddTaskProject(t, p) \/ RemoveTaskProject(t, p)
       \/ \E i \in 0..MaxSerial : PatchGroup(t, i)
       \/ \E b, d \in BOOLEAN : PatchTypeDone(t, b, d)
       \/ \E a \in Actors : ApproveTask(t, a) \/ RejectTask(t, a)
       \/ \E list \in Lists(Actors \cup {Blank}) : SetApprovers(t, list)

PlanSpec == PlanInit /\ [][PlanNext]_planVars

-----------------------------------------------------------------------------
(* Project and Projects never disagree: once a task has a list, Project is
   its first entry, and no project is listed twice, whichever of the
   handlers wrote either of them last (normalizeTaskProjects). *)
HomesInSync ==
  \A t \in Tasks :
    tasks[t].projects # << >> =>
      /\ tasks[t].project = tasks[t].projects[1]
      /\ IsInjective(tasks[t].projects)
      /\ Blank \notin ToSet(tasks[t].projects)

(* The step that removes a project leaves no task in it, in either field.  A
   task can be put into it afterwards: patchTask accepts any id. *)
DeletedProjectIsEmpty ==
  [][\A p \in ProjectIds :
       p \in projects /\ p \notin projects' => \A t \in Tasks : ~taskHomedIn(tasks'[t], p)]_planVars

(* A task that was put into a section or sprint is in that one or in none:
   never in a later one that got the removed one's id. *)
PlacementIsMeant ==
  \A t \in Tasks : \A g \in groups :
    tasks[t].of # 0 /\ tasks[t].group = g.id => tasks[t].of = g.of

(* Approvals complete a task only when everybody named as an approver has
   approved, although the code compares two lengths: an approval counted
   twice, or one of somebody no longer named, would do it too early. *)
SignOffNeedsEveryone ==
  [][\A t \in Tasks :
       LET r == tasks[t] s == tasks'[t] IN
       ~r.done /\ s.done /\ <<s.approvers, s.approvedBy>> # <<r.approvers, r.approvedBy>> =>
         ToSet(s.approvers) = ToSet(s.approvedBy)]_planVars

(* Types of the state. *)
Homes == ProjectIds \cup {Blank}

Placement == [project : Homes, projects : Seq(Homes), group : Nat, of : Nat,
              approval : BOOLEAN, approvers : Seq(Actors), approvedBy : Seq(Actors),
              done : BOOLEAN]

PlanTypeOK ==
  /\ groupKind \in {"section", "sprint"}
  /\ projects \subseteq ProjectIds
  /\ groups \subseteq [id : Nat, of : Nat \ {0}]
  /\ serial \in Nat
  /\ tasks \in [Tasks -> Placement]

(* Why PlacementIsMeant holds: no two groups have the same id at a time, and
   what a task remembers of its group is still so. *)
GroupsAreTold ==
  /\ \A g \in groups : g.id <= serial
  /\ \A g, h \in groups : g.id = h.id => g = h

PlacementIsKept ==
  \A t \in Tasks : tasks[t].of # 0 =>
    \E g \in groups : g.id = tasks[t].group /\ g.of = tasks[t].of

(* Why SignOffNeedsEveryone holds: the two lists name nobody twice, and only
   approvers have approved. *)
ApproversApprove ==
  \A t \in Tasks :
    /\ IsInjective(tasks[t].approvers) /\ IsInjective(tasks[t].approvedBy)
    /\ ToSet(tasks[t].approvedBy) \subseteq ToSet(tasks[t].approvers)

(* The inductive invariant. *)
PlanInv ==
  PlanTypeOK /\ HomesInSync /\ GroupsAreTold /\ PlacementIsKept /\ ApproversApprove
=============================================================================
