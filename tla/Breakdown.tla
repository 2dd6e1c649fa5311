----------------------------- MODULE Breakdown -----------------------------
(***************************************************************************)
(* The work breakdown structure: phases, the activities under them and the *)
(* work programs under those.  Each create checks the parents it names in  *)
(* the document it was given, and each delete detaches the children it     *)
(* finds there.                                                            *)
(*                                                                         *)
(* A create's closure writes the id it generates into the request's own    *)
(* struct, which Mutate's second attempt starts from; so a create is two   *)
(* steps, the closure on the document just read and the conditional write. *)
(* Patches and deletes keep nothing between attempts and are one step each *)
(* (see Workspace).  A row is told apart from another with the same id by  *)
(* the request that made it; where the program takes the first row with an *)
(* id, here it is any of them.  Only the parents of a row are kept.        *)
(***************************************************************************)
EXTENDS Naturals, NextIds

CONSTANTS Creates,    \* POST requests of the three levels
          ClientIds,  \* ids clients choose themselves
          MaxId,      \* bound: the ids requests name
          MaxVersion  \* bound: the version of the document

ASSUME BreakdownAssumption ==
  ClientIds \subseteq Nat \ {0} /\ MaxId \in Nat /\ MaxVersion \in Nat

VARIABLES ver,
          phases, activities, programs,  \* the rows of each level
          pc, attempt,
          kind,     \* the level a create is for
          in,       \* its row, as bound from the request
          snapVer,  \* the version Mutate resolved
          named     \* history: <<level, id>> some delete named

levels   == <<phases, activities, programs>>
requests == <<pc, attempt, kind, in, snapVer>>
vars     == <<ver, levels, requests, named>>

None   == 0
Ids    == Nat \ {0}
Kinds  == {"phase", "activity", "program"}
Labels == {"idle", "read", "write", "done", "failed"}
RefIds == 1..MaxId

\* A row; phases have no parents, activities only a phase.
Row == [by : Creates, id : Nat, phase : Nat, activity : Nat]

Init ==
  /\ ver = 1
  /\ phases = {} /\ activities = {} /\ programs = {}
  /\ pc = [r \in Creates |-> "idle"]
  /\ attempt = [r \in Creates |-> 1]
  /\ kind = [r \in Creates |-> "phase"]
  /\ in = [r \in Creates |-> [by |-> r, id |-> None, phase |-> None, activity |-> None]]
  /\ snapVer = [r \in Creates |-> 0]
  /\ named = {}

IdsOf(rows) == {x.id : x \in rows}

HasPhase(i)    == i \in IdsOf(phases)
HasActivity(i) == i \in IdsOf(activities)

Bump == ver < MaxVersion /\ ver' = ver + 1

-----------------------------------------------------------------------------
(* createPhase, createActivity, createWorkProgram.                         *)

Start(r, k, p, a) ==
  /\ pc[r] = "idle"
  /\ kind' = [kind EXCEPT ![r] = k]
  /\ \E i \in ClientIds \cup {None} :
       in' = [in EXCEPT ![r] = [by |-> r, id |-> i, phase |-> p, activity |-> a]]
  /\ pc' = [pc EXCEPT ![r] = "read"]
  /\ UNCHANGED <<ver, levels, attempt, snapVer, named>>

CreatePhase(r) == Start(r, "phase", None, None)

CreateActivity(r) ==
  \E p \in RefIds \cup {None} : Start(r, "activity", p, None)

CreateWorkProgram(r) ==
  \E p, a \in RefIds \cup {None} : Start(r, "program", p, a)

\* hasPhase and hasActivity, for the parents the row names.
ParentsThere(x) ==
  /\ x.phase # None => HasPhase(x.phase)
  /\ x.activity # None => HasActivity(x.activity)

RowsOf(k) == CASE k = "phase" -> phases [] k = "activity" -> activities [] k = "program" -> programs

\* The closure, on the document just resolved.
Closure(r) ==
  /\ pc[r] = "read"
  /\ ParentsThere(in[r])
  /\ in' = [in EXCEPT ![r].id = IF @ = None THEN NextStringID(IdsOf(RowsOf(kind[r]))) ELSE @]
  /\ snapVer' = [snapVer EXCEPT ![r] = ver]
  /\ pc' = [pc EXCEPT ![r] = "write"]
  /\ UNCHANGED <<ver, levels, attempt, kind, named>>

\* A parent or the project is not there, or the query fails.
Refuse(r) ==
  /\ pc[r] \in {"read", "write"}
  /\ pc' = [pc EXCEPT ![r] = "failed"]
  /\ UNCHANGED <<ver, levels, attempt, kind, in, snapVer, named>>

\* Mutant of VersionMatches: the update is not conditional.
VersionIgnored(r) == TRUE

VersionMatches(r) == snapVer[r] = ver

Added(rows, k, r) == IF kind[r] = k THEN rows \cup {in[r]} ELSE rows

Write(r) ==
  /\ pc[r] = "write"
  /\ VersionMatches(r)
  /\ Bump
  /\ phases' = Added(phases, "phase", r)
  /\ activities' = Added(activities, "activity", r)
  /\ programs' = Added(programs, "program", r)
  /\ pc' = [pc EXCEPT ![r] = "done"]
  /\ UNCHANGED <<attempt, kind, in, snapVer, named>>

\* Mutant of Conflict: it tries until it wins.
ConflictEndless(r) ==
  /\ pc[r] = "write"
  /\ snapVer[r] # ver
  /\ pc' = [pc EXCEPT ![r] = "read"]
  /\ attempt' = [attempt EXCEPT ![r] = @ + 1]
  /\ UNCHANGED <<ver, levels, kind, in, snapVer, named>>

\* One more attempt, then 409.
Conflict(r) ==
  /\ pc[r] = "write"
  /\ snapVer[r] # ver
  /\ pc' = [pc EXCEPT ![r] = IF attempt[r] < 2 THEN "read" ELSE "failed"]
  /\ attempt' = [attempt EXCEPT ![r] = 2]
  /\ UNCHANGED <<ver, levels, kind, in, snapVer, named>>

-----------------------------------------------------------------------------
(* Patches.  None checks the phase of a program, or a project.             *)

Replaced(rows, x, y) == (rows \ {x}) \cup {y}

ApplyActivityPatch(x, p) == [x EXCEPT !.phase = p]

ApplyWorkProgramPatch(x, p, a) == [x EXCEPT !.phase = p, !.activity = a]

\* A phase has no parent: here this is like any other edit of the document.
PatchPhase ==
  /\ Bump
  /\ UNCHANGED <<levels, requests, named>>

\* Mutant of MayMove: phaseId is taken as it comes, as for a program.
MayMoveAnywhere(x, p) == TRUE

\* phaseId is absent from the patch (and stays), empty, or a phase's.
MayMove(x, p) == p \notin {x.phase, None} => HasPhase(p)

PatchActivity(x, p) ==
  /\ MayMove(x, p)
  /\ Bump
  /\ activities' = Replaced(activities, x, ApplyActivityPatch(x, p))
  /\ UNCHANGED <<phases, programs, requests, named>>

\* Either field may be absent from the patch, and stays.
PatchWorkProgram(x, p, a) ==
  /\ a \notin {x.activity, None} => HasActivity(a)
  /\ Bump
  /\ programs' = Replaced(programs, x, ApplyWorkProgramPatch(x, p, a))
  /\ UNCHANGED <<phases, activities, requests, named>>

-----------------------------------------------------------------------------
(* Deletes, by id.                                                         *)

Without(rows, i) == {x \in rows : x.id # i}

DetachPhase(rows, i) ==
  {[x EXCEPT !.phase = IF @ = i THEN None ELSE @] : x \in rows}

DetachActivity(rows, i) ==
  {[x EXCEPT !.activity = IF @ = i THEN None ELSE @] : x \in rows}

\* Mutant of ChildrenOfPhase: a cascade.
ChildrenCascaded(i) == {x \in activities : x.phase # i}

\* deletePhase detaches the activities under it rather than deleting them.
ChildrenOfPhase(i) == DetachPhase(activities, i)

DeletePhase(i) ==
  /\ HasPhase(i)
  /\ Bump
  /\ phases' = Without(phases, i)
  /\ activities' = ChildrenOfPhase(i)
  /\ programs' = DetachPhase(programs, i)
  /\ named' = named \cup {<<"phase", i>>}
  /\ UNCHANGED requests

DeleteActivity(i) ==
  /\ HasActivity(i)
  /\ Bump
  /\ activities' = Without(activities, i)
  /\ programs' = DetachActivity(programs, i)
  /\ named' = named \cup {<<"activity", i>>}
  /\ UNCHANGED <<phases, requests>>

DeleteWorkProgram(i) ==
  /\ i \in IdsOf(programs)
  /\ Bump
  /\ programs' = Without(programs, i)
  /\ named' = named \cup {<<"program", i>>}
  /\ UNCHANGED <<phases, activities, requests>>

-----------------------------------------------------------------------------

Next ==
  \/ \E r \in Creates :
       \/ CreatePhase(r) \/ CreateActivity(r) \/ CreateWorkProgram(r)
       \/ Closure(r) \/ Refuse(r) \/ Write(r) \/ Conflict(r)
  \/ PatchPhase
  \/ \E x \in activities, p \in RefIds \cup {None} : PatchActivity(x, p)
  \/ \E x \in programs, p \in RefIds \cup {None}, a \in RefIds \cup {None} :
       PatchWorkProgram(x, p, a)
  \/ \E i \in IdsOf(phases) : DeletePhase(i)
  \/ \E i \in IdsOf(activities) : DeleteActivity(i)
  \/ \E i \in IdsOf(programs) : DeleteWorkProgram(i)

Spec == Init /\ [][Next]_vars

-----------------------------------------------------------------------------

TypeOK ==
  /\ ver \in Nat
  /\ phases \subseteq Row /\ activities \subseteq Row /\ programs \subseteq Row
  /\ pc \in [Creates -> Labels]
  /\ attempt \in [Creates -> 1..2]
  /\ kind \in [Creates -> Kinds]
  /\ in \in [Creates -> Row]
  /\ snapVer \in [Creates -> 0..ver]
  /\ named \subseteq Kinds \X Nat

\* The phase of every activity and the activity of every work program are
\* there: no create or patch whose check was done on an older document slips
\* past a delete, and a retried create checks again.
ParentsResolve ==
  /\ \A x \in activities : x.phase # None => HasPhase(x.phase)
  /\ \A x \in programs : x.activity # None => HasActivity(x.activity)

\* A create that was refused or gave up left no row, and the row of one that
\* was answered 200 is there unless a delete of its own level named its id:
\* no delete takes away "rows the caller never named".
RowsMatchAnswers ==
  \A r \in Creates :
    /\ pc[r] = "done" /\ <<kind[r], in[r].id>> \notin named =>
         \E x \in RowsOf(kind[r]) : x.by = r /\ x.id = in[r].id
    /\ pc[r] # "done" => \A x \in phases \cup activities \cup programs : x.by # r

\* Why they hold.  A closure's check is good for as long as the version it
\* was made on is the document's: every change of the rows makes a new one.
ChecksAreCurrent ==
  \A r \in Creates : pc[r] = "write" /\ snapVer[r] = ver => ParentsThere(in[r])

\* A create adds only its own row, and there is always a next id to generate.
OwnRows == \A r \in Creates : in[r].by = r

IdsBounded ==
  \E n \in Nat : \A x \in phases \cup activities \cup programs : x.id <= n

\* The inductive invariant.
IndInv ==
  TypeOK /\ ParentsResolve /\ RowsMatchAnswers /\ ChecksAreCurrent /\ OwnRows /\ IdsBounded
=============================================================================
