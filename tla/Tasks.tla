------------------------------- MODULE Tasks -------------------------------
(***************************************************************************)
(* The tasks of a workspace document and the records that name a task by   *)
(* its id: subtasks, comments, dependencies and time entries.              *)
(*                                                                         *)
(* Task ids are max + 1 over the tasks that are there, so the id of a task *)
(* that was deleted for good is given out again, and a record left behind  *)
(* would then belong to a stranger.  To tell the two apart every task here *)
(* carries a serial number, which the program does not have, and every     *)
(* record the serial of the task it was made for.                          *)
(*                                                                         *)
(* Every action is one Mutate, closure and automation engine together, and *)
(* so one step (see Workspace).  Comments and subtasks are sets of what    *)
(* they point at: two comments on one task are one element here.  A full   *)
(* PUT /workspace, which replaces all of this, is not an action.           *)
(***************************************************************************)
EXTENDS Naturals, FiniteSets, NextIds

CONSTANTS Users,       \* who runs timers
          MaxMade,     \* bound: tasks ever created
          MaxBatch,    \* bound: tasks in one request
          MaxRecords   \* bound: records kept at a time

ASSUME TasksAssumption == {MaxMade, MaxBatch, MaxRecords} \subseteq Nat

VARIABLES tasks,     \* id -> task
          made,      \* history: tasks created so far
          subtasks, comments, deps, entries

vars == <<tasks, made, subtasks, comments, deps, entries>>

Ids     == Nat \ {0}
Serials == Ids
Nobody  == 0            \* the serial of an id no task has

TargetIds == 1..MaxMade \* bound: the ids requests name

Task  == [serial : Serials, deleted : BOOLEAN]
Ref   == [task : Ids, of : Serials \cup {Nobody}]
Dep   == [task : Ids, dep : Ids, of : Serials \cup {Nobody}]
Entry == [id : Ids, task : Ids, user : Users, open : BOOLEAN, of : Serials]

Init ==
  /\ tasks = <<>>
  /\ made = 0
  /\ subtasks = {}
  /\ comments = {}
  /\ deps = {}
  /\ entries = {}

\* The serial of the task that has id i in the task list ts.
SerialIn(ts, i) == IF i \in DOMAIN ts THEN ts[i].serial ELSE Nobody

RefTo(ts, i) == [task |-> i, of |-> SerialIn(ts, i)]

-----------------------------------------------------------------------------
(* The automation engine, which runs on what a closure left: ts are the    *)
(* tasks, touched the ids its events carry.                                *)

\* Which rules there are, and which events their conditions match, is open.
Matching(refs) == SUBSET refs

\* Mutant of RuleSubtasks: a rule acts on the id of the event, task or not.
RuleSubtasksAnyTask(ts, touched) == {RefTo(ts, i) : i \in touched}

\* create_subtask needs the task of the event.
RuleSubtasks(ts, touched) == {RefTo(ts, i) : i \in touched \cap DOMAIN ts}

\* post_comment does not.
RuleComments(ts, touched) == {RefTo(ts, i) : i \in touched}

Automate(ts, subs, cmts, touched) ==
  \E s \in Matching(RuleSubtasks(ts, touched)), c \in Matching(RuleComments(ts, touched)) :
    /\ subtasks' = subs \cup s
    /\ comments' = cmts \cup c

-----------------------------------------------------------------------------
(* Creating tasks.                                                         *)

NextTaskID == NextIntID(DOMAIN tasks)

NewIds(k) == NextTaskID .. (NextTaskID + k - 1)

\* The tasks after k more were appended.
Appended(k) ==
  [i \in DOMAIN tasks \cup NewIds(k) |->
     IF i \in DOMAIN tasks THEN tasks[i]
     ELSE [serial |-> made + 1 + (i - NextTaskID), deleted |-> FALSE]]

AppendTasks(k) ==
  /\ made + k <= MaxMade
  /\ tasks' = Appended(k)
  /\ made' = made + k

\* k new tasks, those in inline with subtasks of their own.
Create(k, inline) ==
  /\ AppendTasks(k)
  /\ Automate(Appended(k), subtasks \cup {RefTo(Appended(k), i) : i \in inline},
              comments, NewIds(k))
  /\ UNCHANGED <<deps, entries>>

CreateTask == Create(1, {})

CreateTasksBulk == \E k \in 1..MaxBatch : Create(k, {})

\* A public form's submission.
Submit == Create(1, {})

\* Only templates bring subtasks.
ApplyTaskTemplate == \E inline \in SUBSET NewIds(1) : Create(1, inline)

ApplyProjectTemplate ==
  \E k \in 1..MaxBatch : \E inline \in SUBSET NewIds(k) : Create(k, inline)

\* The recurrence job clones tasks that are due, their dependencies with them.
\* It writes past Mutate, so no rule runs.
CloneTasks ==
  \E k \in 1..MaxBatch :
    \E from \in [NewIds(k) -> {i \in DOMAIN tasks : ~tasks[i].deleted}] :
      /\ \A i, j \in NewIds(k) : from[i] = from[j] => i = j
      /\ AppendTasks(k)
      /\ deps' = deps \cup {[c[2] EXCEPT !.task = c[1]] :
                              c \in {x \in NewIds(k) \X deps : from[x[1]] = x[2].task}}
      /\ UNCHANGED <<subtasks, comments, entries>>

-----------------------------------------------------------------------------
(* Deleting tasks.                                                         *)

\* Mutant of WithoutDeps: only the dependencies of the removed tasks go.
WithoutOwnDeps(R) == {d \in deps : d.task \notin R}

\* The dependencies the kept tasks have on kept tasks.
WithoutDeps(R) == {d \in deps : d.task \notin R /\ d.dep \notin R}

\* cascadeRemoveTasks.  Time entries are not part of it.
CascadeRemoveTasks(R) ==
  /\ tasks' = [i \in DOMAIN tasks \ R |-> tasks[i]]
  /\ deps' = WithoutDeps(R)
  /\ comments' = {c \in comments : c.task \notin R}
  /\ subtasks' = {s \in subtasks : s.task \notin R}
  /\ UNCHANGED <<made, entries>>

SetDeleted(R, b) ==
  /\ tasks' = [i \in DOMAIN tasks |->
                 IF i \in R THEN [tasks[i] EXCEPT !.deleted = b] ELSE tasks[i]]
  /\ UNCHANGED <<made, subtasks, comments, deps, entries>>

\* DELETE /tasks/:id hides the task, with ?permanent=true it removes it.
DeleteTask(i) ==
  /\ i \in DOMAIN tasks
  /\ CascadeRemoveTasks({i}) \/ SetDeleted({i}, TRUE)

RestoreTask(i) ==
  /\ i \in DOMAIN tasks
  /\ SetDeleted({i}, FALSE)

\* The batch removes for good unless asked not to, and takes any ids.
DeleteTasksBatch(R) == CascadeRemoveTasks(R) \/ SetDeleted(R, TRUE)

-----------------------------------------------------------------------------
(* Work on one task.  Only the handlers that look for it need it to exist; *)
(* none asks whether it is hidden.                                         *)

\* What a patch writes is left out, the rules it triggers are not.
Patch(T) ==
  /\ Automate(tasks, subtasks, comments, T)
  /\ UNCHANGED <<tasks, made, deps, entries>>

PatchTask(i) == i \in DOMAIN tasks /\ Patch({i})

\* Ids without a task are passed over.
PatchTasksBulk(T) == Patch(T \cap DOMAIN tasks)

AddTaskComment(i) ==
  /\ Automate(tasks, subtasks, comments \cup {RefTo(tasks, i)}, {i})
  /\ UNCHANGED <<tasks, made, deps, entries>>

DeleteTaskComment(c) ==
  /\ comments' = comments \ {c}
  /\ UNCHANGED <<tasks, made, subtasks, deps, entries>>

\* depId may be any number.
AddTaskDep(i, j) ==
  /\ i \in DOMAIN tasks
  /\ \A d \in deps : ~(d.task = i /\ d.dep = j)
  /\ deps' = deps \cup {[task |-> i, dep |-> j, of |-> SerialIn(tasks, j)]}
  /\ UNCHANGED <<tasks, made, subtasks, comments, entries>>

RemoveTaskDep(i, j) ==
  /\ i \in DOMAIN tasks
  /\ deps' = {d \in deps : ~(d.task = i /\ d.dep = j)}
  /\ UNCHANGED <<tasks, made, subtasks, comments, entries>>

CreateSubtask(i) ==
  /\ i \in DOMAIN tasks
  /\ subtasks' = subtasks \cup {RefTo(tasks, i)}
  /\ UNCHANGED <<tasks, made, comments, deps, entries>>

DeleteSubtask(s) ==
  /\ subtasks' = subtasks \ {s}
  /\ UNCHANGED <<tasks, made, comments, deps, entries>>

-----------------------------------------------------------------------------
(* Timers.                                                                 *)

Running(i, u) == {e \in entries : e.task = i /\ e.user = u /\ e.open}

\* Mutant of MayStart: the timer is looked for among those of this very task.
MayStartOwn(i, u) == \A e \in Running(i, u) : e.of # SerialIn(tasks, i)

\* startTimer's guard: the task exists and the user has no timer on its id.
MayStart(i, u) == Running(i, u) = {}

StartTimer(i, u) ==
  /\ i \in DOMAIN tasks
  /\ MayStart(i, u)
  /\ entries' = entries \cup {[id |-> NextIntID({e.id : e \in entries}), task |-> i,
                               user |-> u, open |-> TRUE, of |-> SerialIn(tasks, i)]}
  /\ UNCHANGED <<tasks, made, subtasks, comments, deps>>

\* stopTimer closes the first running entry it finds; the task may be gone.
StopTimer(i, u) ==
  /\ \E e \in Running(i, u) :
       /\ \A x \in Running(i, u) : e.id <= x.id
       /\ entries' = (entries \ {e}) \cup {[e EXCEPT !.open = FALSE]}
  /\ UNCHANGED <<tasks, made, subtasks, comments, deps>>

-----------------------------------------------------------------------------

Step ==
  \/ CreateTask \/ CreateTasksBulk \/ Submit \/ ApplyTaskTemplate \/ ApplyProjectTemplate
  \/ CloneTasks
  \/ \E R \in SUBSET TargetIds :
       Cardinality(R) <= MaxBatch /\ (DeleteTasksBatch(R) \/ PatchTasksBulk(R))
  \/ \E i \in TargetIds :
       \/ DeleteTask(i) \/ RestoreTask(i) \/ PatchTask(i)
       \/ AddTaskComment(i) \/ CreateSubtask(i)
       \/ \E j \in TargetIds : AddTaskDep(i, j) \/ RemoveTaskDep(i, j)
       \/ \E u \in Users : StartTimer(i, u) \/ StopTimer(i, u)
  \/ \E c \in comments : DeleteTaskComment(c)
  \/ \E s \in subtasks : DeleteSubtask(s)

Records == Cardinality(subtasks) + Cardinality(comments) + Cardinality(deps)
             + Cardinality(entries)

Next == Step /\ Records' <= MaxRecords

Spec == Init /\ [][Next]_vars

-----------------------------------------------------------------------------

TypeOK ==
  /\ DOMAIN tasks \subseteq Ids
  /\ \A i \in DOMAIN tasks : tasks[i] \in Task
  /\ made \in Nat
  /\ subtasks \subseteq Ref
  /\ comments \subseteq Ref
  /\ deps \subseteq Dep
  /\ entries \subseteq Entry

\* The record r, which was made for a task, names that task by id i.
Names(i, r) == r.of # Nobody => SerialIn(tasks, i) = r.of

\* Whatever was attached to a task while it existed - subtasks, comments,
\* dependencies on it - is never found on another one: cascadeRemoveTasks
\* takes it away before the id is given out again, and the rule engine
\* attaches no subtask to a task that is not there.
RecordsKeepTheirTask ==
  /\ \A s \in subtasks : s.of # Nobody /\ Names(s.task, s)
  /\ \A c \in comments : Names(c.task, c)
  /\ \A d \in deps : Names(d.dep, d) /\ d.task \in DOMAIN tasks

\* A user has at most one running timer on a task, so stopTimer, which stops
\* one, leaves none running - whatever happened to the task in between.
OneRunningTimer ==
  \A e, f \in entries :
    e.open /\ f.open /\ e.task = f.task /\ e.user = f.user => e = f

\* "Returns 409 if the same user already has an open timer on the same task"
\* (startTimer): the timer that makes it answer 409 was started on that task.
\* It does not hold: README.md, Findings.
ConflictMeansThisTask ==
  \A e \in entries :
    e.open /\ e.task \in DOMAIN tasks => e.of = tasks[e.task].serial
=============================================================================
