---------------------------- MODULE TasksProofs ----------------------------
(***************************************************************************)
(* Proofs that records stay with the task they were made for and that a    *)
(* user has one running timer on a task, for any number of tasks, records  *)
(* and requests.                                                           *)
(***************************************************************************)
EXTENDS Tasks, WellFoundedInduction, TLAPS

\* A set of ids with an upper bound has a largest one (or 0 if it is empty):
\* the id NextIntID gives out is new.
LEMMA MaxIsBound ==
  ASSUME NEW S \in SUBSET Nat, NEW n \in Nat, \A s \in S : s <= n
  PROVE  /\ Max0(S) \in Nat
         /\ Max0(S) <= n
         /\ \A s \in S : s <= Max0(S)
<1> DEFINE T == {m \in Nat : \A s \in S : s <= m}
           R == OpToRel(<, Nat)
<1>1. T \subseteq Nat /\ T # {}
  OBVIOUS
<1>2. PICK x \in T : \A y \in T : ~(<<y, x>> \in R)
  BY ONLY <1>1, WFMin, NatLessThanWellFounded
<1>3. \A y \in T : ~(y < x)
  BY <1>1, <1>2 DEF OpToRel
<1>4. x \in S \cup {0}
  <2>1. CASE x = 0
    BY <2>1
  <2>2. CASE x # 0
    <3>1. x - 1 \in Nat /\ x - 1 < x
      BY <2>2
    <3>2. x - 1 \notin T
      BY <1>3, <3>1
    <3>3. PICK s \in S : ~(s <= x - 1)
      BY <3>1, <3>2
    <3>4. s = x
      BY <3>1, <3>3
    <3>. QED BY <3>4
  <2>. QED BY <2>1, <2>2
<1>5. \E m \in S \cup {0} : \A s \in S : s <= m
  BY <1>4
<1>6. Max0(S) \in S \cup {0} /\ \A s \in S : s <= Max0(S)
  BY <1>5 DEF Max0
<1>7. \A m \in S \cup {0} : m \in Nat /\ m <= n
  OBVIOUS
<1>. QED
  BY ONLY <1>6, <1>7

IdsBounded ==
  /\ \A i \in DOMAIN tasks : i <= made
  /\ \E n \in Nat : \A e \in entries : e.id <= n

IInv == TypeOK /\ RecordsKeepTheirTask /\ OneRunningTimer /\ IdsBounded

LEMMA NextTaskIDNew ==
  ASSUME TypeOK, IdsBounded
  PROVE  /\ NextTaskID \in Ids
         /\ NextTaskID <= made + 1
         /\ \A i \in DOMAIN tasks : i < NextTaskID
<1>1. DOMAIN tasks \in SUBSET Nat /\ made \in Nat /\ \A i \in DOMAIN tasks : i <= made
  BY DEF TypeOK, IdsBounded, Ids
<1>2. /\ Max0(DOMAIN tasks) \in Nat
      /\ Max0(DOMAIN tasks) <= made
      /\ \A i \in DOMAIN tasks : i <= Max0(DOMAIN tasks)
  BY <1>1, MaxIsBound
<1>. QED
  BY <1>1, <1>2 DEF NextTaskID, NextIntID, Ids

\* What Append does to the tasks: k new ids, with new serials.
LEMMA AppendStep ==
  ASSUME TypeOK, IdsBounded, NEW k \in Nat, AppendTasks(k)
  PROVE  /\ DOMAIN tasks' = DOMAIN tasks \cup NewIds(k)
         /\ NewIds(k) \subseteq Ids
         /\ NewIds(k) \cap DOMAIN tasks = {}
         /\ \A i \in DOMAIN tasks : tasks'[i] = tasks[i]
         /\ \A i \in DOMAIN tasks' : tasks'[i] \in Task /\ i <= made'
         /\ made' \in Nat
<1> DEFINE n == NextTaskID
<1>1. n \in Ids /\ n <= made + 1 /\ (\A i \in DOMAIN tasks : i < n) /\ made \in Nat
  BY NextTaskIDNew DEF TypeOK
<1>2. NewIds(k) = n .. (n + k - 1)
  BY DEF NewIds
<1>3. /\ tasks' = Appended(k)
      /\ made' = made + k
  BY DEF AppendTasks
<1>4. DOMAIN tasks \subseteq Ids /\ \A i \in DOMAIN tasks : tasks[i] \in Task /\ i <= made
  BY DEF TypeOK, IdsBounded
<1>5. /\ DOMAIN tasks' = DOMAIN tasks \cup NewIds(k)
      /\ \A i \in DOMAIN tasks : tasks'[i] = tasks[i]
      /\ \A i \in NewIds(k) \ DOMAIN tasks :
           tasks'[i] = [serial |-> made + 1 + (i - n), deleted |-> FALSE]
  BY <1>3 DEF Appended
<1> HIDE DEF n
<1>6. /\ NewIds(k) \subseteq Ids
      /\ NewIds(k) \cap DOMAIN tasks = {}
      /\ \A i \in NewIds(k) : i <= made + k /\ made + 1 + (i - n) \in Serials
  BY <1>1, <1>2, <1>4 DEF Ids, Serials
<1>7. ASSUME NEW i \in NewIds(k) PROVE tasks'[i] \in Task
  <2>1. tasks'[i] = [serial |-> made + 1 + (i - n), deleted |-> FALSE]
    BY <1>5, <1>6
  <2>2. made + 1 + (i - n) \in Serials
    BY <1>6
  <2>3. \A v \in Serials : [serial |-> v, deleted |-> FALSE] \in Task
    BY DEF Task
  <2>. QED
    BY ONLY <2>1, <2>2, <2>3
<1>8. \A i \in DOMAIN tasks : i <= made + k
  BY <1>1, <1>2, <1>4 DEF Ids
<1>. QED
  BY <1>1, <1>2, <1>3, <1>4, <1>5, <1>6, <1>7, <1>8

\* A record made for a task that is there names it.
LEMMA NewRef ==
  ASSUME NEW ts, \A i \in DOMAIN ts : ts[i] \in Task, NEW j \in Ids
  PROVE  /\ RefTo(ts, j) \in Ref
         /\ RefTo(ts, j).task = j
         /\ RefTo(ts, j).of = SerialIn(ts, j)
         /\ j \in DOMAIN ts => RefTo(ts, j).of # Nobody
BY DEF RefTo, SerialIn, Ref, Task, Serials, Nobody, Ids

\* What the engine leaves in the document.
LEMMA AutomateStep ==
  ASSUME NEW ts, NEW subs, NEW cmts, NEW touched, Automate(ts, subs, cmts, touched)
  PROVE  /\ \A s \in subtasks' : s \in subs \/ \E i \in touched \cap DOMAIN ts : s = RefTo(ts, i)
         /\ \A c \in comments' : c \in cmts \/ \E i \in touched : c = RefTo(ts, i)
BY DEF Automate, Matching, RuleSubtasks, RuleComments

\* A record that named its task still does when every task that was there is.
LEMMA NamesKept ==
  ASSUME NEW i, NEW r, Names(i, r),
         \A j \in DOMAIN tasks : j \in DOMAIN tasks' /\ tasks'[j].serial = tasks[j].serial
  PROVE  Names(i, r)'
BY DEF Names, SerialIn, Nobody

-----------------------------------------------------------------------------
(* One lemma per group of actions.                                         *)

LEMMA CreateKeeps ==
  ASSUME IInv, NEW k \in Nat, NEW inline \in SUBSET NewIds(k), Create(k, inline)
  PROVE  IInv'
<1> USE DEF IInv
<1>1. /\ AppendTasks(k)
      /\ Automate(tasks', subtasks \cup {RefTo(tasks', i) : i \in inline},
                  comments, NewIds(k))
      /\ UNCHANGED <<deps, entries>>
  BY DEF Create, AppendTasks
<1>2. /\ DOMAIN tasks' = DOMAIN tasks \cup NewIds(k)
      /\ NewIds(k) \subseteq Ids
      /\ \A i \in DOMAIN tasks : tasks'[i] = tasks[i]
      /\ \A i \in DOMAIN tasks' : tasks'[i] \in Task /\ i <= made'
      /\ made' \in Nat
  BY <1>1, AppendStep
<1>3. /\ \A s \in subtasks' : s \in subtasks \/ \E i \in NewIds(k) : s = RefTo(tasks', i)
      /\ \A c \in comments' : c \in comments \/ \E i \in NewIds(k) : c = RefTo(tasks', i)
  BY <1>1, AutomateStep
<1>4. \A i \in NewIds(k) :
        LET r == RefTo(tasks', i)
        IN  r \in Ref /\ r.of # Nobody /\ SerialIn(tasks', r.task) = r.of
  BY <1>2, NewRef
<1>5. TypeOK'
  BY <1>1, <1>2, <1>3, <1>4 DEF TypeOK
<1>6. \A j \in DOMAIN tasks : j \in DOMAIN tasks' /\ tasks'[j].serial = tasks[j].serial
  BY <1>2
<1>7. RecordsKeepTheirTask'
  <2>1. \A s \in subtasks' : s.of # Nobody /\ Names(s.task, s)'
    BY <1>3, <1>4, <1>6, NamesKept DEF RecordsKeepTheirTask, Names
  <2>2. \A c \in comments' : Names(c.task, c)'
    BY <1>3, <1>4, <1>6, NamesKept DEF RecordsKeepTheirTask, Names
  <2>3. \A d \in deps' : Names(d.dep, d)' /\ d.task \in DOMAIN tasks'
    BY <1>1, <1>6, NamesKept DEF RecordsKeepTheirTask
  <2>. QED BY <2>1, <2>2, <2>3 DEF RecordsKeepTheirTask
<1>8. OneRunningTimer'
  BY <1>1 DEF OneRunningTimer
<1>9. IdsBounded'
  BY <1>1, <1>2 DEF IdsBounded
<1>. QED
  BY <1>5, <1>7, <1>8, <1>9

LEMMA CloneKeeps ==
  ASSUME IInv, CloneTasks
  PROVE  IInv'
<1> USE DEF IInv
<1>0. PICK k \in 1..MaxBatch :
        \E from \in [NewIds(k) -> {i \in DOMAIN tasks : ~tasks[i].deleted}] :
          /\ AppendTasks(k)
          /\ deps' = deps \cup {[c[2] EXCEPT !.task = c[1]] :
                                  c \in {x \in NewIds(k) \X deps : from[x[1]] = x[2].task}}
          /\ UNCHANGED <<subtasks, comments, entries>>
  BY Zenon DEF CloneTasks
<1>1. /\ k \in Nat /\ AppendTasks(k)
      /\ \A d \in deps' : d \in deps \/ \E i \in NewIds(k), e \in deps : d = [e EXCEPT !.task = i]
      /\ UNCHANGED <<subtasks, comments, entries>>
  BY <1>0, TasksAssumption
<1>2. /\ DOMAIN tasks' = DOMAIN tasks \cup NewIds(k)
      /\ NewIds(k) \subseteq Ids
      /\ \A i \in DOMAIN tasks : tasks'[i] = tasks[i]
      /\ \A i \in DOMAIN tasks' : tasks'[i] \in Task /\ i <= made'
      /\ made' \in Nat
  BY <1>1, AppendStep
<1>3. ASSUME NEW d \in deps', d \notin deps
      PROVE  /\ d \in Dep
             /\ d.task \in NewIds(k)
             /\ \E e \in deps : d.dep = e.dep /\ d.of = e.of
  <2>1. PICK i \in NewIds(k), e \in deps : d = [e EXCEPT !.task = i]
    BY <1>1, <1>3
  <2>2. e \in Dep /\ i \in Ids
    BY <1>2 DEF TypeOK
  <2>. QED
    BY <2>1, <2>2 DEF Dep
<1>4. TypeOK'
  BY <1>1, <1>2, <1>3 DEF TypeOK
<1>5. \A j \in DOMAIN tasks : j \in DOMAIN tasks' /\ tasks'[j].serial = tasks[j].serial
  BY <1>2
<1>6. RecordsKeepTheirTask'
  <2>1. \A s \in subtasks' : s.of # Nobody /\ Names(s.task, s)'
    BY <1>1, <1>5, NamesKept DEF RecordsKeepTheirTask
  <2>2. \A c \in comments' : Names(c.task, c)'
    BY <1>1, <1>5, NamesKept DEF RecordsKeepTheirTask
  <2>3. ASSUME NEW d \in deps' PROVE Names(d.dep, d)' /\ d.task \in DOMAIN tasks'
    <3>1. CASE d \in deps
      BY <1>2, <1>5, <3>1, NamesKept DEF RecordsKeepTheirTask
    <3>2. CASE d \notin deps
      <4>1. PICK e \in deps : d.dep = e.dep /\ d.of = e.of
        BY <1>3, <3>2
      <4>2. Names(e.dep, e)'
        BY <1>5, NamesKept DEF RecordsKeepTheirTask
      <4>. QED
        BY <1>2, <1>3, <3>2, <4>1, <4>2 DEF Names
    <3>. QED BY <3>1, <3>2
  <2>. QED BY <2>1, <2>2, <2>3 DEF RecordsKeepTheirTask
<1>7. OneRunningTimer' /\ IdsBounded'
  BY <1>1, <1>2 DEF OneRunningTimer, IdsBounded
<1>. QED
  BY <1>4, <1>6, <1>7

LEMMA RemoveKeeps ==
  ASSUME IInv, NEW R, CascadeRemoveTasks(R)
  PROVE  IInv'
<1> USE DEF IInv
<1>1. /\ DOMAIN tasks' = DOMAIN tasks \ R
      /\ \A i \in DOMAIN tasks' : tasks'[i] = tasks[i]
      /\ deps' = {d \in deps : d.task \notin R /\ d.dep \notin R}
      /\ comments' = {c \in comments : c.task \notin R}
      /\ subtasks' = {s \in subtasks : s.task \notin R}
      /\ UNCHANGED <<made, entries>>
  BY DEF CascadeRemoveTasks, WithoutDeps
<1>2. TypeOK'
  BY <1>1 DEF TypeOK
<1>3. ASSUME NEW i, i \notin R, NEW r, Names(i, r) PROVE Names(i, r)'
  BY <1>1, <1>3 DEF Names, SerialIn
<1>4. RecordsKeepTheirTask'
  BY <1>1, <1>3 DEF RecordsKeepTheirTask
<1>5. OneRunningTimer' /\ IdsBounded'
  BY <1>1 DEF OneRunningTimer, IdsBounded
<1>. QED
  BY <1>2, <1>4, <1>5

LEMMA HideKeeps ==
  ASSUME IInv, NEW R, NEW b \in BOOLEAN, SetDeleted(R, b)
  PROVE  IInv'
<1> USE DEF IInv
<1>1. /\ DOMAIN tasks' = DOMAIN tasks
      /\ \A i \in DOMAIN tasks : tasks'[i] = IF i \in R THEN [tasks[i] EXCEPT !.deleted = b]
                                                         ELSE tasks[i]
      /\ UNCHANGED <<made, subtasks, comments, deps, entries>>
  BY DEF SetDeleted
<1>2. \A i \in DOMAIN tasks : tasks'[i] \in Task /\ tasks'[i].serial = tasks[i].serial
  BY <1>1 DEF TypeOK, Task
<1>3. TypeOK'
  BY <1>1, <1>2 DEF TypeOK
<1>4. RecordsKeepTheirTask'
  BY <1>1, <1>2, NamesKept DEF RecordsKeepTheirTask
<1>5. OneRunningTimer' /\ IdsBounded'
  BY <1>1 DEF OneRunningTimer, IdsBounded
<1>. QED
  BY <1>3, <1>4, <1>5

\* Actions that leave tasks and timers alone.
LEMMA RecordsKeep ==
  ASSUME IInv, UNCHANGED <<tasks, made, entries>>,
         \A s \in subtasks' : s \in subtasks \/ \E i \in Ids \cap DOMAIN tasks : s = RefTo(tasks, i),
         \A c \in comments' : c \in comments \/ \E i \in Ids : c = RefTo(tasks, i),
         \A d \in deps' : d \in deps \/ \E i \in DOMAIN tasks, j \in Ids :
                            d = [task |-> i, dep |-> j, of |-> SerialIn(tasks, j)]
  PROVE  IInv'
<1> USE DEF IInv
<1>1. \A i \in DOMAIN tasks : i \in Ids /\ tasks[i] \in Task
  BY DEF TypeOK
<1>2. \A i \in Ids : /\ RefTo(tasks, i) \in Ref
                     /\ Names(RefTo(tasks, i).task, RefTo(tasks, i))'
                     /\ i \in DOMAIN tasks => RefTo(tasks, i).of # Nobody
  BY <1>1, NewRef DEF Names
<1>3. \A i \in DOMAIN tasks, j \in Ids :
        LET d == [task |-> i, dep |-> j, of |-> SerialIn(tasks, j)]
        IN  d \in Dep /\ Names(d.dep, d)' /\ d.task \in DOMAIN tasks'
  BY <1>1 DEF Dep, Names, SerialIn, Task
<1>4. TypeOK'
  BY <1>1, <1>2, <1>3 DEF TypeOK
<1>5. RecordsKeepTheirTask'
  <2>1. \A i, r : Names(i, r) => Names(i, r)'
    BY DEF Names
  <2>. QED
    BY <1>2, <1>3, <2>1 DEF RecordsKeepTheirTask
<1>6. OneRunningTimer' /\ IdsBounded'
  BY DEF OneRunningTimer, IdsBounded
<1>. QED
  BY <1>4, <1>5, <1>6

LEMMA StartKeeps ==
  ASSUME IInv, NEW i, NEW u \in Users, StartTimer(i, u)
  PROVE  IInv'
<1> USE DEF IInv
<1> DEFINE E == {e.id : e \in entries}
           new == [id |-> NextIntID(E), task |-> i, user |-> u, open |-> TRUE,
                   of |-> SerialIn(tasks, i)]
<1>1. /\ i \in DOMAIN tasks
      /\ Running(i, u) = {}
      /\ entries' = entries \cup {new}
      /\ UNCHANGED <<tasks, made, subtasks, comments, deps>>
  BY DEF StartTimer, MayStart
<1>2. PICK n \in Nat : \A e \in entries : e.id <= n
  BY DEF IdsBounded
<1>3. NextIntID(E) \in Ids /\ NextIntID(E) <= n + 1
  <2>1. E \in SUBSET Nat /\ \A s \in E : s <= n
    BY <1>2 DEF TypeOK, Entry, Ids
  <2>2. Max0(E) \in Nat /\ Max0(E) <= n
    BY <2>1, MaxIsBound
  <2>. QED
    BY <2>2 DEF NextIntID, Ids
<1>4. new \in Entry
  <2>1. i \in Ids /\ SerialIn(tasks, i) \in Serials
    BY <1>1 DEF TypeOK, SerialIn, Task
  <2>2. TRUE \in BOOLEAN
    OBVIOUS
  <2>. QED
    BY <1>3, <2>1, <2>2 DEF Entry
<1>5. TypeOK'
  BY <1>1, <1>4 DEF TypeOK
<1>6. RecordsKeepTheirTask'
  BY <1>1 DEF RecordsKeepTheirTask, Names
<1>7. OneRunningTimer'
  <2>1. new.task = i /\ new.user = u
    OBVIOUS
  <2>2. \A e \in entries : ~(e.task = i /\ e.user = u /\ e.open)
    BY <1>1, Zenon DEF Running
  <2> HIDE DEF new
  <2>3. \A e \in entries' : e \in entries \/ e = new
    BY <1>1
  <2>. QED
    BY <2>1, <2>2, <2>3, Zenon DEF OneRunningTimer
<1>8. IdsBounded'
  <2>1. n + 1 \in Nat /\ \A e \in entries : e.id <= n + 1
    BY <1>2 DEF TypeOK, Entry, Ids
  <2>2. \A e \in entries' : e.id <= n + 1
    BY <1>1, <1>3, <2>1
  <2>. QED
    BY <1>1, <2>1, <2>2 DEF IdsBounded
<1>. QED
  BY <1>5, <1>6, <1>7, <1>8

LEMMA StopKeeps ==
  ASSUME IInv, NEW i, NEW u \in Users, StopTimer(i, u)
  PROVE  IInv'
<1> USE DEF IInv
<1>1. PICK e \in entries : entries' = (entries \ {e}) \cup {[e EXCEPT !.open = FALSE]}
  BY DEF StopTimer, Running
<1>2. UNCHANGED <<tasks, made, subtasks, comments, deps>>
  BY DEF StopTimer
<1> DEFINE new == [e EXCEPT !.open = FALSE]
<1>3. new \in Entry /\ new.id = e.id /\ ~new.open
  BY DEF TypeOK, Entry
<1>4. TypeOK'
  BY <1>1, <1>2, <1>3 DEF TypeOK
<1>5. RecordsKeepTheirTask'
  BY <1>2 DEF RecordsKeepTheirTask, Names
<1>6. OneRunningTimer'
  BY <1>1, <1>3 DEF OneRunningTimer
<1>7. IdsBounded'
  BY <1>1, <1>2, <1>3 DEF IdsBounded
<1>. QED
  BY <1>4, <1>5, <1>6, <1>7

-----------------------------------------------------------------------------

\* The inductive invariant.
THEOREM Invariance == Spec => []IInv
<1> USE DEF IInv
<1>1. ASSUME Init PROVE IInv
  <2>1. DOMAIN tasks = {}
    BY <1>1 DEF Init
  <2>2. /\ made = 0 /\ subtasks = {} /\ comments = {} /\ deps = {} /\ entries = {}
    BY <1>1 DEF Init
  <2>3. TypeOK /\ IdsBounded
    BY <2>1, <2>2 DEF TypeOK, IdsBounded
  <2>. QED
    BY <2>2, <2>3 DEF RecordsKeepTheirTask, OneRunningTimer
<1>2. ASSUME IInv, [Next]_vars PROVE IInv'
  <2>1. CASE UNCHANGED vars
    BY <1>2, <2>1 DEF vars, TypeOK, RecordsKeepTheirTask, Names, OneRunningTimer, IdsBounded
  <2>2. CASE CreateTask \/ CreateTasksBulk \/ Submit \/ ApplyTaskTemplate \/ ApplyProjectTemplate
    <3>1. PICK k \in Nat : \E inline \in SUBSET NewIds(k) : Create(k, inline)
      BY <2>2, TasksAssumption
         DEF CreateTask, CreateTasksBulk, Submit, ApplyTaskTemplate, ApplyProjectTemplate
    <3>. QED
      BY <1>2, <3>1, CreateKeeps
  <2>3. CASE CloneTasks
    BY <1>2, <2>3, CloneKeeps
  <2>4. ASSUME NEW R \in SUBSET TargetIds, DeleteTasksBatch(R) PROVE IInv'
    BY <1>2, <2>4, RemoveKeeps, HideKeeps DEF DeleteTasksBatch
  <2>5. ASSUME NEW R, R \subseteq DOMAIN tasks, Patch(R) PROVE IInv'
    <3>1. /\ Automate(tasks, subtasks, comments, R)
          /\ UNCHANGED <<tasks, made, deps, entries>>
      BY <2>5 DEF Patch
    <3>2. R \subseteq Ids
      BY <1>2, <2>5 DEF TypeOK
    <3>. QED
      BY <1>2, <2>5, <3>1, <3>2, AutomateStep, RecordsKeep
  <2>6. ASSUME NEW i \in TargetIds, DeleteTask(i) \/ RestoreTask(i) PROVE IInv'
    BY <1>2, <2>6, RemoveKeeps, HideKeeps DEF DeleteTask, RestoreTask
  <2>7. ASSUME NEW i \in TargetIds, AddTaskComment(i) PROVE IInv'
    <3>1. /\ Automate(tasks, subtasks, comments \cup {RefTo(tasks, i)}, {i})
          /\ UNCHANGED <<tasks, made, deps, entries>>
      BY <2>7 DEF AddTaskComment
    <3>2. i \in Ids
      BY TasksAssumption DEF TargetIds, Ids
    <3>. QED
      BY <1>2, <3>1, <3>2, AutomateStep, RecordsKeep
  <2>8. ASSUME NEW i \in TargetIds, CreateSubtask(i) PROVE IInv'
    <3>1. i \in Ids
      BY TasksAssumption DEF TargetIds, Ids
    <3>. QED
      BY <1>2, <2>8, <3>1, RecordsKeep DEF CreateSubtask
  <2>9. ASSUME NEW i \in TargetIds, NEW j \in TargetIds,
               AddTaskDep(i, j) \/ RemoveTaskDep(i, j)
        PROVE  IInv'
    <3>1. j \in Ids
      BY TasksAssumption DEF TargetIds, Ids
    <3>. QED
      BY <1>2, <2>9, <3>1, RecordsKeep DEF AddTaskDep, RemoveTaskDep
  <2>10. ASSUME NEW i \in TargetIds, NEW u \in Users, StartTimer(i, u) \/ StopTimer(i, u)
         PROVE  IInv'
    BY <1>2, <2>10, StartKeeps, StopKeeps
  <2>11. ASSUME NEW c \in comments, DeleteTaskComment(c) PROVE IInv'
    BY <1>2, <2>11, RecordsKeep DEF DeleteTaskComment
  <2>12. ASSUME NEW s \in subtasks, DeleteSubtask(s) PROVE IInv'
    BY <1>2, <2>12, RecordsKeep DEF DeleteSubtask
  <2>13. ASSUME NEW R, PatchTasksBulk(R) PROVE IInv'
    BY <2>5, <2>13 DEF PatchTasksBulk
  <2>14. ASSUME NEW i \in TargetIds, PatchTask(i) PROVE IInv'
    BY <2>5, <2>14 DEF PatchTask
  <2>. QED
    BY <1>2, <2>1, <2>2, <2>3, <2>4, <2>6, <2>7, <2>8, <2>9, <2>10, <2>11, <2>12,
       <2>13, <2>14
       DEF Next, Step
<1>. QED
  BY <1>1, <1>2, PTL DEF Spec

\* Types are kept.
THEOREM TypeCorrect == Spec => []TypeOK
<1>1. IInv => TypeOK
  BY DEF IInv
<1>. QED BY <1>1, Invariance, PTL

\* Subtasks, comments and dependencies are never found on another task than
\* the one they were made for, though task ids are given out again.
THEOREM RecordsStay == Spec => []RecordsKeepTheirTask
<1>1. IInv => RecordsKeepTheirTask
  BY DEF IInv
<1>. QED BY <1>1, Invariance, PTL

\* A user never has two running timers on one task.
THEOREM TimersSingle == Spec => []OneRunningTimer
<1>1. IInv => OneRunningTimer
  BY DEF IInv
<1>. QED BY <1>1, Invariance, PTL
=============================================================================
