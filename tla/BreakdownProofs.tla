-------------------------- MODULE BreakdownProofs --------------------------
(***************************************************************************)
(* Proofs about the plan a document holds.  Of the work breakdown          *)
(* structure: the parents its rows name are there, and the rows agree with *)
(* the answers.  Of the tasks' placement (Planning): Project and Projects  *)
(* agree, a task is in the section or sprint it was put into, a removed    *)
(* project is empty, and approvals complete a task only when they are all  *)
(* there.  For any number of requests, ids, tasks, projects and users.     *)
(***************************************************************************)
EXTENDS Breakdown, Planning, FiniteSetTheorems, WellFoundedInduction, TLAPS

\* A set of naturals that has an element has a least one.
LEMMA LeastExists ==
  ASSUME NEW T \in SUBSET Nat, T # {}
  PROVE  \E x \in T : \A y \in T : x <= y
<1> DEFINE R == OpToRel(<, Nat)
<1>1. IsWellFoundedOn(R, Nat)
  BY NatLessThanWellFounded, Zenon
<1>2. \A x, y \in Nat : <<y, x>> \in R <=> y < x
  BY Zenon DEF OpToRel
<1> HIDE DEF R
<1>3. PICK x \in T : \A y \in T : ~ (<<y, x>> \in R)
  BY <1>1, WFMin
<1>4. \A y \in T : y \in Nat /\ ~(y < x)
  BY <1>2, <1>3
<1>. QED
  BY <1>3, <1>4

\* A set of ids with an upper bound has a largest one (0 if it is empty).
LEMMA MaxIsBound ==
  ASSUME NEW S \in SUBSET Nat, NEW n \in Nat, \A s \in S : s <= n
  PROVE  /\ Max0(S) \in Nat /\ Max0(S) <= n
         /\ \A s \in S : s <= Max0(S)
<1> DEFINE T == {m \in Nat : \A s \in S : s <= m}
<1>1. T \in SUBSET Nat /\ n \in T
  OBVIOUS
<1>2. PICK x \in T : \A y \in T : x <= y
  BY <1>1, LeastExists
<1>3. x \in S \cup {0}
  <2>1. CASE x # 0
    <3>1. x - 1 \in Nat /\ ~(x <= x - 1)
      BY <2>1
    <3>2. x - 1 \notin T
      BY <1>2, <3>1
    <3>3. PICK s \in S : ~(s <= x - 1)
      BY <3>1, <3>2
    <3>4. s = x
      BY <3>1, <3>3
    <3>. QED BY <3>4
  <2>. QED BY <2>1
<1>4. \E m \in S \cup {0} : \A s \in S : s <= m
  BY <1>3
<1>5. Max0(S) \in S \cup {0} /\ \A s \in S : s <= Max0(S)
  BY <1>4 DEF Max0
<1>6. \A m \in S \cup {0} : m \in Nat /\ m <= n
  OBVIOUS
<1>. QED
  BY ONLY <1>5, <1>6

\* The id NextStringID gives out is a number.
LEMMA NextIdIsNat ==
  ASSUME NEW S \in SUBSET Nat, NEW n \in Nat, \A s \in S : s <= n
  PROVE  NextStringID(S) \in Nat /\ NextStringID(S) <= n + 1
<1>1. Max0(S) \in Nat /\ Max0(S) <= n
  BY MaxIsBound
<1>. QED
  BY <1>1 DEF NextStringID

-----------------------------------------------------------------------------
(* The helpers on the rows.  A patch and a detach keep who made a row and  *)
(* its id.                                                                 *)

\* The rows of B are those of A, but for their parents.
SameKeys(A, B) ==
  /\ \A x \in A : \E y \in B : y.by = x.by /\ y.id = x.id
  /\ \A y \in B : \E x \in A : x.by = y.by /\ x.id = y.id

LEMMA ReplacedKeys ==
  ASSUME NEW A, NEW x \in A, NEW y, y.by = x.by, y.id = x.id
  PROVE  SameKeys(A, Replaced(A, x, y))
BY DEF SameKeys, Replaced

LEMMA DetachPhaseRows ==
  ASSUME NEW A \in SUBSET Row, NEW i \in Nat
  PROVE  /\ DetachPhase(A, i) \subseteq Row
         /\ SameKeys(A, DetachPhase(A, i))
         /\ \A y \in DetachPhase(A, i) : y.phase # i \/ i = None
         /\ \A y \in DetachPhase(A, i) :
              \E x \in A : y.activity = x.activity /\ (y.phase # None => y.phase = x.phase)
<1> DEFINE Off(x) == [x EXCEPT !.phase = IF @ = i THEN None ELSE @]
<1>1. DetachPhase(A, i) = {Off(x) : x \in A}
  BY DEF DetachPhase
<1>2. ASSUME NEW x \in A
      PROVE  /\ Off(x) \in Row /\ Off(x).by = x.by /\ Off(x).id = x.id
             /\ Off(x).activity = x.activity
             /\ Off(x).phase = IF x.phase = i THEN None ELSE x.phase
  BY DEF Row, None
<1> HIDE DEF Off
<1>3. SameKeys(A, DetachPhase(A, i))
  BY <1>1, <1>2 DEF SameKeys
<1>. QED
  BY <1>1, <1>2, <1>3 DEF None

LEMMA DetachActivityRows ==
  ASSUME NEW A \in SUBSET Row, NEW i \in Nat
  PROVE  /\ DetachActivity(A, i) \subseteq Row
         /\ SameKeys(A, DetachActivity(A, i))
         /\ \A y \in DetachActivity(A, i) : y.activity # i \/ i = None
         /\ \A y \in DetachActivity(A, i) :
              \E x \in A : y.activity # None => y.activity = x.activity
<1> DEFINE Off(x) == [x EXCEPT !.activity = IF @ = i THEN None ELSE @]
<1>1. DetachActivity(A, i) = {Off(x) : x \in A}
  BY DEF DetachActivity
<1>2. ASSUME NEW x \in A
      PROVE  /\ Off(x) \in Row /\ Off(x).by = x.by /\ Off(x).id = x.id
             /\ Off(x).activity = IF x.activity = i THEN None ELSE x.activity
  BY DEF Row, None
<1> HIDE DEF Off
<1>3. SameKeys(A, DetachActivity(A, i))
  BY <1>1, <1>2 DEF SameKeys
<1>. QED
  BY <1>1, <1>2, <1>3 DEF None

LEMMA SameIds ==
  ASSUME NEW A, NEW B, SameKeys(A, B)
  PROVE  IdsOf(A) = IdsOf(B)
BY DEF SameKeys, IdsOf

-----------------------------------------------------------------------------
(* Every change of the rows makes a new version, on which no closure has   *)
(* run yet.                                                                *)

LEMMA BumpOutdates ==
  ASSUME TypeOK, Bump, UNCHANGED requests
  PROVE  /\ ver' \in Nat
         /\ snapVer' \in [Creates -> 0..ver']
         /\ ChecksAreCurrent'
<1>1. ver \in Nat /\ ver' = ver + 1 /\ snapVer' = snapVer
  BY DEF TypeOK, Bump, requests
<1>2. \A r \in Creates : snapVer[r] \in 0..ver
  BY DEF TypeOK
<1>3. \A r \in Creates : snapVer'[r] \in 0..ver' /\ snapVer'[r] # ver'
  BY <1>1, <1>2
<1>4. snapVer' \in [Creates -> 0..ver']
  BY <1>1, <1>3 DEF TypeOK
<1>. QED
  BY <1>1, <1>3, <1>4 DEF ChecksAreCurrent

\* What an edit of the rows owes: the rows it leaves are rows that were there,
\* but for their parents, and those it takes away it was asked to.
LEMMA EditKeeps ==
  ASSUME IndInv, Bump, UNCHANGED requests,
         phases' \subseteq Row, activities' \subseteq Row, programs' \subseteq Row,
         named \subseteq named', named' \subseteq Kinds \X Nat,
         \A y \in phases' : \E x \in phases : x.by = y.by /\ x.id = y.id,
         \A y \in activities' : \E x \in activities : x.by = y.by /\ x.id = y.id,
         \A y \in programs' : \E x \in programs : x.by = y.by /\ x.id = y.id,
         \A x \in phases : <<"phase", x.id>> \in named'
                             \/ \E y \in phases' : y.by = x.by /\ y.id = x.id,
         \A x \in activities : <<"activity", x.id>> \in named'
                             \/ \E y \in activities' : y.by = x.by /\ y.id = x.id,
         \A x \in programs : <<"program", x.id>> \in named'
                             \/ \E y \in programs' : y.by = x.by /\ y.id = x.id,
         ParentsResolve'
  PROVE  IndInv'
<1> USE DEF IndInv
<1>1. /\ ver' \in Nat /\ snapVer' \in [Creates -> 0..ver'] /\ ChecksAreCurrent'
  BY BumpOutdates
<1>2. UNCHANGED <<pc, attempt, kind, in, snapVer>>
  BY DEF requests
<1>3. TypeOK'
  BY <1>1, <1>2 DEF TypeOK
<1>4. OwnRows'
  BY <1>2 DEF OwnRows
<1>5. IdsBounded'
  <2>1. PICK n \in Nat : \A x \in phases \cup activities \cup programs : x.id <= n
    BY DEF IdsBounded
  <2>2. \A y \in phases' \cup activities' \cup programs' : y.id <= n
    BY <2>1
  <2>. QED BY <2>2 DEF IdsBounded
<1>6. RowsMatchAnswers'
  <2> SUFFICES ASSUME NEW r \in Creates
               PROVE  /\ pc[r] = "done" /\ <<kind[r], in[r].id>> \notin named' =>
                           \E x \in RowsOf(kind[r])' : x.by = r /\ x.id = in[r].id
                      /\ pc[r] # "done" =>
                           \A x \in phases' \cup activities' \cup programs' : x.by # r
    BY <1>2 DEF RowsMatchAnswers
  <2>1. ASSUME pc[r] # "done"
        PROVE  \A x \in phases' \cup activities' \cup programs' : x.by # r
    <3>1. \A x \in phases \cup activities \cup programs : x.by # r
      BY <2>1 DEF RowsMatchAnswers
    <3>. QED BY <3>1
  <2>2. ASSUME pc[r] = "done", <<kind[r], in[r].id>> \notin named'
        PROVE  \E x \in RowsOf(kind[r])' : x.by = r /\ x.id = in[r].id
    <3>1. PICK x \in RowsOf(kind[r]) : x.by = r /\ x.id = in[r].id
      BY <2>2 DEF RowsMatchAnswers
    <3>2. kind[r] \in Kinds /\ kind'[r] = kind[r]
      BY <1>2 DEF TypeOK
    <3>3. CASE kind[r] = "phase"
      BY <2>2, <3>1, <3>2, <3>3 DEF RowsOf
    <3>4. CASE kind[r] = "activity"
      BY <2>2, <3>1, <3>2, <3>4 DEF RowsOf
    <3>5. CASE kind[r] = "program"
      BY <2>2, <3>1, <3>2, <3>5 DEF RowsOf
    <3>. QED BY <3>2, <3>3, <3>4, <3>5 DEF Kinds
  <2>. QED BY <2>1, <2>2
<1>. QED
  BY <1>1, <1>3, <1>4, <1>5, <1>6

-----------------------------------------------------------------------------
(* Creates.                                                                *)

LEMMA InitInv == Init => IndInv
<1> SUFFICES ASSUME Init PROVE IndInv
  OBVIOUS
<1> USE DEF Init, None
<1>1. TypeOK
  <2>1. in \in [Creates -> Row]
    BY DEF Row
  <2>. QED BY <2>1 DEF TypeOK, Labels, Kinds
<1>2. ParentsResolve /\ ChecksAreCurrent /\ OwnRows
  BY DEF ParentsResolve, ChecksAreCurrent, OwnRows
<1>3. RowsMatchAnswers
  BY DEF RowsMatchAnswers
<1>4. IdsBounded
  <2>1. \A x \in phases \cup activities \cup programs : x.id <= 0
    OBVIOUS
  <2>. QED BY <2>1 DEF IdsBounded
<1>. QED
  BY <1>1, <1>2, <1>3, <1>4 DEF IndInv

\* A step of one create that leaves the rows alone and is not its last.
LEMMA RequestKeeps ==
  ASSUME IndInv, NEW r \in Creates, UNCHANGED <<ver, levels, named>>,
         pc' \in [Creates -> Labels], pc[r] # "done", pc'[r] # "done",
         attempt' \in [Creates -> 1..2], kind' \in [Creates -> Kinds],
         in' \in [Creates -> Row], in'[r].by = r, snapVer' \in [Creates -> 0..ver],
         \A q \in Creates \ {r} : /\ pc'[q] = pc[q] /\ kind'[q] = kind[q]
                                  /\ in'[q] = in[q] /\ snapVer'[q] = snapVer[q],
         pc'[r] = "write" /\ snapVer'[r] = ver => ParentsThere(in'[r])
  PROVE  IndInv'
<1> USE DEF IndInv
<1>1. UNCHANGED <<ver, phases, activities, programs, named>>
  BY DEF levels
<1>2. TypeOK'
  BY <1>1 DEF TypeOK
<1>3. ParentsResolve' /\ IdsBounded'
  BY <1>1 DEF ParentsResolve, IdsBounded, HasPhase, HasActivity
<1>4. OwnRows'
  BY DEF OwnRows
<1>5. ChecksAreCurrent'
  <2> SUFFICES ASSUME NEW q \in Creates, pc'[q] = "write", snapVer'[q] = ver
               PROVE  ParentsThere(in[q])'
    BY <1>1 DEF ChecksAreCurrent
  <2>1. ParentsThere(in'[q])
    BY DEF ChecksAreCurrent
  <2>. QED BY <1>1, <2>1 DEF ParentsThere, HasPhase, HasActivity
<1>6. RowsMatchAnswers'
  <2> SUFFICES ASSUME NEW q \in Creates
               PROVE  /\ pc'[q] = "done" /\ <<kind'[q], in'[q].id>> \notin named =>
                           \E x \in RowsOf(kind[q])' : x.by = q /\ x.id = in'[q].id
                      /\ pc'[q] # "done" =>
                           \A x \in phases \cup activities \cup programs : x.by # q
    BY <1>1 DEF RowsMatchAnswers
  <2>1. CASE q = r
    BY <2>1 DEF RowsMatchAnswers
  <2>2. CASE q # r
    <3>1. RowsOf(kind[q])' = RowsOf(kind[q])
      BY <1>1, <2>2 DEF RowsOf
    <3>. QED BY <2>2, <3>1 DEF RowsMatchAnswers
  <2>. QED BY <2>1, <2>2
<1>. QED
  BY <1>2, <1>3, <1>4, <1>5, <1>6

LEMMA StartKeeps ==
  ASSUME IndInv, NEW r \in Creates, NEW k \in Kinds, NEW p \in Nat, NEW a \in Nat,
         Start(r, k, p, a)
  PROVE  IndInv'
<1> USE DEF IndInv
<1>1. PICK i \in ClientIds \cup {None} :
        in' = [in EXCEPT ![r] = [by |-> r, id |-> i, phase |-> p, activity |-> a]]
  BY DEF Start
<1>2. i \in Nat
  BY BreakdownAssumption DEF None
<1>3. [by |-> r, id |-> i, phase |-> p, activity |-> a] \in Row
  BY <1>2 DEF Row
<1>4. in' \in [Creates -> Row] /\ in'[r].by = r /\ \A q \in Creates \ {r} : in'[q] = in[q]
  BY <1>1, <1>3 DEF TypeOK
<1>5. /\ pc[r] = "idle" /\ pc'[r] = "read" /\ pc' \in [Creates -> Labels]
      /\ kind' \in [Creates -> Kinds]
      /\ \A q \in Creates \ {r} : pc'[q] = pc[q] /\ kind'[q] = kind[q]
      /\ UNCHANGED <<ver, levels, attempt, snapVer, named>>
  BY DEF Start, TypeOK, Labels
<1>6. attempt' \in [Creates -> 1..2] /\ snapVer' \in [Creates -> 0..ver]
  BY <1>5 DEF TypeOK
<1>. QED
  BY <1>4, <1>5, <1>6, RequestKeeps

\* A closure's check is on the version it keeps.
LEMMA ClosureKeeps ==
  ASSUME IndInv, NEW r \in Creates, Closure(r)
  PROVE  IndInv'
<1> USE DEF IndInv
<1> DEFINE S == IdsOf(RowsOf(kind[r]))
           id == IF in[r].id = None THEN NextStringID(S) ELSE in[r].id
<1>1. S \in SUBSET Nat /\ \E n \in Nat : \A s \in S : s <= n
  <2>1. RowsOf(kind[r]) \in {phases, activities, programs}
    BY DEF TypeOK, Kinds, RowsOf
  <2>2. PICK n \in Nat : \A x \in phases \cup activities \cup programs : x.id <= n
    BY DEF IdsBounded
  <2>3. \A x \in RowsOf(kind[r]) : x.id \in Nat /\ x.id <= n
    BY <2>1, <2>2 DEF TypeOK, Row
  <2>. QED BY <2>3 DEF IdsOf
<1>2. NextStringID(S) \in Nat
  BY <1>1, NextIdIsNat
<1>3. in[r] \in Row /\ in[r].by = r
  BY DEF TypeOK, OwnRows
<1> HIDE DEF S
<1>4. id \in Nat
  BY <1>2, <1>3 DEF Row
<1>5. in' = [in EXCEPT ![r].id = id]
  BY DEF Closure, S
<1> HIDE DEF id
<1>6. /\ in' \in [Creates -> Row] /\ in'[r].by = r
      /\ in'[r].phase = in[r].phase /\ in'[r].activity = in[r].activity
      /\ \A q \in Creates \ {r} : in'[q] = in[q]
  <2>1. [in[r] EXCEPT !.id = id] \in Row
    BY <1>3, <1>4 DEF Row
  <2>2. /\ [in[r] EXCEPT !.id = id].by = r
        /\ [in[r] EXCEPT !.id = id].phase = in[r].phase
        /\ [in[r] EXCEPT !.id = id].activity = in[r].activity
    BY <1>3 DEF Row
  <2>3. in' = [in EXCEPT ![r] = [in[r] EXCEPT !.id = id]] /\ in \in [Creates -> Row]
    BY <1>5 DEF TypeOK
  <2>. QED BY ONLY <2>1, <2>2, <2>3, r \in Creates
<1>7. /\ pc[r] = "read" /\ pc'[r] = "write" /\ pc' \in [Creates -> Labels]
      /\ \A q \in Creates \ {r} : pc'[q] = pc[q] /\ snapVer'[q] = snapVer[q]
      /\ UNCHANGED <<ver, levels, attempt, kind, named>>
  BY DEF Closure, TypeOK, Labels
<1>8. snapVer' \in [Creates -> 0..ver]
  BY DEF Closure, TypeOK
<1>9. ParentsThere(in'[r])
  BY <1>6 DEF Closure, ParentsThere
<1>10. attempt' \in [Creates -> 1..2] /\ kind' \in [Creates -> Kinds]
  BY <1>7 DEF TypeOK
<1>. QED
  BY <1>6, <1>7, <1>8, <1>9, <1>10, RequestKeeps

LEMMA GiveUpKeeps ==
  ASSUME IndInv, NEW r \in Creates, Refuse(r) \/ Conflict(r)
  PROVE  IndInv'
<1> USE DEF IndInv
<1>1. /\ pc[r] # "done" /\ pc'[r] \in {"read", "failed"} /\ pc' \in [Creates -> Labels]
      /\ \A q \in Creates \ {r} : pc'[q] = pc[q]
      /\ UNCHANGED <<ver, levels, kind, in, snapVer, named>>
  BY DEF Refuse, Conflict, TypeOK, Labels
<1>2. attempt' \in [Creates -> 1..2]
  BY DEF Refuse, Conflict, TypeOK
<1>3. /\ kind' \in [Creates -> Kinds] /\ in' \in [Creates -> Row] /\ in'[r].by = r
      /\ snapVer' \in [Creates -> 0..ver]
  BY <1>1 DEF TypeOK, OwnRows
<1>. QED
  BY <1>1, <1>2, <1>3, RequestKeeps

\* The row goes in with the parents its closure saw.
LEMMA WriteKeeps ==
  ASSUME IndInv, NEW r \in Creates, Write(r)
  PROVE  IndInv'
<1> USE DEF IndInv
<1>1. /\ pc[r] = "write" /\ snapVer[r] = ver /\ ver' = ver + 1
      /\ phases' = Added(phases, "phase", r)
      /\ activities' = Added(activities, "activity", r)
      /\ programs' = Added(programs, "program", r)
      /\ pc' = [pc EXCEPT ![r] = "done"]
      /\ UNCHANGED <<attempt, kind, in, snapVer, named>>
  BY DEF Write, VersionMatches, Bump
<1>2. in[r] \in Row /\ in[r].by = r /\ kind[r] \in Kinds /\ ParentsThere(in[r])
  BY <1>1 DEF TypeOK, OwnRows, ChecksAreCurrent
<1>3. pc'[r] = "done" /\ \A q \in Creates \ {r} : pc'[q] = pc[q]
  BY <1>1 DEF TypeOK
<1>4. /\ phases \subseteq phases' /\ phases' \subseteq phases \cup {in[r]}
      /\ activities \subseteq activities' /\ activities' \subseteq activities \cup {in[r]}
      /\ programs \subseteq programs' /\ programs' \subseteq programs \cup {in[r]}
  BY <1>1 DEF Added
<1>5. ver \in Nat /\ \A q \in Creates : snapVer[q] \in 0..ver
  BY DEF TypeOK
<1>6. TypeOK'
  <2>1. phases' \subseteq Row /\ activities' \subseteq Row /\ programs' \subseteq Row
    BY <1>2, <1>4 DEF TypeOK
  <2>2. ver' \in Nat /\ snapVer' \in [Creates -> 0..ver']
    BY <1>1, <1>5 DEF TypeOK
  <2>3. pc' \in [Creates -> Labels]
    BY <1>1 DEF TypeOK, Labels
  <2>. QED BY <1>1, <2>1, <2>2, <2>3 DEF TypeOK
<1>7. ParentsResolve'
  <2>1. \A i : (HasPhase(i) => HasPhase(i)') /\ (HasActivity(i) => HasActivity(i)')
    BY <1>4 DEF HasPhase, HasActivity, IdsOf
  <2>. QED BY <1>2, <1>4, <2>1 DEF ParentsResolve, ParentsThere
<1>8. ChecksAreCurrent'
  <2>1. \A q \in Creates : snapVer'[q] # ver'
    BY <1>1, <1>5
  <2>. QED BY <2>1 DEF ChecksAreCurrent
<1>9. OwnRows'
  BY <1>1 DEF OwnRows
<1>10. IdsBounded'
  <2>1. PICK n \in Nat : \A x \in phases \cup activities \cup programs : x.id <= n
    BY DEF IdsBounded
  <2> DEFINE m == n + in[r].id
  <2>2. in[r].id \in Nat
    BY <1>2 DEF Row
  <2>3. \A x \in phases \cup activities \cup programs : x.id \in Nat
    BY DEF TypeOK, Row
  <2>4. m \in Nat /\ n <= m /\ in[r].id <= m
    BY <2>2
  <2>5. \A x \in phases' \cup activities' \cup programs' : x.id <= m
    BY <1>4, <2>1, <2>2, <2>3, <2>4
  <2> HIDE DEF m
  <2>. QED BY <2>4, <2>5 DEF IdsBounded
<1>11. RowsMatchAnswers'
  <2> SUFFICES ASSUME NEW q \in Creates
               PROVE  /\ pc'[q] = "done" /\ <<kind[q], in[q].id>> \notin named =>
                           \E x \in RowsOf(kind[q])' : x.by = q /\ x.id = in[q].id
                      /\ pc'[q] # "done" =>
                           \A x \in phases' \cup activities' \cup programs' : x.by # q
    BY <1>1 DEF RowsMatchAnswers
  <2>1. CASE q = r
    <3>1. in[r] \in RowsOf(kind[r])'
      BY <1>1, <1>2 DEF RowsOf, Added, Kinds
    <3>. QED BY <1>2, <1>3, <2>1, <3>1
  <2>2. CASE q # r
    <3>1. RowsOf(kind[q]) \subseteq RowsOf(kind[q])'
      BY <1>1, <1>4 DEF RowsOf, TypeOK, Kinds
    <3>2. pc[q] # "done" => \A x \in phases' \cup activities' \cup programs' : x.by # q
      BY <1>2, <1>4, <2>2 DEF RowsMatchAnswers
    <3>. QED BY <1>3, <2>2, <3>1, <3>2 DEF RowsMatchAnswers
  <2>. QED BY <2>1, <2>2
<1>. QED
  BY <1>6, <1>7, <1>8, <1>9, <1>10, <1>11

-----------------------------------------------------------------------------
(* Patches and deletes.                                                    *)

LEMMA RefsAreNat == RefIds \cup {None} \subseteq Nat
BY BreakdownAssumption DEF RefIds, None

LEMMA PatchPhaseKeeps ==
  ASSUME IndInv, PatchPhase PROVE IndInv'
<1> USE DEF IndInv
<1>1. Bump /\ UNCHANGED requests /\ UNCHANGED <<phases, activities, programs, named>>
  BY DEF PatchPhase, levels
<1>2. ParentsResolve'
  BY <1>1 DEF ParentsResolve, HasPhase, HasActivity
<1>3. /\ phases' \subseteq Row /\ activities' \subseteq Row /\ programs' \subseteq Row
      /\ named' \subseteq Kinds \X Nat
  BY <1>1 DEF TypeOK
<1>. QED
  BY <1>1, <1>2, <1>3, EditKeeps

LEMMA PatchActivityKeeps ==
  ASSUME IndInv, NEW x \in activities, NEW p \in RefIds \cup {None}, PatchActivity(x, p)
  PROVE  IndInv'
<1> USE DEF IndInv
<1> DEFINE y == [x EXCEPT !.phase = p]
<1>1. /\ Bump /\ UNCHANGED requests /\ UNCHANGED <<phases, programs, named>>
      /\ activities' = Replaced(activities, x, y)
      /\ p \notin {x.phase, None} => HasPhase(p)
  BY DEF PatchActivity, ApplyActivityPatch, MayMove
<1>2. y \in Row /\ y.by = x.by /\ y.id = x.id /\ y.phase = p
  <2>1. x \in Row /\ p \in Nat
    BY RefsAreNat DEF TypeOK
  <2>. QED BY ONLY <2>1 DEF Row
<1> HIDE DEF y
<1>3. SameKeys(activities, activities')
  BY <1>1, <1>2, ReplacedKeys
<1>4. activities' \subseteq activities \cup {y}
  BY <1>1 DEF Replaced
<1>5. ParentsResolve'
  <2>1. \A i : HasActivity(i)' <=> HasActivity(i)
    BY <1>3, SameIds DEF HasActivity
  <2>2. \A i : HasPhase(i)' <=> HasPhase(i)
    BY <1>1 DEF HasPhase
  <2>3. y.phase # None => HasPhase(y.phase)
    BY <1>1, <1>2 DEF ParentsResolve
  <2>. QED BY <1>1, <1>4, <2>1, <2>2, <2>3 DEF ParentsResolve
<1>6. /\ phases' \subseteq Row /\ activities' \subseteq Row /\ programs' \subseteq Row
      /\ named' \subseteq Kinds \X Nat
  BY <1>1, <1>2, <1>4 DEF TypeOK
<1>. QED
  BY <1>1, <1>3, <1>5, <1>6, EditKeeps DEF SameKeys

LEMMA PatchWorkProgramKeeps ==
  ASSUME IndInv, NEW x \in programs, NEW p \in RefIds \cup {None}, NEW a \in RefIds \cup {None},
         PatchWorkProgram(x, p, a)
  PROVE  IndInv'
<1> USE DEF IndInv
<1> DEFINE y == [x EXCEPT !.phase = p, !.activity = a]
<1>1. /\ Bump /\ UNCHANGED requests /\ UNCHANGED <<phases, activities, named>>
      /\ programs' = Replaced(programs, x, y)
      /\ a \notin {x.activity, None} => HasActivity(a)
  BY DEF PatchWorkProgram, ApplyWorkProgramPatch
<1>2. y \in Row /\ y.by = x.by /\ y.id = x.id /\ y.activity = a
  <2>1. x \in Row /\ p \in Nat /\ a \in Nat
    BY RefsAreNat DEF TypeOK
  <2>. QED BY ONLY <2>1 DEF Row
<1> HIDE DEF y
<1>3. SameKeys(programs, programs')
  BY <1>1, <1>2, ReplacedKeys
<1>4. programs' \subseteq programs \cup {y}
  BY <1>1 DEF Replaced
<1>5. ParentsResolve'
  <2>1. \A i : (HasActivity(i)' <=> HasActivity(i)) /\ (HasPhase(i)' <=> HasPhase(i))
    BY <1>1 DEF HasActivity, HasPhase
  <2>2. y.activity # None => HasActivity(y.activity)
    BY <1>1, <1>2 DEF ParentsResolve
  <2>. QED BY <1>1, <1>4, <2>1, <2>2 DEF ParentsResolve
<1>6. /\ phases' \subseteq Row /\ activities' \subseteq Row /\ programs' \subseteq Row
      /\ named' \subseteq Kinds \X Nat
  BY <1>1, <1>2, <1>4 DEF TypeOK
<1>. QED
  BY <1>1, <1>3, <1>5, <1>6, EditKeeps DEF SameKeys

LEMMA DeletePhaseKeeps ==
  ASSUME IndInv, NEW i \in IdsOf(phases), DeletePhase(i) PROVE IndInv'
<1> USE DEF IndInv
<1>1. /\ Bump /\ UNCHANGED requests
      /\ phases' = Without(phases, i)
      /\ activities' = DetachPhase(activities, i)
      /\ programs' = DetachPhase(programs, i)
      /\ named' = named \cup {<<"phase", i>>}
  BY DEF DeletePhase, ChildrenOfPhase
<1>2. i \in Nat
  BY DEF IdsOf, TypeOK, Row
<1>3. /\ activities' \subseteq Row /\ SameKeys(activities, activities')
      /\ \A y \in activities' : y.phase # i \/ i = None
      /\ \A y \in activities' : \E x \in activities : y.phase # None => y.phase = x.phase
  <2>1. activities \in SUBSET Row
    BY DEF TypeOK
  <2> HIDE DEF IndInv
  <2>. QED BY <1>1, <1>2, <2>1, DetachPhaseRows
<1>4. /\ programs' \subseteq Row /\ SameKeys(programs, programs')
      /\ \A y \in programs' : \E x \in programs : y.activity = x.activity
  <2>1. programs \in SUBSET Row
    BY DEF TypeOK
  <2> HIDE DEF IndInv
  <2>. QED BY <1>1, <1>2, <2>1, DetachPhaseRows
<1>5. ParentsResolve'
  <2>1. \A j : HasActivity(j)' <=> HasActivity(j)
    BY <1>3, SameIds DEF HasActivity
  <2>2. \A j : j # i /\ HasPhase(j) => HasPhase(j)'
    BY <1>1 DEF HasPhase, IdsOf, Without
  <2>3. ASSUME NEW y \in activities', y.phase # None PROVE HasPhase(y.phase)'
    <3>1. y.phase # i
      BY <1>3, <2>3
    <3>2. HasPhase(y.phase)
      BY <1>3, <2>3 DEF ParentsResolve
    <3>3. \A j : j = y.phase => HasPhase(j)'
      BY <2>2, <3>1, <3>2
    <3>. QED BY <3>3 DEF HasPhase
  <2>4. ASSUME NEW y \in programs', y.activity # None PROVE HasActivity(y.activity)'
    BY <1>4, <2>1, <2>4 DEF ParentsResolve
  <2>. QED BY <2>3, <2>4 DEF ParentsResolve
<1>6. phases' \subseteq Row /\ named' \subseteq Kinds \X Nat /\ named \subseteq named'
  BY <1>1, <1>2 DEF TypeOK, Without, Kinds
<1>7. \A x \in phases : <<"phase", x.id>> \in named' \/ x \in phases'
  BY <1>1 DEF Without
<1>8. phases' \subseteq phases
  BY <1>1 DEF Without
<1>. QED
  BY <1>1, <1>3, <1>4, <1>5, <1>6, <1>7, <1>8, EditKeeps DEF SameKeys

LEMMA DeleteActivityKeeps ==
  ASSUME IndInv, NEW i \in IdsOf(activities), DeleteActivity(i) PROVE IndInv'
<1> USE DEF IndInv
<1>1. /\ Bump /\ UNCHANGED requests
      /\ activities' = Without(activities, i)
      /\ programs' = DetachActivity(programs, i)
      /\ named' = named \cup {<<"activity", i>>}
      /\ UNCHANGED phases
  BY DEF DeleteActivity
<1>2. i \in Nat
  BY DEF IdsOf, TypeOK, Row
<1>3. /\ programs' \subseteq Row /\ SameKeys(programs, programs')
      /\ \A y \in programs' : y.activity # i \/ i = None
      /\ \A y \in programs' : \E x \in programs : y.activity # None => y.activity = x.activity
  BY <1>1, <1>2, DetachActivityRows DEF TypeOK
<1>4. activities' \subseteq activities
  BY <1>1 DEF Without
<1>5. ParentsResolve'
  <2>1. \A j : HasPhase(j)' <=> HasPhase(j)
    BY <1>1 DEF HasPhase
  <2>2. \A j : j # i /\ HasActivity(j) => HasActivity(j)'
    BY <1>1 DEF HasActivity, IdsOf, Without
  <2>3. ASSUME NEW y \in programs', y.activity # None PROVE HasActivity(y.activity)'
    <3>1. y.activity # i
      BY <1>3, <2>3
    <3>2. HasActivity(y.activity)
      BY <1>3, <2>3 DEF ParentsResolve
    <3>3. \A j : j = y.activity => HasActivity(j)'
      BY <2>2, <3>1, <3>2
    <3>. QED BY <3>3 DEF HasActivity
  <2>. QED BY <1>4, <2>1, <2>3 DEF ParentsResolve
<1>6. /\ phases' \subseteq Row /\ activities' \subseteq Row
      /\ named' \subseteq Kinds \X Nat /\ named \subseteq named'
  BY <1>1, <1>2, <1>4 DEF TypeOK, Kinds
<1>7. \A x \in activities : <<"activity", x.id>> \in named' \/ x \in activities'
  BY <1>1 DEF Without
<1>. QED
  BY <1>1, <1>3, <1>4, <1>5, <1>6, <1>7, EditKeeps DEF SameKeys

LEMMA DeleteWorkProgramKeeps ==
  ASSUME IndInv, NEW i \in IdsOf(programs), DeleteWorkProgram(i) PROVE IndInv'
<1> USE DEF IndInv
<1>1. /\ Bump /\ UNCHANGED requests
      /\ programs' = Without(programs, i)
      /\ named' = named \cup {<<"program", i>>}
      /\ UNCHANGED <<phases, activities>>
  BY DEF DeleteWorkProgram
<1>2. i \in Nat
  BY DEF IdsOf, TypeOK, Row
<1>3. programs' \subseteq programs
  BY <1>1 DEF Without
<1>4. ParentsResolve'
  BY <1>1, <1>3 DEF ParentsResolve, HasPhase, HasActivity
<1>5. /\ phases' \subseteq Row /\ activities' \subseteq Row /\ programs' \subseteq Row
      /\ named' \subseteq Kinds \X Nat /\ named \subseteq named'
  BY <1>1, <1>2, <1>3 DEF TypeOK, Kinds
<1>6. \A x \in programs : <<"program", x.id>> \in named' \/ x \in programs'
  BY <1>1 DEF Without
<1>. QED
  BY <1>1, <1>3, <1>4, <1>5, <1>6, EditKeeps

-----------------------------------------------------------------------------

LEMMA NextInv == IndInv /\ [Next]_vars => IndInv'
<1> SUFFICES ASSUME IndInv, [Next]_vars PROVE IndInv'
  OBVIOUS
<1>1. ASSUME NEW r \in Creates, CreatePhase(r) \/ CreateActivity(r) \/ CreateWorkProgram(r)
      PROVE  IndInv'
  <2>1. None \in Nat /\ {"phase", "activity", "program"} \subseteq Kinds
    BY DEF None, Kinds
  <2>. QED BY <1>1, <2>1, RefsAreNat, StartKeeps
           DEF CreatePhase, CreateActivity, CreateWorkProgram
<1>2. ASSUME NEW r \in Creates, Closure(r) \/ Refuse(r) \/ Write(r) \/ Conflict(r)
      PROVE  IndInv'
  BY <1>2, ClosureKeeps, GiveUpKeeps, WriteKeeps
<1>3. CASE UNCHANGED vars
  <2>1. UNCHANGED <<ver, phases, activities, programs, pc, attempt, kind, in, snapVer, named>>
    BY <1>3 DEF vars, levels, requests
  <2>2. TypeOK' /\ ParentsResolve' /\ OwnRows' /\ IdsBounded'
    BY <2>1 DEF IndInv, TypeOK, ParentsResolve, OwnRows, IdsBounded, HasPhase, HasActivity
  <2>3. ChecksAreCurrent'
    BY <2>1 DEF IndInv, ChecksAreCurrent, ParentsThere, HasPhase, HasActivity
  <2>4. RowsMatchAnswers'
    BY <2>1 DEF IndInv, RowsMatchAnswers, RowsOf
  <2>. QED BY <2>2, <2>3, <2>4 DEF IndInv
<1>. QED
  BY <1>1, <1>2, <1>3, PatchPhaseKeeps, PatchActivityKeeps, PatchWorkProgramKeeps,
     DeletePhaseKeeps, DeleteActivityKeeps, DeleteWorkProgramKeeps DEF Next

\* The inductive invariant holds throughout.
THEOREM Invariance == Spec => []IndInv
BY InitInv, NextInv, PTL DEF Spec

\* The state keeps its types; no create makes more than two attempts.
THEOREM TypeCorrect == Spec => []TypeOK
<1>1. IndInv => TypeOK
  BY DEF IndInv
<1>. QED
  BY <1>1, Invariance, PTL

\* The parents that createActivity, createWorkProgram and the patches check,
\* and that the deletes detach, never dangle, whatever overlaps.
THEOREM NoDanglingParents == Spec => []ParentsResolve
<1>1. IndInv => ParentsResolve
  BY DEF IndInv
<1>. QED
  BY <1>1, Invariance, PTL

\* A create that was answered 200 has its row until a delete names it, one
\* that failed has none, and no delete takes another level's rows with it.
THEOREM AnswersAreTrue == Spec => []RowsMatchAnswers
<1>1. IndInv => RowsMatchAnswers
  BY DEF IndInv
<1>. QED
  BY <1>1, Invariance, PTL

-----------------------------------------------------------------------------
(* Lists.                                                                  *)

\* Of a finite set of positions there is a first, a second, and so on.
LEMMA NthExists ==
  ASSUME NEW l \in Nat, NEW K \in SUBSET (1..l), NEW n \in 1..Cardinality(K)
  PROVE  \E i \in K : Cardinality({j \in K : j <= i}) = n
<1> DEFINE B(i) == {j \in K : j <= i}
           C(i) == Cardinality(B(i))
           T == {i \in Nat : n <= C(i)}
<1>1. IsFiniteSet(K) /\ Cardinality(K) \in Nat
  <2>1. IsFiniteSet(1..l)
    BY FS_Interval
  <2>. QED BY <2>1, FS_Subset, FS_CardinalityType
<1>2. \A i : IsFiniteSet(B(i)) /\ C(i) \in Nat
  <2> SUFFICES ASSUME NEW i PROVE IsFiniteSet(B(i)) /\ C(i) \in Nat
    OBVIOUS
  <2>1. B(i) \in SUBSET K
    OBVIOUS
  <2>. QED BY <1>1, <2>1, FS_Subset, FS_CardinalityType
<1>3. \A j \in K : j \in Nat /\ j > 0 /\ j <= l
  OBVIOUS
<1>4. B(0) = {} /\ B(l) = K
  <2>1. \A j \in K : ~(j <= 0)
    BY <1>3
  <2>2. \A j \in K : j <= l
    BY <1>3
  <2>3. B(0) = {}
    BY <2>1
  <2>4. B(l) = K
    BY <2>2
  <2>. QED BY <2>3, <2>4
<1>5. n \in Nat /\ n > 0 /\ n <= C(l) /\ C(0) = 0
  BY <1>1, <1>4, FS_EmptySet
<1> HIDE DEF C
<1>6. T \in SUBSET Nat /\ l \in T
  BY <1>5
<1>7. PICK x \in T : \A y \in T : x <= y
  BY <1>6, LeastExists
<1>8. x \in Nat /\ n <= C(x)
  BY <1>7
<1>9. x # 0
  BY <1>5, <1>8
<1>10. x - 1 \in Nat /\ C(x - 1) < n
  <2>1. x - 1 \in Nat /\ ~(x <= x - 1)
    BY <1>8, <1>9
  <2>2. ~(n <= C(x - 1))
    BY <1>7, <2>1
  <2>3. C(x - 1) \in Nat
    BY <1>2
  <2>. QED BY <1>5, <2>1, <2>2, <2>3
<1>11. B(x) = IF x \in K THEN B(x - 1) \cup {x} ELSE B(x - 1)
  <2>1. \A j \in K : j <= x <=> j <= x - 1 \/ j = x
    BY <1>3, <1>8, <1>9
  <2>. QED BY <1>8, <2>1
<1>12. C(x) \in Nat /\ C(x - 1) \in Nat /\ C(x) # C(x - 1)
  <2>1. C(x) \in Nat /\ C(x - 1) \in Nat
    BY <1>2
  <2>. QED BY <1>5, <1>8, <1>10, <2>1
<1>13. x \in K
  BY <1>11, <1>12 DEF C
<1>14. C(x) <= C(x - 1) + 1
  <2> HIDE DEF B
  <2>1. B(x) = B(x - 1) \cup {x} /\ IsFiniteSet(B(x - 1))
    BY <1>2, <1>11, <1>13
  <2>2. C(x) \in {C(x - 1), C(x - 1) + 1}
    BY <2>1, FS_AddElement DEF C
  <2>. QED BY <1>12, <2>2
<1>15. C(x) = n
  BY <1>5, <1>8, <1>10, <1>12, <1>14
<1>. QED
  BY <1>13, <1>15 DEF C

\* Kept makes a list of entries at those positions, each of them once.
LEMMA KeptEntries ==
  ASSUME NEW S, NEW s \in Seq(S), NEW K \in SUBSET DOMAIN s
  PROVE  /\ DOMAIN Kept(s, K) = 1..Cardinality(K) /\ Cardinality(K) \in Nat
         /\ \A m \in DOMAIN Kept(s, K) : \E i \in K : Kept(s, K)[m] = s[i]
         /\ (\A i, j \in K : s[i] = s[j] => i = j) => IsInjective(Kept(s, K))
<1> DEFINE c == Cardinality(K)
           B(i) == {j \in K : j <= i}
           Nth(n) == CHOOSE i \in K : Cardinality(B(i)) = n
<1>1. DOMAIN s = 1..Len(s) /\ Len(s) \in Nat
  OBVIOUS
<1>2. c \in Nat
  <2>1. IsFiniteSet(1..Len(s))
    BY <1>1, FS_Interval
  <2>. QED BY <1>1, <2>1, FS_Subset, FS_CardinalityType
<1>3. Kept(s, K) = [n \in 1..c |-> s[Nth(n)]]
  BY DEF Kept
<1>4. \A n \in 1..c : Nth(n) \in K /\ Cardinality(B(Nth(n))) = n
  <2> SUFFICES ASSUME NEW n \in 1..c PROVE Nth(n) \in K /\ Cardinality(B(Nth(n))) = n
    OBVIOUS
  <2>1. \E i \in K : Cardinality(B(i)) = n
    BY <1>1, NthExists
  <2> HIDE DEF B
  <2>. QED BY <2>1
<1> HIDE DEF c, B, Nth
<1>5. ASSUME \A i, j \in K : s[i] = s[j] => i = j
      PROVE  IsInjective(Kept(s, K))
  <2> SUFFICES ASSUME NEW m \in 1..c, NEW n \in 1..c, s[Nth(m)] = s[Nth(n)]
               PROVE  m = n
    BY <1>3 DEF IsInjective
  <2>1. Nth(m) = Nth(n)
    BY <1>4, <1>5
  <2>. QED BY <1>4, <2>1
<1>6. \A m \in DOMAIN Kept(s, K) : \E i \in K : Kept(s, K)[m] = s[i]
  BY <1>3, <1>4
<1>. QED
  BY <1>2, <1>3, <1>5, <1>6 DEF c

\* ... which is a list over any set those entries are in.
LEMMA KeptIsList ==
  ASSUME NEW S, NEW s \in Seq(S), NEW K \in SUBSET DOMAIN s, NEW R,
         \A i \in K : s[i] \in R
  PROVE  /\ Kept(s, K) \in Seq(R)
         /\ ToSet(Kept(s, K)) \subseteq R
<1>1. /\ DOMAIN Kept(s, K) = 1..Cardinality(K) /\ Cardinality(K) \in Nat
      /\ \A m \in DOMAIN Kept(s, K) : \E i \in K : Kept(s, K)[m] = s[i]
  BY KeptEntries
<1>2. \A m \in 1..Cardinality(K) : Kept(s, K)[m] \in R
  BY <1>1
<1>3. \E f : Kept(s, K) = [m \in 1..Cardinality(K) |-> f[m]]
  <2>1. Kept(s, K) = [m \in DOMAIN Kept(s, K) |-> Kept(s, K)[m]]
    BY DEF Kept
  <2>. QED BY <1>1, <2>1
<1>4. Kept(s, K) \in [1..Cardinality(K) -> R]
  BY <1>1, <1>2, <1>3
<1>. QED
  BY <1>1, <1>2, <1>4 DEF ToSet

\* dedupeNonEmpty leaves out what is blank and what was there before.
LEMMA DedupeSpec ==
  ASSUME NEW S, NEW s \in Seq(S)
  PROVE  /\ dedupeNonEmpty(s) \in Seq(S \ {Blank})
         /\ IsInjective(dedupeNonEmpty(s))
         /\ ToSet(dedupeNonEmpty(s)) \subseteq ToSet(s) \ {Blank}
<1> DEFINE K == {i \in DOMAIN s : s[i] # Blank /\ \A j \in 1..(i - 1) : s[j] # s[i]}
<1>1. dedupeNonEmpty(s) = Kept(s, K) /\ K \in SUBSET DOMAIN s
  BY DEF dedupeNonEmpty
<1>2. \A i, j \in K : s[i] = s[j] => i = j
  <2> SUFFICES ASSUME NEW i \in K, NEW j \in K, s[i] = s[j], i # j PROVE FALSE
    OBVIOUS
  <2>1. i \in Nat /\ j \in Nat /\ i > 0 /\ j > 0
    OBVIOUS
  <2>2. CASE i < j
    <3>1. i \in 1..(j - 1)
      BY <2>1, <2>2
    <3>. QED BY <3>1
  <2>3. CASE j < i
    <3>1. j \in 1..(i - 1)
      BY <2>1, <2>3
    <3>. QED BY <3>1
  <2>. QED BY <2>1, <2>2, <2>3
<1>3. \A i \in K : s[i] \in S \ {Blank} /\ s[i] \in ToSet(s) \ {Blank}
  BY DEF ToSet
<1> HIDE DEF K
<1>4. IsInjective(Kept(s, K))
  BY <1>1, <1>2, KeptEntries
<1>5. Kept(s, K) \in Seq(S \ {Blank})
  BY <1>1, <1>3, KeptIsList
<1>6. ToSet(Kept(s, K)) \subseteq ToSet(s) \ {Blank}
  BY <1>1, <1>3, KeptIsList
<1>. QED
  BY <1>1, <1>4, <1>5, <1>6

LEMMA DroppingSpec ==
  ASSUME NEW S, NEW s \in Seq(S), NEW p
  PROVE  Dropping(s, p) \in Seq(S) /\ p \notin ToSet(Dropping(s, p))
<1> DEFINE K == {i \in DOMAIN s : s[i] # p}
<1>1. K \in SUBSET DOMAIN s /\ \A i \in K : s[i] \in S \ {p}
  OBVIOUS
<1> HIDE DEF K
<1>2. Kept(s, K) \in Seq(S \ {p}) /\ ToSet(Kept(s, K)) \subseteq S \ {p}
  BY <1>1, KeptIsList
<1>3. Kept(s, K) \in Seq(S)
  BY <1>2
<1>. QED
  BY <1>2, <1>3 DEF Dropping, K

LEMMA IntervalSize ==
  ASSUME NEW n \in Nat
  PROVE  IsFiniteSet(1..n) /\ Cardinality(1..n) = n
<1>1. IsFiniteSet(1..n) /\ Cardinality(1..n) = IF 1 > n THEN 0 ELSE n - 1 + 1
  BY FS_Interval
<1>. QED
  BY <1>1

\* A list without repetitions over at least as long a one is all of it.
LEMMA AllAreThere ==
  ASSUME NEW S, NEW s \in Seq(S), NEW r \in Seq(S), IsInjective(s), IsInjective(r),
         ToSet(r) \subseteq ToSet(s), Len(r) >= Len(s)
  PROVE  ToSet(s) = ToSet(r)
<1>1. ASSUME NEW q \in Seq(S), IsInjective(q)
      PROVE  IsFiniteSet(ToSet(q)) /\ Cardinality(ToSet(q)) = Len(q)
  <2>1. /\ DOMAIN q = 1..Len(q) /\ Len(q) \in Nat
        /\ q \in [1..Len(q) -> ToSet(q)]
    BY DEF ToSet
  <2>2. q \in Bijection(1..Len(q), ToSet(q))
    BY <1>1, <2>1 DEF Bijection, Injection, Surjection, ToSet, IsInjective
  <2>3. IsFiniteSet(1..Len(q)) /\ Cardinality(1..Len(q)) = Len(q)
    BY <2>1, IntervalSize
  <2>. QED BY <2>2, <2>3, FS_Bijection DEF ExistsBijection
<1>2. /\ IsFiniteSet(ToSet(s)) /\ Cardinality(ToSet(s)) = Len(s)
      /\ IsFiniteSet(ToSet(r)) /\ Cardinality(ToSet(r)) = Len(r)
  BY <1>1
<1>3. Cardinality(ToSet(r)) <= Cardinality(ToSet(s))
  BY <1>2, FS_Subset
<1>4. Cardinality(ToSet(s)) = Cardinality(ToSet(r))
  BY <1>2, <1>3
<1>. QED
  BY <1>2, <1>4, FS_Subset
-----------------------------------------------------------------------------
(* Where tasks are placed.  PlanInv is about one task at a time, but for   *)
(* the groups; what a step may do to a task is said along with it.         *)

Synced(r) ==
  r.projects # << >> =>
    /\ r.project = r.projects[1]
    /\ IsInjective(r.projects)
    /\ Blank \notin ToSet(r.projects)

Placed(r) == r.of # 0 => \E g \in groups : g.id = r.group /\ g.of = r.of

Approved(r) ==
  /\ IsInjective(r.approvers) /\ IsInjective(r.approvedBy)
  /\ ToSet(r.approvedBy) \subseteq ToSet(r.approvers)

CompletedByAll(r, s) ==
  ~r.done /\ s.done /\ <<s.approvers, s.approvedBy>> # <<r.approvers, r.approvedBy>> =>
    ToSet(s.approvers) = ToSet(s.approvedBy)

\* The fields that say where a task is and who approved it.
OtherFields(r) == <<r.group, r.of, r.approval, r.approvers, r.approvedBy, r.done>>

SignOffStep == \A t \in Tasks : CompletedByAll(tasks[t], tasks'[t])

DeletionStep ==
  \A p \in ProjectIds :
    p \in projects /\ p \notin projects' => \A t \in Tasks : ~taskHomedIn(tasks'[t], p)

LEMMA PlanInitInv == PlanInit => PlanInv
<1> SUFFICES ASSUME PlanInit PROVE PlanInv
  OBVIOUS
<1>1. ASSUME NEW p \in Homes
      PROVE  /\ StoredTask(p) \in Placement
             /\ StoredTask(p).projects = << >> /\ StoredTask(p).of = 0
             /\ StoredTask(p).approvers = << >> /\ StoredTask(p).approvedBy = << >>
  BY DEF StoredTask, Placement
<1>2. \A t \in Tasks : \E p \in Homes : tasks[t] = StoredTask(p)
  BY DEF PlanInit, Homes
<1>3. PlanTypeOK
  <2>1. tasks \in [Tasks -> Placement]
    BY <1>1 DEF PlanInit, Homes
  <2>. QED BY <2>1 DEF PlanInit, PlanTypeOK
<1>4. HomesInSync /\ PlacementIsKept
  BY <1>1, <1>2 DEF HomesInSync, PlacementIsKept
<1>5. ApproversApprove
  <2>1. \A t \in Tasks : tasks[t].approvers = << >> /\ tasks[t].approvedBy = << >>
    BY <1>1, <1>2
  <2>. QED BY <2>1 DEF ApproversApprove, IsInjective, ToSet
<1>6. GroupsAreTold
  BY DEF PlanInit, GroupsAreTold
<1>. QED
  BY <1>3, <1>4, <1>5, <1>6 DEF PlanInv

\* What the invariant says of each task.
LEMMA EachTask ==
  ASSUME PlanInv, NEW t \in Tasks
  PROVE  /\ tasks[t] \in Placement /\ Synced(tasks[t])
         /\ Placed(tasks[t]) /\ Approved(tasks[t])
BY DEF PlanInv, PlanTypeOK, HomesInSync, PlacementIsKept, ApproversApprove,
       Synced, Placed, Approved

\* The tasks are rewritten, the rest of the document is not.
LEMMA TasksRewritten ==
  ASSUME PlanInv, tasks' \in [Tasks -> Placement],
         UNCHANGED <<groupKind, groups, serial>>, projects' \subseteq ProjectIds,
         \A t \in Tasks : Synced(tasks'[t]) /\ Placed(tasks'[t]) /\ Approved(tasks'[t])
  PROVE  PlanInv'
<1>1. PlanTypeOK' /\ GroupsAreTold'
  BY DEF PlanInv, PlanTypeOK, GroupsAreTold
<1>2. HomesInSync'
  BY DEF HomesInSync, Synced
<1>3. PlacementIsKept'
  BY DEF PlacementIsKept, Placed
<1>4. ApproversApprove'
  BY DEF ApproversApprove, Approved
<1>. QED
  BY <1>1, <1>2, <1>3, <1>4 DEF PlanInv

\* One task is.
LEMMA TaskSet ==
  ASSUME PlanInv, NEW t \in Tasks, NEW r \in Placement, Set(t, r), UNCHANGED docVars,
         Synced(r), Placed(r), Approved(r), CompletedByAll(tasks[t], r)
  PROVE  PlanInv' /\ SignOffStep /\ DeletionStep
<1>1. /\ tasks' \in [Tasks -> Placement] /\ tasks'[t] = r
      /\ \A u \in Tasks \ {t} : tasks'[u] = tasks[u]
  BY DEF Set, PlanInv, PlanTypeOK
<1>2. UNCHANGED <<groupKind, projects, groups, serial>>
  BY DEF docVars
<1>3. \A u \in Tasks : Synced(tasks'[u]) /\ Placed(tasks'[u]) /\ Approved(tasks'[u])
  <2> SUFFICES ASSUME NEW u \in Tasks
               PROVE  Synced(tasks'[u]) /\ Placed(tasks'[u]) /\ Approved(tasks'[u])
    OBVIOUS
  <2>1. CASE u = t
    BY <1>1, <2>1
  <2>2. CASE u # t
    BY <1>1, <2>2, EachTask
  <2>. QED BY <2>1, <2>2
<1>4. PlanInv'
  <2>1. projects' \subseteq ProjectIds
    BY <1>2 DEF PlanInv, PlanTypeOK
  <2>. QED BY <1>1, <1>2, <1>3, <2>1, TasksRewritten
<1>5. SignOffStep
  <2> SUFFICES ASSUME NEW u \in Tasks PROVE CompletedByAll(tasks[u], tasks'[u])
    BY DEF SignOffStep
  <2>1. CASE u = t
    BY <1>1, <2>1
  <2>2. CASE u # t
    BY <1>1, <2>2 DEF CompletedByAll
  <2>. QED BY <2>1, <2>2
<1>6. DeletionStep
  BY <1>2 DEF DeletionStep
<1>. QED
  BY <1>4, <1>5, <1>6

\* normalizeTaskProjects brings the two fields into line, leaves the others
\* alone and adds no home.
LEMMA Normalized ==
  ASSUME NEW r \in Placement
  PROVE  LET n == normalizeTaskProjects(r) IN
         /\ n \in Placement /\ Synced(n) /\ OtherFields(n) = OtherFields(r)
         /\ \A p \in ProjectIds : taskHomedIn(n, p) => taskHomedIn(r, p)
<1> DEFINE n == normalizeTaskProjects(r)
<1>1. r.projects \in Seq(Homes) /\ r.project \in Homes
  BY DEF Placement
<1>2. CASE r.projects = << >> /\ r.project # Blank
  <2>1. n = [r EXCEPT !.projects = <<r.project>>]
    BY <1>2 DEF normalizeTaskProjects
  <2>2. <<r.project>> \in Seq(Homes) /\ DOMAIN <<r.project>> = {1} /\ <<r.project>>[1] = r.project
    BY <1>1
  <2>3. /\ n \in Placement /\ OtherFields(n) = OtherFields(r)
        /\ n.project = r.project /\ n.projects = <<r.project>>
    BY <2>1, <2>2 DEF Placement, OtherFields
  <2>4. ToSet(n.projects) = {r.project} /\ IsInjective(n.projects)
    BY <2>2, <2>3 DEF ToSet, IsInjective
  <2>. QED BY <1>2, <2>2, <2>3, <2>4 DEF Synced, taskHomedIn
<1>3. CASE r.projects # << >>
  <2> DEFINE ps == dedupeNonEmpty(r.projects)
  <2>1. n = [r EXCEPT !.projects = ps, !.project = IF ps = << >> THEN Blank ELSE ps[1]]
    BY <1>3 DEF normalizeTaskProjects
  <2>2. /\ ps \in Seq(Homes \ {Blank}) /\ IsInjective(ps)
        /\ ToSet(ps) \subseteq ToSet(r.projects) \ {Blank}
    BY <1>1, DedupeSpec
  <2> HIDE DEF ps
  <2>3. ps \in Seq(Homes) /\ (ps # << >> => ps[1] \in Homes /\ ps[1] \in ToSet(ps))
    BY <2>2 DEF ToSet
  <2>4. /\ n \in Placement /\ OtherFields(n) = OtherFields(r)
        /\ n.projects = ps /\ n.project = IF ps = << >> THEN Blank ELSE ps[1]
    BY <2>1, <2>3 DEF Placement, OtherFields, Homes
  <2>5. Synced(n)
    BY <2>2, <2>4 DEF Synced
  <2>6. \A p \in ProjectIds : taskHomedIn(n, p) => p \in ToSet(r.projects)
    <3>1. Blank \notin ProjectIds
      BY PlanningAssumption
    <3>2. ps = << >> => ToSet(ps) = {}
      BY DEF ToSet
    <3>. QED BY <2>2, <2>3, <2>4, <3>1, <3>2 DEF taskHomedIn
  <2>. QED BY <2>4, <2>5, <2>6 DEF taskHomedIn
<1>4. CASE r.projects = << >> /\ r.project = Blank
  <2>1. n = r
    BY <1>4 DEF normalizeTaskProjects
  <2>. QED BY <1>4, <2>1 DEF Synced
<1>. QED
  BY <1>2, <1>3, <1>4

\* A request that only moves a task between projects.
LEMMA HomesSet ==
  ASSUME PlanInv, NEW t \in Tasks, NEW r \in Placement, OtherFields(r) = OtherFields(tasks[t]),
         Set(t, normalizeTaskProjects(r)), UNCHANGED docVars
  PROVE  PlanInv' /\ SignOffStep /\ DeletionStep
<1> DEFINE n == normalizeTaskProjects(r)
<1>1. n \in Placement /\ Synced(n) /\ OtherFields(n) = OtherFields(tasks[t])
  BY Normalized
<1> HIDE DEF n
<1>2. Placed(n) /\ Approved(n) /\ CompletedByAll(tasks[t], n)
  BY <1>1, EachTask DEF Placed, Approved, CompletedByAll, OtherFields
<1>. QED
  BY <1>1, <1>2, TaskSet DEF n

LEMMA ListsAreSequences ==
  ASSUME NEW S, NEW s \in Lists(S)
  PROVE  s \in Seq(S)
<1>1. PICK n \in 0..2 : s \in [1..n -> S]
  BY DEF Lists
<1>. QED
  BY <1>1

LEMMA HomesKeep ==
  ASSUME PlanInv, NEW t \in Tasks,
         \/ \E p \in Homes : PatchProject(t, p)
         \/ \E ps \in Lists(Homes) : PatchProjects(t, ps)
         \/ \E p \in ProjectIds : AddTaskProject(t, p) \/ RemoveTaskProject(t, p)
  PROVE  PlanInv' /\ SignOffStep /\ DeletionStep
<1>1. tasks[t] \in Placement
  BY EachTask
<1>2. ASSUME NEW p \in Homes, PatchProject(t, p)
      PROVE  PlanInv' /\ SignOffStep /\ DeletionStep
  <2> DEFINE r == [tasks[t] EXCEPT !.project = p, !.projects = << >>]
  <2>1. << >> \in Seq(Homes)
    OBVIOUS
  <2>2. r \in Placement
    BY <1>1, <2>1 DEF Placement
  <2>3. OtherFields(r) = OtherFields(tasks[t])
    BY <1>1 DEF Placement, OtherFields
  <2>. QED BY <1>2, <2>2, <2>3, HomesSet DEF PatchProject
<1>3. ASSUME NEW ps \in Lists(Homes), PatchProjects(t, ps)
      PROVE  PlanInv' /\ SignOffStep /\ DeletionStep
  <2> DEFINE r == [tasks[t] EXCEPT !.projects = ps]
  <2>1. ps \in Seq(Homes)
    BY ListsAreSequences
  <2>2. r \in Placement /\ OtherFields(r) = OtherFields(tasks[t])
    BY <1>1, <2>1 DEF Placement, OtherFields
  <2>. QED BY <1>3, <2>2, HomesSet DEF PatchProjects
<1> DEFINE n == normalizeTaskProjects(tasks[t])
<1>4. n \in Placement /\ OtherFields(n) = OtherFields(tasks[t])
  BY <1>1, Normalized
<1>5. ASSUME NEW p \in ProjectIds, AddTaskProject(t, p)
      PROVE  PlanInv' /\ SignOffStep /\ DeletionStep
  <2> DEFINE r == [n EXCEPT !.projects = Append(@, p)]
  <2>1. Set(t, normalizeTaskProjects(r)) /\ UNCHANGED docVars
    BY <1>5 DEF AddTaskProject
  <2> HIDE DEF n
  <2>2. Append(n.projects, p) \in Seq(Homes)
    BY <1>4 DEF Placement, Homes
  <2>3. r \in Placement /\ OtherFields(r) = OtherFields(n)
    BY <1>4, <2>2 DEF Placement, OtherFields
  <2>. QED BY <1>4, <2>1, <2>3, HomesSet
<1>6. ASSUME NEW p \in ProjectIds, RemoveTaskProject(t, p)
      PROVE  PlanInv' /\ SignOffStep /\ DeletionStep
  <2> DEFINE r == [n EXCEPT !.projects = Dropping(@, p)]
  <2>1. Set(t, normalizeTaskProjects(r)) /\ UNCHANGED docVars
    BY <1>6 DEF RemoveTaskProject
  <2> HIDE DEF n
  <2>2. Dropping(n.projects, p) \in Seq(Homes)
    BY <1>4, DroppingSpec DEF Placement
  <2>3. r \in Placement /\ OtherFields(r) = OtherFields(n)
    BY <1>4, <2>2 DEF Placement, OtherFields
  <2>. QED BY <1>4, <2>1, <2>3, HomesSet
<1>. QED
  BY <1>2, <1>3, <1>5, <1>6

\* Removing a project: no task keeps it as a home.
LEMMA DeleteProjectKeeps ==
  ASSUME PlanInv, NEW p \in ProjectIds, DeleteProject(p)
  PROVE  PlanInv' /\ SignOffStep /\ DeletionStep
<1>1. /\ projects' = projects \ {p} /\ tasks' = [t \in Tasks |-> Detached(tasks[t], p)]
      /\ UNCHANGED <<groupKind, groups, serial>>
  BY DEF DeleteProject
<1>2. ASSUME NEW t \in Tasks
      PROVE  /\ tasks'[t] \in Placement /\ Synced(tasks'[t])
             /\ OtherFields(tasks'[t]) = OtherFields(tasks[t]) /\ ~taskHomedIn(tasks'[t], p)
  <2> DEFINE n == normalizeTaskProjects(tasks[t])
             r == [n EXCEPT !.projects = Dropping(@, p), !.project = IF @ = p THEN Blank ELSE @]
  <2>1. n \in Placement /\ OtherFields(n) = OtherFields(tasks[t])
    BY EachTask, Normalized
  <2>2. tasks'[t] = normalizeTaskProjects(r)
    BY <1>1 DEF Detached
  <2> HIDE DEF n
  <2>3. Dropping(n.projects, p) \in Seq(Homes) /\ p \notin ToSet(Dropping(n.projects, p))
    BY <2>1, DroppingSpec DEF Placement
  <2>4. r \in Placement /\ OtherFields(r) = OtherFields(n)
    BY <2>1, <2>3 DEF Placement, OtherFields, Homes
  <2>5. r.projects = Dropping(n.projects, p) /\ r.project # p
    BY <2>1, PlanningAssumption DEF Placement
  <2> HIDE DEF r
  <2>6. ~taskHomedIn(r, p)
    BY <2>3, <2>5 DEF taskHomedIn
  <2>. QED BY <2>1, <2>2, <2>4, <2>6, Normalized
<1>3. tasks' \in [Tasks -> Placement]
  BY <1>1, <1>2
<1>4. \A t \in Tasks : /\ Synced(tasks'[t]) /\ Placed(tasks'[t]) /\ Approved(tasks'[t])
                       /\ CompletedByAll(tasks[t], tasks'[t])
  BY <1>2, EachTask DEF Placed, Approved, CompletedByAll, OtherFields
<1>5. PlanInv'
  <2>1. projects' \subseteq ProjectIds
    BY <1>1 DEF PlanInv, PlanTypeOK
  <2>. QED BY <1>1, <1>3, <1>4, <2>1, TasksRewritten
<1>. QED
  BY <1>1, <1>2, <1>4, <1>5 DEF SignOffStep, DeletionStep

LEMMA PutProjectKeeps ==
  ASSUME PlanInv, NEW p \in ProjectIds, PutProject(p)
  PROVE  PlanInv' /\ SignOffStep /\ DeletionStep
<1>1. projects' = projects \cup {p} /\ UNCHANGED <<groupKind, groups, serial, tasks>>
  BY DEF PutProject
<1>2. projects' \subseteq ProjectIds /\ tasks' \in [Tasks -> Placement]
  BY <1>1 DEF PlanInv, PlanTypeOK
<1>3. \A t \in Tasks : Synced(tasks'[t]) /\ Placed(tasks'[t]) /\ Approved(tasks'[t])
  BY <1>1, EachTask
<1>. QED
  BY <1>1, <1>2, <1>3, TasksRewritten DEF SignOffStep, DeletionStep, CompletedByAll

\* The id of a new group is none of those in use.
LEMMA CreateGroupKeeps ==
  ASSUME PlanInv, NEW p \in ProjectIds, CreateGroup(p)
  PROVE  PlanInv' /\ SignOffStep /\ DeletionStep
<1> USE DEF PlanInv
<1> DEFINE Used == {g.id : g \in groups}
           new == [id |-> NextIntID(Used), of |-> serial + 1]
<1>1. /\ serial' = serial + 1 /\ groups' = groups \cup {new}
      /\ UNCHANGED <<groupKind, projects, tasks>>
  BY DEF CreateGroup
<1>2. /\ serial \in Nat /\ Used \in SUBSET Nat /\ \A s \in Used : s <= serial
  BY DEF PlanTypeOK, GroupsAreTold
<1>3. NextIntID(Used) \in Nat /\ NextIntID(Used) <= serial + 1 /\ NextIntID(Used) \notin Used
  <2> HIDE DEF Used
  <2>1. Max0(Used) \in Nat /\ Max0(Used) <= serial /\ \A s \in Used : s <= Max0(Used)
    BY <1>2, MaxIsBound
  <2>2. \A s \in Used : s # Max0(Used) + 1
    BY <1>2, <2>1
  <2>. QED BY <1>2, <2>1, <2>2 DEF NextIntID
<1>4. /\ new \in [id : Nat, of : Nat \ {0}] /\ new.id <= serial'
      /\ \A g \in groups : g.id # new.id
  BY <1>1, <1>2, <1>3
<1> HIDE DEF new, Used
<1>5. PlanTypeOK'
  BY <1>1, <1>2, <1>4 DEF PlanTypeOK
<1>6. GroupsAreTold'
  <2>1. \A g \in groups : g.id \in Nat /\ g.id <= serial
    BY DEF PlanTypeOK, GroupsAreTold
  <2>2. \A g \in groups : g.id <= serial'
    BY <1>1, <1>2, <2>1
  <2>3. \A g, h \in groups : g.id = h.id => g = h
    BY DEF GroupsAreTold
  <2>. QED BY <1>1, <1>4, <2>2, <2>3 DEF GroupsAreTold
<1>7. HomesInSync' /\ ApproversApprove'
  BY <1>1 DEF HomesInSync, ApproversApprove
<1>8. PlacementIsKept'
  BY <1>1 DEF PlacementIsKept
<1>9. SignOffStep /\ DeletionStep
  BY <1>1 DEF SignOffStep, DeletionStep, CompletedByAll
<1>. QED
  BY <1>5, <1>6, <1>7, <1>8, <1>9

\* Removing a group takes the tasks out of it, so that its id is free.
LEMMA DeleteGroupKeeps ==
  ASSUME PlanInv, NEW g \in groups, DeleteGroup(g)
  PROVE  PlanInv' /\ SignOffStep /\ DeletionStep
<1> USE DEF PlanInv
<1> DEFINE Off(r) == IF r.group = g.id THEN [r EXCEPT !.group = 0, !.of = 0] ELSE r
<1>1. /\ groups' = groups \ {g} /\ tasks' = [t \in Tasks |-> Off(tasks[t])]
      /\ UNCHANGED <<groupKind, projects, serial>>
  BY DEF DeleteGroup
<1>2. ASSUME NEW r \in Placement
      PROVE  /\ Off(r) \in Placement
             /\ Off(r).project = r.project /\ Off(r).projects = r.projects
             /\ Off(r).approvers = r.approvers /\ Off(r).approvedBy = r.approvedBy
             /\ Off(r).done = r.done
             /\ Off(r).of # 0 => Off(r) = r /\ r.group # g.id
  BY DEF Placement
<1> HIDE DEF Off
<1>3. \A t \in Tasks : tasks'[t] = Off(tasks[t]) /\ tasks[t] \in Placement
  BY <1>1, EachTask
<1>4. PlanTypeOK'
  BY <1>1, <1>2, <1>3 DEF PlanTypeOK
<1>5. GroupsAreTold'
  BY <1>1 DEF GroupsAreTold
<1>6. HomesInSync'
  BY <1>2, <1>3 DEF HomesInSync
<1>7. ApproversApprove'
  BY <1>2, <1>3 DEF ApproversApprove
<1>8. PlacementIsKept'
  <2> SUFFICES ASSUME NEW t \in Tasks, tasks'[t].of # 0
               PROVE  \E h \in groups' : h.id = tasks'[t].group /\ h.of = tasks'[t].of
    BY DEF PlacementIsKept
  <2>1. tasks'[t] = tasks[t] /\ tasks[t].group # g.id
    BY <1>2, <1>3
  <2>2. PICK h \in groups : h.id = tasks[t].group /\ h.of = tasks[t].of
    BY <2>1 DEF PlacementIsKept
  <2>. QED BY <1>1, <2>1, <2>2
<1>9. SignOffStep /\ DeletionStep
  BY <1>1, <1>2, <1>3 DEF SignOffStep, DeletionStep, CompletedByAll
<1>. QED
  BY <1>4, <1>5, <1>6, <1>7, <1>8, <1>9

\* Whatever number a task is given, it remembers the group that has it.
LEMMA PatchGroupKeeps ==
  ASSUME PlanInv, NEW t \in Tasks, NEW i \in Nat, PatchGroup(t, i)
  PROVE  PlanInv' /\ SignOffStep /\ DeletionStep
<1> DEFINE o == IF \E g \in groups : g.id = i THEN (CHOOSE g \in groups : g.id = i).of ELSE 0
           r == [tasks[t] EXCEPT !.group = i, !.of = o]
<1>1. Set(t, r) /\ UNCHANGED docVars
  BY DEF PatchGroup
<1>2. o = 0 \/ \E g \in groups : g.id = i /\ g.of = o
  OBVIOUS
<1>3. o \in Nat
  BY <1>2 DEF PlanInv, PlanTypeOK
<1> HIDE DEF o
<1>4. tasks[t] \in Placement /\ Synced(tasks[t]) /\ Approved(tasks[t])
  BY EachTask
<1>5. /\ r \in Placement /\ r.group = i /\ r.of = o
      /\ r.project = tasks[t].project /\ r.projects = tasks[t].projects
      /\ r.approvers = tasks[t].approvers /\ r.approvedBy = tasks[t].approvedBy
      /\ r.done = tasks[t].done
  BY <1>3, <1>4 DEF Placement
<1> HIDE DEF r
<1>6. Synced(r) /\ Placed(r) /\ Approved(r) /\ CompletedByAll(tasks[t], r)
  BY <1>2, <1>4, <1>5 DEF Synced, Placed, Approved, CompletedByAll
<1>. QED
  BY <1>1, <1>5, <1>6, TaskSet

\* A request that changes no home and no group of a task.
LEMMA ApprovalSet ==
  ASSUME PlanInv, NEW t \in Tasks, NEW r \in Placement, Set(t, r), UNCHANGED docVars,
         r.project = tasks[t].project, r.projects = tasks[t].projects,
         r.group = tasks[t].group, r.of = tasks[t].of,
         Approved(r), CompletedByAll(tasks[t], r)
  PROVE  PlanInv' /\ SignOffStep /\ DeletionStep
<1>1. Synced(r) /\ Placed(r)
  BY EachTask DEF Synced, Placed
<1>. QED
  BY <1>1, TaskSet

LEMMA PatchTypeDoneKeeps ==
  ASSUME PlanInv, NEW t \in Tasks, NEW b \in BOOLEAN, NEW d \in BOOLEAN, PatchTypeDone(t, b, d)
  PROVE  PlanInv' /\ SignOffStep /\ DeletionStep
<1> DEFINE r == [tasks[t] EXCEPT !.approval = b, !.done = d]
<1>1. tasks[t] \in Placement /\ Approved(tasks[t])
  BY EachTask
<1>2. /\ r \in Placement /\ r.project = tasks[t].project /\ r.projects = tasks[t].projects
      /\ r.group = tasks[t].group /\ r.of = tasks[t].of
      /\ r.approvers = tasks[t].approvers /\ r.approvedBy = tasks[t].approvedBy
  BY <1>1 DEF Placement
<1>3. Set(t, r) /\ UNCHANGED docVars
  BY DEF PatchTypeDone
<1> HIDE DEF r
<1>4. Approved(r) /\ CompletedByAll(tasks[t], r)
  BY <1>1, <1>2 DEF Approved, CompletedByAll
<1>. QED
  BY <1>2, <1>3, <1>4, ApprovalSet

LEMMA RejectTaskKeeps ==
  ASSUME PlanInv, NEW t \in Tasks, NEW a \in Actors, RejectTask(t, a)
  PROVE  PlanInv' /\ SignOffStep /\ DeletionStep
<1> DEFINE r == [tasks[t] EXCEPT !.done = FALSE, !.approvedBy = << >>]
<1>1. tasks[t] \in Placement /\ Approved(tasks[t])
  BY EachTask
<1>2. << >> \in Seq(Actors)
  OBVIOUS
<1>3. /\ r \in Placement /\ r.project = tasks[t].project /\ r.projects = tasks[t].projects
      /\ r.group = tasks[t].group /\ r.of = tasks[t].of
      /\ r.approvers = tasks[t].approvers /\ r.approvedBy = << >> /\ r.done = FALSE
  BY <1>1, <1>2 DEF Placement
<1>4. Set(t, r) /\ UNCHANGED docVars
  BY DEF RejectTask
<1> HIDE DEF r
<1>5. Approved(r) /\ CompletedByAll(tasks[t], r)
  BY <1>1, <1>3 DEF Approved, CompletedByAll, IsInjective, ToSet
<1>. QED
  BY <1>3, <1>4, <1>5, ApprovalSet

\* An approver's approval is added where it is not there yet; with the last
\* one as many have approved as were named, and those are all of them.
LEMMA ApproveTaskKeeps ==
  ASSUME PlanInv, NEW t \in Tasks, NEW a \in Actors, ApproveTask(t, a)
  PROVE  PlanInv' /\ SignOffStep /\ DeletionStep
<1> DEFINE q == tasks[t]
           by == Append(q.approvedBy, a)
           s == [q EXCEPT !.approvedBy = by]
           e == [s EXCEPT !.done = TRUE]
           r == Approve(q, a)
<1>1. q \in Placement /\ Approved(q)
  BY EachTask
<1>2. a \in ToSet(q.approvers) /\ Set(t, r) /\ UNCHANGED docVars
  BY DEF ApproveTask
<1>3. CASE a \in ToSet(q.approvedBy)
  <2>1. r = q
    BY <1>3 DEF Approve
  <2>2. CompletedByAll(q, q)
    BY DEF CompletedByAll
  <2>. QED BY <1>1, <1>2, <2>1, <2>2, ApprovalSet
<1>4. CASE a \notin ToSet(q.approvedBy)
  <2>1. r = IF Len(by) >= Len(q.approvers) THEN e ELSE s
    <3>1. s.approvedBy = by /\ s.approvers = q.approvers
      BY <1>1 DEF Placement
    <3>. QED BY <1>4, <3>1 DEF Approve, SignedOff
  <2>2. /\ q.approvedBy \in Seq(Actors) /\ q.approvers \in Seq(Actors)
        /\ IsInjective(q.approvedBy) /\ IsInjective(q.approvers)
        /\ ToSet(q.approvedBy) \subseteq ToSet(q.approvers)
    BY <1>1 DEF Placement, Approved
  <2> DEFINE l == Len(q.approvedBy)
  <2>3. /\ by \in Seq(Actors) /\ l \in Nat /\ DOMAIN q.approvedBy = 1..l
        /\ DOMAIN by = 1..(l + 1) /\ by[l + 1] = a
        /\ \A i \in 1..l : by[i] = q.approvedBy[i]
    BY <2>2
  <2>4. \A i \in 1..(l + 1) : i \in 1..l \/ i = l + 1
    BY <2>3
  <2> HIDE DEF by, l
  <2>5. \A i \in 1..l : by[i] \in ToSet(q.approvedBy) /\ by[i] # a
    BY <1>4, <2>3 DEF ToSet
  <2>6. IsInjective(by)
    <3> SUFFICES ASSUME NEW i \in 1..(l + 1), NEW j \in 1..(l + 1), by[i] = by[j] PROVE i = j
      BY <2>3 DEF IsInjective
    <3>1. CASE i \in 1..l /\ j \in 1..l
      BY <2>2, <2>3, <3>1 DEF IsInjective
    <3>2. CASE i = l + 1 \/ j = l + 1
      BY <2>3, <2>4, <2>5, <3>2
    <3>. QED BY <2>4, <3>1, <3>2
  <2>7. ToSet(by) \subseteq ToSet(q.approvers)
    <3>1. \A i \in DOMAIN by : by[i] \in ToSet(q.approvers)
      BY <1>2, <2>2, <2>3, <2>4, <2>5
    <3>. QED BY <3>1 DEF ToSet
  <2>8. Len(by) >= Len(q.approvers) => ToSet(q.approvers) = ToSet(by)
    BY <2>2, <2>3, <2>6, <2>7, AllAreThere
  <2>9. ASSUME NEW z \in {s, e}
        PROVE  /\ z \in Placement /\ z.project = q.project /\ z.projects = q.projects
               /\ z.group = q.group /\ z.of = q.of
               /\ z.approvers = q.approvers /\ z.approvedBy = by
    BY <1>1, <2>3 DEF Placement
  <2>10. s.done = q.done
    BY <1>1 DEF Placement
  <2>11. r \in {s, e}
    BY <2>1
  <2>12. /\ r \in Placement /\ r.project = q.project /\ r.projects = q.projects
         /\ r.group = q.group /\ r.of = q.of
         /\ r.approvers = q.approvers /\ r.approvedBy = by
    BY <2>9, <2>11
  <2>13. r.done /\ ~q.done => Len(by) >= Len(q.approvers)
    BY <2>1, <2>10
  <2> HIDE DEF s, e, r
  <2>14. Approved(r) /\ CompletedByAll(q, r)
    BY <2>2, <2>6, <2>7, <2>8, <2>12, <2>13 DEF Approved, CompletedByAll
  <2>. QED BY <1>2, <2>12, <2>14, ApprovalSet
<1>. QED
  BY <1>3, <1>4

\* The approvals of those who are still named are kept.
LEMMA SetApproversKeeps ==
  ASSUME PlanInv, NEW t \in Tasks, NEW list \in Lists(Actors \cup {Blank}), SetApprovers(t, list)
  PROVE  PlanInv' /\ SignOffStep /\ DeletionStep
<1> DEFINE q == tasks[t]
           as == dedupeNonEmpty(list)
           K == {i \in DOMAIN q.approvedBy : q.approvedBy[i] \in ToSet(as)}
           by == Kept(q.approvedBy, K)
           s == [q EXCEPT !.approvers = as, !.approvedBy = by]
           e == [s EXCEPT !.done = TRUE]
           r == IF s.approval /\ as # << >> /\ SignedOff(s) THEN e ELSE s
<1>1. q \in Placement /\ Approved(q)
  BY EachTask
<1>2. Set(t, r) /\ UNCHANGED docVars
  BY DEF SetApprovers
<1>3. /\ as \in Seq(Actors) /\ IsInjective(as)
  <2>1. list \in Seq(Actors \cup {Blank})
    BY ListsAreSequences
  <2>2. as \in Seq((Actors \cup {Blank}) \ {Blank}) /\ IsInjective(as)
    BY <2>1, DedupeSpec
  <2>3. (Actors \cup {Blank}) \ {Blank} = Actors
    BY PlanningAssumption
  <2>. QED BY <2>2, <2>3
<1> HIDE DEF as
<1>4. /\ by \in Seq(Actors) /\ IsInjective(by) /\ ToSet(by) \subseteq ToSet(as)
  <2>1. /\ q.approvedBy \in Seq(Actors) /\ K \in SUBSET DOMAIN q.approvedBy
        /\ \A i \in K : q.approvedBy[i] \in Actors /\ q.approvedBy[i] \in ToSet(as)
    <3>1. q.approvedBy \in Seq(Actors)
      BY <1>1 DEF Placement
    <3>2. \A i \in DOMAIN q.approvedBy : q.approvedBy[i] \in Actors
      BY <3>1
    <3> HIDE DEF q
    <3>. QED BY <3>1, <3>2
  <2>2. \A i, j \in K : q.approvedBy[i] = q.approvedBy[j] => i = j
    BY <1>1 DEF Approved, IsInjective
  <2> HIDE DEF K, q
  <2>3. IsInjective(by)
    BY <2>1, <2>2, KeptEntries
  <2>4. by \in Seq(Actors)
    BY <2>1, KeptIsList
  <2>5. ToSet(by) \subseteq ToSet(as)
    BY <2>1, KeptIsList
  <2>. QED BY <2>3, <2>4, <2>5
<1> HIDE DEF by, K
<1>5. Len(by) >= Len(as) => ToSet(as) = ToSet(by)
  BY <1>3, <1>4, AllAreThere
<1>6. ASSUME NEW z \in {s, e}
      PROVE  /\ z \in Placement /\ z.project = q.project /\ z.projects = q.projects
             /\ z.group = q.group /\ z.of = q.of
             /\ z.approvers = as /\ z.approvedBy = by
  BY <1>1, <1>3, <1>4 DEF Placement
<1>7. s.done = q.done /\ s.approvers = as /\ s.approvedBy = by
  BY <1>1 DEF Placement
<1>8. r \in {s, e}
  OBVIOUS
<1>9. /\ r \in Placement /\ r.project = q.project /\ r.projects = q.projects
      /\ r.group = q.group /\ r.of = q.of
      /\ r.approvers = as /\ r.approvedBy = by
  BY <1>6, <1>8
<1>10. r.done /\ ~q.done => Len(by) >= Len(as)
  BY <1>7 DEF SignedOff
<1> HIDE DEF s, e, r
<1>11. Approved(r) /\ CompletedByAll(q, r)
  BY <1>3, <1>4, <1>5, <1>9, <1>10 DEF Approved, CompletedByAll
<1>. QED
  BY <1>2, <1>9, <1>11, ApprovalSet

LEMMA PlanStep ==
  ASSUME PlanInv, [PlanNext]_planVars
  PROVE  PlanInv' /\ [SignOffStep]_planVars /\ [DeletionStep]_planVars
<1>1. ASSUME PlanNext
      PROVE  PlanInv' /\ SignOffStep /\ DeletionStep
  <2> DEFINE Done == PlanInv' /\ SignOffStep /\ DeletionStep
  <2>1. ASSUME NEW p \in ProjectIds, PutProject(p) \/ DeleteProject(p) \/ CreateGroup(p)
        PROVE  Done
    BY <2>1, PutProjectKeeps, DeleteProjectKeeps, CreateGroupKeeps
  <2>2. ASSUME NEW g \in groups, DeleteGroup(g) PROVE Done
    BY <2>2, DeleteGroupKeeps
  <2>3. ASSUME NEW t \in Tasks,
               \/ \E p \in ProjectIds \cup {Blank} : PatchProject(t, p)
               \/ \E ps \in Lists(ProjectIds \cup {Blank}) : PatchProjects(t, ps)
               \/ \E p \in ProjectIds : AddTaskProject(t, p) \/ RemoveTaskProject(t, p)
        PROVE  Done
    BY <2>3, HomesKeep DEF Homes
  <2>4. ASSUME NEW t \in Tasks, NEW i \in 0..MaxSerial, PatchGroup(t, i) PROVE Done
    BY <2>4, PatchGroupKeeps
  <2>5. ASSUME NEW t \in Tasks, NEW b \in BOOLEAN, NEW d \in BOOLEAN, PatchTypeDone(t, b, d)
        PROVE  Done
    BY <2>5, PatchTypeDoneKeeps
  <2>6. ASSUME NEW t \in Tasks, NEW a \in Actors, ApproveTask(t, a) \/ RejectTask(t, a)
        PROVE  Done
    BY <2>6, ApproveTaskKeeps, RejectTaskKeeps
  <2>7. ASSUME NEW t \in Tasks, NEW list \in Lists(Actors \cup {Blank}), SetApprovers(t, list)
        PROVE  Done
    BY <2>7, SetApproversKeeps
  <2> HIDE DEF Done
  <2>8. Done
    BY <1>1, <2>1, <2>2, <2>3, <2>4, <2>5, <2>6, <2>7 DEF PlanNext
  <2>. QED BY <2>8 DEF Done
<1>2. CASE UNCHANGED planVars
  <2>1. UNCHANGED <<groupKind, projects, groups, serial, tasks>>
    BY <1>2 DEF planVars
  <2>2. PlanInv'
    BY <2>1 DEF PlanInv, PlanTypeOK, HomesInSync, GroupsAreTold, PlacementIsKept, ApproversApprove
  <2>. QED BY <1>2, <2>2
<1>. QED
  BY <1>1, <1>2

\* The invariant of the placements and approvals is inductive.
THEOREM PlanInvariance == PlanSpec => []PlanInv
<1>1. PlanInv /\ [PlanNext]_planVars => PlanInv'
  BY PlanStep
<1>. QED
  BY <1>1, PlanInitInv, PTL DEF PlanSpec

\* Project and Projects of a task agree, whichever handler wrote them last.
THEOREM HomesAgree == PlanSpec => []HomesInSync
<1>1. PlanInv => HomesInSync
  BY DEF PlanInv
<1>. QED
  BY <1>1, PlanInvariance, PTL

\* A task is never found in a section or sprint that got the id of the one
\* it was put into.
THEOREM PlacementsHold == PlanSpec => []PlacementIsMeant
<1>1. PlanInv => PlacementIsMeant
  BY DEF PlanInv, PlacementIsKept, GroupsAreTold, PlacementIsMeant
<1>. QED
  BY <1>1, PlanInvariance, PTL

\* deleteProject leaves no task in the project.
THEOREM DeletionEmpties == PlanSpec => DeletedProjectIsEmpty
<1>1. PlanInv /\ [PlanNext]_planVars => [DeletionStep]_planVars
  BY PlanStep
<1>2. PlanSpec => [][DeletionStep]_planVars
  BY <1>1, PlanInvariance, PTL DEF PlanSpec
<1>. QED
  BY <1>2 DEF DeletedProjectIsEmpty, DeletionStep

\* Approvals complete a task only when everybody named has approved.
THEOREM EveryoneSignedOff == PlanSpec => SignOffNeedsEveryone
<1>1. PlanInv /\ [PlanNext]_planVars => [SignOffStep]_planVars
  BY PlanStep
<1>2. PlanSpec => [][SignOffStep]_planVars
  BY <1>1, PlanInvariance, PTL DEF PlanSpec
<1>. QED
  BY <1>2 DEF SignOffNeedsEveryone, SignOffStep, CompletedByAll
=============================================================================
