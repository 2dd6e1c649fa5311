-------------------------- MODULE PeripheryProofs --------------------------
(***************************************************************************)
(* Proofs about four components that stand around the workspace document   *)
(* and share nothing with each other: the migrations that run before a     *)
(* replica serves, the search index that follows the document, the public  *)
(* links that show a record of it, and the members who may open it.        *)
(*                                                                         *)
(*   - the body of a migration runs in the service's own schema at most    *)
(*     once, after the rows of all earlier files, and a replica serves     *)
(*     only where every file it ships with has its tables, save one whose  *)
(*     name the shared ledger held;                                        *)
(*   - the committed search rows are those of whole versions of the        *)
(*     document, one version of each entity;                               *)
(*   - a withdrawn link is refused a TTL and a timeout later, and what a   *)
(*     link serves was public during the view;                             *)
(*   - whoever joins an organisation gets into its workspaces unless one   *)
(*     of the named failures hits the joining, and whoever was removed is  *)
(*     not let in again by anything but a grant.                           *)
(*                                                                         *)
(* Each part is about the specification of one of the four modules; their  *)
(* variables and definitions have names of their own, so that one module   *)
(* can extend them all.                                                    *)
(***************************************************************************)
EXTENDS Migrate, SearchIndex, ShareLink, Members, SequenceTheorems,
        WellFoundedInduction, TLAPS

-----------------------------------------------------------------------------
(* The migrations.                                                         *)

Rows == {"none", "file", "other"}
Labels == {"start", "seed", "load", "loop", "tx", "exited", "up"}

\* Where a replica is, after Goto.
LEMMA GotoStep ==
  ASSUME TypeOK, NEW r \in Replicas, NEW l \in Labels, NEW n \in 1..(Last + 1), Goto(r, l, n)
  PROVE  /\ pc' \in [Replicas -> Labels] /\ at' \in [Replicas -> 1..(Last + 1)]
         /\ pc'[r] = l /\ at'[r] = n
         /\ \A q \in Replicas \ {r} : pc'[q] = pc[q] /\ at'[q] = at[q]
BY DEF TypeOK, Goto, Labels

\* What a replica knows is not undone by the others: rows stay, and a body
\* comes in with its row.
LEMMA UpKnowsStable ==
  ASSUME TypeOK, NEW q \in Replicas, UpKnows(q),
         pc'[q] = pc[q], at'[q] = at[q], applied'[q] = applied[q],
         \A v \in Versions : ledger[v] # "none" => ledger'[v] # "none",
         \A v \in Versions : runs'[v] > 0 => runs[v] > 0 \/ ledger'[v] # "none",
         hasOwnTables => hasOwnTables'
  PROVE  UpKnows(q)'
<1>1. SeededBelow(at[q]) => SeededBelow(at[q])'
  BY DEF SeededBelow
<1>2. SeededBelow(Release[q] + 1) => SeededBelow(Release[q] + 1)'
  BY DEF SeededBelow
<1>3. \A v \in 1..Release[q] : v \in Versions
  BY MigrateAssumption DEF Versions
<1>. QED
  BY <1>1, <1>2, <1>3 DEF UpKnows

LEMMA TwoFiles == Last \in Nat /\ 1 \in Versions /\ 2 \in Versions
BY MigrateAssumption DEF Versions

-----------------------------------------------------------------------------
(* The initial states.                                                     *)

LEMMA InitInv == Init => IndInv
<1> SUFFICES ASSUME Init PROVE IndInv
  OBVIOUS
<1>1. /\ runs \in [Versions -> 0..1] /\ ledger \in [Versions -> Rows]
      /\ legacy \subseteq Versions /\ public \subseteq Versions
  BY DEF Init, Rows
<1>2. PICK k \in 0..Last, j \in 0..Last :
        /\ 1..k \subseteq legacy
        /\ \A v \in Versions :
             /\ ledger[v] # "none" <=> v <= j
             /\ runs[v] = 1 => v <= k \/ v <= j
             /\ v <= k \/ v <= j => runs[v] = 1 \/ v \in public \/ v = 1
  BY DEF Init
<1>3. k \in Nat /\ j \in Nat /\ Last \in Nat /\ MaxCrashes \in Nat
  BY <1>2, MigrateAssumption
<1>4. \A v \in Versions : v \in Nat /\ v >= 1 /\ (runs[v] > 0 <=> runs[v] = 1)
  BY <1>1, <1>3 DEF Versions
<1>5. TypeOK
  <2>1. runs \in [Versions -> Nat]
    BY <1>1
  <2>2. NoRows \in [Versions -> Rows]
    BY DEF NoRows, Rows
  <2>3. 1 \in 1..(Last + 1) /\ 0 \in 0..MaxCrashes
    BY <1>3
  <2>. QED BY <1>1, <2>1, <2>2, <2>3 DEF TypeOK, Init, Rows
<1>6. LedgerExplained
  <2>1. \A v \in Versions : ledger[v] # "none" => HasTables(v) \/ v \in legacy \/ v = 1
    BY <1>2, <1>4 DEF HasTables
  <2>2. ASSUME NEW v \in Versions, runs[v] > 0 PROVE ledger[v] # "none" \/ v \in legacy
    <3>1. v <= k \/ v <= j
      BY <1>2, <1>4, <2>2
    <3>2. v <= k => v \in 1..k
      BY <1>3, <1>4
    <3>. QED BY <1>2, <3>1, <3>2
  <2>3. 2 <= k \/ 2 <= j => HasTables(1)
    BY <1>2, <1>4, TwoFiles DEF HasTables
  <2>4. ASSUME NEW v \in Versions, runs[v] > 0 PROVE HasTables(1)
    <3>1. CASE v = 1
      BY <2>4, <3>1 DEF HasTables
    <3>2. CASE v # 1
      <4>1. v <= k \/ v <= j
        BY <1>2, <1>4, <2>4
      <4>. QED BY <1>3, <1>4, <2>3, <3>2, <4>1
    <3>. QED BY <3>1, <3>2
  <2>5. ledger[2] # "none" => HasTables(1)
    BY <1>2, <2>3, TwoFiles
  <2>. QED BY <2>1, <2>2, <2>4, <2>5 DEF LedgerExplained, hasOwnTables
<1>7. \A r \in Replicas : UpKnows(r)
  BY DEF Init, UpKnows
<1>. QED
  BY <1>5, <1>6, <1>7 DEF IndInv

-----------------------------------------------------------------------------
(* The steps that only move a replica, or load the ledger.                 *)

\* A replica that moves leaves the rest alone; what it must know where it
\* arrives is left to show.
LEMMA MoveKeeps ==
  ASSUME IndInv, NEW r \in Replicas, NEW l \in Labels, NEW n \in 1..(Last + 1),
         Goto(r, l, n), UNCHANGED <<runs, public, ledger, legacy>>,
         applied' \in [Replicas -> [Versions -> Rows]],
         \A q \in Replicas \ {r} : applied'[q] = applied[q],
         crashes' \in 0..MaxCrashes,
         UpKnows(r)'
  PROVE  IndInv'
<1> USE DEF IndInv
<1>1. /\ pc' \in [Replicas -> Labels] /\ at' \in [Replicas -> 1..(Last + 1)]
      /\ \A q \in Replicas \ {r} : pc'[q] = pc[q] /\ at'[q] = at[q]
  BY GotoStep
<1>2. TypeOK'
  BY <1>1 DEF TypeOK, Labels, Rows
<1>3. LedgerExplained'
  BY DEF LedgerExplained, HasTables, hasOwnTables
<1>4. ASSUME NEW q \in Replicas, q # r PROVE UpKnows(q)'
  BY <1>1, <1>4, UpKnowsStable DEF hasOwnTables
<1>. QED
  BY <1>2, <1>3, <1>4

\* Facts about the replica that takes a step.
LEMMA Typed ==
  ASSUME TypeOK, NEW r \in Replicas
  PROVE  /\ pc[r] \in Labels /\ at[r] \in 1..(Last + 1) /\ at[r] \in Nat
         /\ Release[r] \in 2..Last /\ Release[r] \in Nat /\ Last \in Nat /\ 1 \in 1..(Last + 1)
         /\ applied \in [Replicas -> [Versions -> Rows]]
         /\ ledger \in [Versions -> Rows]
         /\ crashes \in 0..MaxCrashes
         /\ NoRows \in [Versions -> Rows]
<1>1. NoRows \in [Versions -> Rows]
  BY DEF NoRows, Rows
<1>. QED
  BY <1>1, MigrateAssumption DEF TypeOK, Labels, Rows

LEMMA SeedCheckKeeps ==
  ASSUME IndInv, NEW r \in Replicas, SeedCheck(r) PROVE IndInv'
<1> USE DEF IndInv
<1> USE Typed
<1>1. CASE legacy # {} /\ hasOwnTables
  <2>1. Goto(r, "seed", 1) /\ "seed" \in Labels
    BY <1>1 DEF SeedCheck, Labels
  <2>2. pc'[r] = "seed" /\ at'[r] = 1
    BY <2>1, GotoStep
  <2>3. UpKnows(r)'
    BY <1>1, <2>2 DEF UpKnows, SeededBelow, SeedCheck, Versions, hasOwnTables
  <2>. QED
    BY <2>1, <2>3, MoveKeeps DEF SeedCheck
<1>2. CASE ~(legacy # {} /\ hasOwnTables)
  <2>1. Goto(r, "load", 1) /\ "load" \in Labels
    BY <1>2 DEF SeedCheck, Labels
  <2>2. pc'[r] = "load"
    BY <2>1, GotoStep
  <2>3. SeededBelow(Release[r] + 1)
    <3>1. CASE legacy = {}
      BY <3>1 DEF SeededBelow, LedgerExplained
    <3>2. CASE ~hasOwnTables
      BY <3>2 DEF SeededBelow, hasOwnTables
    <3>. QED BY <1>2, <3>1, <3>2
  <2>4. SeededBelow(Release[r] + 1)'
    BY <2>3 DEF SeededBelow, SeedCheck
  <2>5. UpKnows(r)'
    BY <2>2, <2>4 DEF UpKnows
  <2>. QED
    BY <2>1, <2>5, MoveKeeps DEF SeedCheck
<1>. QED
  BY <1>1, <1>2

LEMMA SeedDoneKeeps ==
  ASSUME IndInv, NEW r \in Replicas, SeedDone(r) PROVE IndInv'
<1> USE DEF IndInv
<1> USE Typed
<1>1. Goto(r, "load", 1) /\ "load" \in Labels
  BY DEF SeedDone, Labels
<1>2. pc'[r] = "load"
  BY <1>1, GotoStep
<1>3. SeededBelow(at[r]) /\ at[r] = Release[r] + 1
  BY DEF SeedDone, UpKnows
<1>4. SeededBelow(Release[r] + 1)'
  BY <1>3 DEF SeededBelow, SeedDone
<1>5. UpKnows(r)'
  BY <1>2, <1>4 DEF UpKnows
<1>. QED
  BY <1>1, <1>5, MoveKeeps DEF SeedDone

LEMMA LoadAppliedKeeps ==
  ASSUME IndInv, NEW r \in Replicas, LoadApplied(r) PROVE IndInv'
<1> USE DEF IndInv
<1> USE Typed
<1>1. Goto(r, "loop", 1) /\ "loop" \in Labels
  BY DEF LoadApplied, Labels
<1>2. pc'[r] = "loop" /\ at'[r] = 1
  BY <1>1, GotoStep
<1>3. applied'[r] = ledger /\ applied' \in [Replicas -> [Versions -> Rows]]
  BY DEF LoadApplied
<1>4. SeededBelow(Release[r] + 1)'
  BY DEF SeededBelow, LoadApplied, UpKnows
<1>5. UpKnows(r)'
  BY <1>2, <1>3, <1>4 DEF UpKnows, LoadApplied, Versions
<1>. QED
  BY <1>1, <1>3, <1>5, MoveKeeps DEF LoadApplied

LEMMA SkipKeeps ==
  ASSUME IndInv, NEW r \in Replicas, Skip(r) PROVE IndInv'
<1> USE DEF IndInv
<1> USE Typed
<1>1. Goto(r, "loop", at[r] + 1) /\ "loop" \in Labels /\ at[r] + 1 \in 1..(Last + 1)
  BY DEF Skip, Advance, Labels
<1>2. pc'[r] = "loop" /\ at'[r] = at[r] + 1
  BY <1>1, GotoStep
<1>3. SeededBelow(Release[r] + 1)'
  BY DEF SeededBelow, Skip, UpKnows
<1>4. \A v \in Versions : v < at[r] + 1 \/ applied[r][v] # "none" => ledger[v] # "none"
  <2>1. \A v \in Versions : v < at[r] + 1 => v < at[r] \/ v = at[r]
    BY DEF Versions
  <2>2. at[r] \in Versions /\ applied[r][at[r]] = "file"
    BY DEF Skip, Versions
  <2>. QED BY <2>1, <2>2 DEF Skip, UpKnows
<1>5. UpKnows(r)'
  BY <1>2, <1>3, <1>4 DEF UpKnows, Skip
<1>. QED
  BY <1>1, <1>5, MoveKeeps DEF Skip

LEMMA ExecBodyKeeps ==
  ASSUME IndInv, NEW r \in Replicas, ExecBody(r) PROVE IndInv'
<1> USE DEF IndInv
<1> USE Typed
<1>1. Goto(r, "tx", at[r]) /\ "tx" \in Labels
  BY DEF ExecBody, Labels
<1>2. pc'[r] = "tx" /\ at'[r] = at[r]
  BY <1>1, GotoStep
<1>3. SeededBelow(Release[r] + 1)'
  BY DEF SeededBelow, ExecBody, UpKnows
<1>4. UpKnows(r)'
  BY <1>2, <1>3 DEF UpKnows, ExecBody
<1>. QED
  BY <1>1, <1>4, MoveKeeps DEF ExecBody

LEMMA ServeKeeps ==
  ASSUME IndInv, NEW r \in Replicas, Serve(r) PROVE IndInv'
<1> USE DEF IndInv
<1> USE Typed
<1>1. Goto(r, "up", 1) /\ "up" \in Labels
  BY DEF Serve, Labels
<1>2. pc'[r] = "up"
  BY <1>1, GotoStep
<1>3. \A v \in 1..Release[r] : v \in Versions /\ v < at[r]
  BY DEF Serve, Versions
<1>4. UpKnows(r)'
  BY <1>2, <1>3 DEF UpKnows, Serve
<1>. QED
  BY <1>1, <1>4, MoveKeeps DEF Serve

\* A replica that exits, or starts again, knows nothing.
LEMMA StopKeeps ==
  ASSUME IndInv, NEW r \in Replicas, ApplyConflicts(r) \/ Crash(r) \/ Restart(r) PROVE IndInv'
<1> USE DEF IndInv
<1> USE Typed
<1>1. CASE ApplyConflicts(r)
  <2>1. Goto(r, "exited", 1) /\ "exited" \in Labels
    BY <1>1 DEF ApplyConflicts, Labels
  <2>2. UpKnows(r)'
    BY <2>1, GotoStep DEF UpKnows
  <2>. QED BY <1>1, <2>1, <2>2, MoveKeeps DEF ApplyConflicts
<1>2. CASE Crash(r)
  <2>1. Goto(r, "exited", 1) /\ "exited" \in Labels
    BY <1>2 DEF Crash, Labels
  <2>2. UpKnows(r)'
    BY <2>1, GotoStep DEF UpKnows
  <2>3. crashes' \in 0..MaxCrashes
    BY <1>2, MigrateAssumption DEF Crash
  <2>. QED BY <1>2, <2>1, <2>2, <2>3, MoveKeeps DEF Crash
<1>3. CASE Restart(r)
  <2>1. Goto(r, "start", 1) /\ "start" \in Labels
    BY <1>3 DEF Restart, Labels
  <2>2. UpKnows(r)'
    BY <2>1, GotoStep DEF UpKnows
  <2>3. applied' \in [Replicas -> [Versions -> Rows]] /\ \A q \in Replicas \ {r} : applied'[q] = applied[q]
    BY <1>3 DEF Restart
  <2>. QED BY <1>3, <2>1, <2>2, <2>3, MoveKeeps DEF Restart
<1>. QED
  BY <1>1, <1>2, <1>3

-----------------------------------------------------------------------------
(* The steps that write the ledger.                                        *)

\* A row comes in for a body that ran, or takes the file's checksum.
LEMMA StampKeeps ==
  ASSUME IndInv, NEW r \in Replicas, Seed(r) \/ Restamp(r) PROVE IndInv'
<1> USE DEF IndInv
<1> USE Typed
<1>1. /\ pc[r] \in {"seed", "loop"} /\ at[r] <= Release[r]
      /\ Goto(r, pc[r], at[r] + 1)
      /\ UNCHANGED <<runs, public, legacy, applied, crashes>>
  BY DEF Seed, Restamp, Advance
<1>2. at[r] \in Versions /\ at[r] + 1 \in 1..(Last + 1)
  BY <1>1 DEF Versions
<1>3. /\ ledger' \in [Versions -> Rows]
      /\ \A v \in Versions : ledger[v] # "none" => ledger'[v] # "none"
      /\ \A v \in Versions : v # at[r] => ledger'[v] = ledger[v]
  BY <1>2 DEF Seed, Restamp, Rows
\* The row it writes has its reason.
<1>4. ledger'[at[r]] # "none" => ledger[at[r]] # "none" \/ (at[r] \in legacy /\ hasOwnTables)
  <2>1. CASE Seed(r)
    <3>1. hasOwnTables
      BY <2>1 DEF Seed, UpKnows
    <3>. QED BY <2>1, <3>1 DEF Seed
  <2>2. CASE Restamp(r)
    BY <1>2, <2>2 DEF Restamp, UpKnows
  <2>. QED BY <2>1, <2>2
\* A body that ran in iag_pm has a row once the loop has passed it.
<1>5. runs[at[r]] > 0 => ledger'[at[r]] # "none"
  <2>1. CASE Seed(r)
    <3>1. runs[at[r]] > 0 => ledger[at[r]] # "none" \/ at[r] \in legacy
      BY <1>2 DEF LedgerExplained
    <3>. QED BY <1>2, <1>3, <2>1, <3>1 DEF Seed
  <2>2. CASE Restamp(r)
    BY <1>2, <2>2 DEF Restamp
  <2>. QED BY <2>1, <2>2
<1>6. /\ pc' \in [Replicas -> Labels] /\ at' \in [Replicas -> 1..(Last + 1)]
      /\ pc'[r] = pc[r] /\ at'[r] = at[r] + 1
      /\ \A q \in Replicas \ {r} : pc'[q] = pc[q] /\ at'[q] = at[q]
  BY <1>1, <1>2, GotoStep
<1>7. TypeOK'
  BY <1>1, <1>3, <1>6 DEF TypeOK, Labels, Rows
<1>8. /\ \A v : HasTables(v)' <=> HasTables(v)
      /\ hasOwnTables' <=> hasOwnTables
  BY <1>1 DEF HasTables, hasOwnTables
<1>9. LedgerExplained'
  <2>1. \A v \in Versions : ledger'[v] # "none" => HasTables(v) \/ v \in legacy \/ v = 1
    BY <1>3, <1>4 DEF LedgerExplained
  <2>2. \A v \in Versions : runs[v] > 0 => ledger'[v] # "none" \/ v \in legacy
    BY <1>3 DEF LedgerExplained
  <2>3. hasOwnTables \/ ledger'[2] # "none" => HasTables(1)
    BY <1>3, <1>4, TwoFiles DEF LedgerExplained
  <2>. QED BY <1>1, <1>8, <2>1, <2>2, <2>3 DEF LedgerExplained
<1>10. ASSUME NEW q \in Replicas, q # r PROVE UpKnows(q)'
  BY <1>1, <1>3, <1>6, <1>8, <1>10, UpKnowsStable
<1>11. UpKnows(r)'
  <2>1. \A v \in Versions : v < at[r] + 1 => v < at[r] \/ v = at[r]
    BY DEF Versions
  <2>2. CASE Seed(r)
    <3>1. pc[r] = "seed" /\ hasOwnTables /\ SeededBelow(at[r])
      BY <2>2 DEF Seed, UpKnows
    <3>2. SeededBelow(at[r])'
      BY <1>1, <1>3, <1>5, <1>6, <2>1, <3>1 DEF SeededBelow
    <3>. QED BY <1>1, <1>6, <1>8, <3>1, <3>2 DEF UpKnows
  <2>3. CASE Restamp(r)
    <3>1. pc[r] = "loop" /\ ledger'[at[r]] = "file"
      BY <1>2, <2>3 DEF Restamp
    <3>2. SeededBelow(Release[r] + 1)'
      BY <1>1, <1>3, <3>1 DEF SeededBelow, UpKnows
    <3>3. \A v \in Versions : v < at[r] + 1 \/ applied[r][v] # "none" => ledger'[v] # "none"
      BY <1>3, <2>1, <3>1 DEF UpKnows
    <3>. QED BY <1>1, <1>6, <3>1, <3>2, <3>3 DEF UpKnows
  <2>. QED BY <2>2, <2>3
<1>. QED
  BY <1>7, <1>9, <1>10, <1>11

\* A body is applied where it never was, after the rows of all earlier files:
\* it has none although the shared ledger was taken over.
LEMMA ApplyIsFirst ==
  ASSUME IndInv, NEW r \in Replicas, Apply(r)
  PROVE  /\ at[r] \in Versions /\ at[r] <= Release[r] /\ ledger[at[r]] = "none"
         /\ runs[at[r]] = 0
         /\ \A u \in Versions : u < at[r] => ledger[u] # "none"
<1> USE DEF IndInv
<1>1. at[r] \in Versions /\ at[r] <= Release[r] /\ ledger[at[r]] = "none"
  BY Typed DEF Apply, UpKnows, Versions
<1>2. ~(runs[at[r]] > 0) /\ runs[at[r]] \in Nat
  BY <1>1, Typed DEF Apply, UpKnows, SeededBelow, TypeOK
<1>3. \A u \in Versions : u < at[r] => ledger[u] # "none"
  BY DEF Apply, UpKnows
<1>. QED
  BY <1>1, <1>2, <1>3

LEMMA ApplyKeeps ==
  ASSUME IndInv, NEW r \in Replicas, Apply(r) PROVE IndInv'
<1> USE DEF IndInv
<1> DEFINE n == at[r]
<1>1. /\ n \in Versions /\ n \in Nat /\ n >= 1 /\ n <= Release[r] /\ n + 1 \in 1..(Last + 1)
      /\ runs[n] = 0
      /\ \A u \in Versions : u < n => ledger[u] # "none"
  BY ApplyIsFirst, Typed DEF Versions
<1>2. /\ runs' = [runs EXCEPT ![n] = @ + 1]
      /\ ledger' = [ledger EXCEPT ![n] = "file"]
      /\ Goto(r, "loop", n + 1) /\ "loop" \in Labels
      /\ UNCHANGED <<public, legacy, applied, crashes>>
  BY DEF Apply, Labels
<1>3. /\ runs' \in [Versions -> Nat] /\ runs'[n] = 1
      /\ \A v \in Versions : v # n => runs'[v] = runs[v]
  BY <1>1, <1>2 DEF TypeOK
<1>4. /\ ledger' \in [Versions -> Rows] /\ ledger'[n] = "file"
      /\ \A v \in Versions : v # n => ledger'[v] = ledger[v]
  BY <1>1, <1>2, Typed DEF Rows
<1>5. /\ pc' \in [Replicas -> Labels] /\ at' \in [Replicas -> 1..(Last + 1)]
      /\ pc'[r] = "loop" /\ at'[r] = n + 1
      /\ \A q \in Replicas \ {r} : pc'[q] = pc[q] /\ at'[q] = at[q]
  BY <1>1, <1>2, GotoStep
<1> HIDE DEF n
<1>6. TypeOK'
  BY <1>2, <1>3, <1>4, <1>5 DEF TypeOK, Labels, Rows
<1>7. /\ \A v \in Versions : runs[v] > 0 => runs'[v] > 0
      /\ \A v \in Versions : runs'[v] > 0 => runs[v] > 0 \/ v = n
      /\ hasOwnTables'
  <2>1. runs'[n] > 0
    BY <1>3
  <2>2. \A v \in Versions : runs[v] > 0 => runs'[v] > 0
    BY <1>1, <1>3
  <2>. QED BY <1>1, <1>3, <2>1, <2>2 DEF hasOwnTables
<1>8. \A v \in Versions : HasTables(v) \/ v = n => HasTables(v)'
  BY <1>2, <1>3, <1>7, TwoFiles DEF HasTables
<1>9. LedgerExplained'
  <2>1. \A v \in Versions : ledger'[v] # "none" => HasTables(v)' \/ v \in legacy' \/ v = 1
    BY <1>2, <1>4, <1>8 DEF LedgerExplained
  <2>2. \A v \in Versions : runs'[v] > 0 => ledger'[v] # "none" \/ v \in legacy'
    BY <1>2, <1>4, <1>7 DEF LedgerExplained
  \* The first table is there: this body made it, or came after the second.
  <2>3. HasTables(1)'
    <3>1. CASE n = 1
      BY <1>8, <3>1, TwoFiles
    <3>2. CASE n = 2
      <4>1. runs'[2] > 0
        BY <1>3, <3>2
      <4>. QED BY <4>1 DEF HasTables
    <3>3. CASE n > 2
      <4>1. ledger[2] # "none"
        BY <1>1, <3>3, TwoFiles
      <4>2. HasTables(1)
        BY <4>1 DEF LedgerExplained
      <4>. QED BY <1>8, <4>2, TwoFiles
    <3>. QED BY <1>1, <3>1, <3>2, <3>3
  <2>. QED BY <2>1, <2>2, <2>3 DEF LedgerExplained
<1>10. ASSUME NEW q \in Replicas, q # r PROVE UpKnows(q)'
  <2>1. \A v \in Versions : runs'[v] > 0 => runs[v] > 0 \/ ledger'[v] # "none"
    BY <1>4, <1>7
  <2>. QED BY <1>2, <1>4, <1>5, <1>7, <1>10, <2>1, UpKnowsStable
<1>11. UpKnows(r)'
  <2>1. pc[r] = "tx" /\ SeededBelow(Release[r] + 1)
    BY DEF Apply, UpKnows
  <2>2. SeededBelow(Release[r] + 1)'
    BY <1>4, <1>7, <2>1 DEF SeededBelow
  <2>3. \A v \in Versions : v < n + 1 => v < n \/ v = n
    BY <1>1 DEF Versions
  <2>4. \A v \in Versions : v < n + 1 \/ applied[r][v] # "none" => ledger'[v] # "none"
    BY <1>4, <2>1, <2>3 DEF UpKnows, n
  <2>5. n + 1 <= Release[r] + 1
    BY <1>1, Typed DEF Versions
  <2>. QED BY <1>2, <1>5, <2>2, <2>4, <2>5 DEF UpKnows
<1>. QED
  BY <1>6, <1>9, <1>10, <1>11

-----------------------------------------------------------------------------

LEMMA NextInv == IndInv /\ [Next]_vars => IndInv'
<1> SUFFICES ASSUME IndInv, [Next]_vars PROVE IndInv'
  OBVIOUS
<1>1. ASSUME NEW r \in Replicas, Up(r) \/ Crash(r) PROVE IndInv'
  BY <1>1, SeedCheckKeeps, StampKeeps, SeedDoneKeeps, LoadAppliedKeeps, SkipKeeps,
     ExecBodyKeeps, ApplyKeeps, ServeKeeps, StopKeeps DEF Up
<1>2. CASE UNCHANGED vars
  BY <1>2 DEF vars, IndInv, TypeOK, LedgerExplained, UpKnows, SeededBelow, HasTables,
              hasOwnTables
<1>. QED
  BY <1>1, <1>2 DEF Next

\* The inductive invariant holds throughout every run of the replicas' Up.
THEOREM Invariance == Spec => []IndInv
BY InitInv, NextInv, PTL DEF Spec

\* The state keeps its types: in particular a loop never leaves the files of
\* the newest release.
THEOREM TypeCorrect == Spec => []TypeOK
<1>1. IndInv => TypeOK
  BY DEF IndInv
<1>. QED
  BY <1>1, Invariance, PTL

\* Only apply runs a body.
LEMMA BodyStep ==
  ASSUME IndInv, [Next]_vars, NEW v \in Versions, runs'[v] # runs[v]
  PROVE  runs[v] = 0 /\ \A u \in Versions : u < v => ledger[u] # "none"
<1>1. CASE UNCHANGED vars
  BY <1>1 DEF vars
<1>2. ASSUME NEW r \in Replicas, Up(r) \/ Crash(r)
      PROVE  Apply(r) \/ runs' = runs
  BY <1>2 DEF Up, SeedCheck, Seed, SeedDone, LoadApplied, Skip, Restamp, ExecBody,
              ApplyConflicts, Serve, Crash, Restart
<1>3. ASSUME NEW r \in Replicas, Apply(r)
      PROVE  runs[v] = 0 /\ \A u \in Versions : u < v => ledger[u] # "none"
  <2>1. v = at[r]
    BY <1>3 DEF Apply, IndInv, TypeOK
  <2>. QED BY <1>3, <2>1, ApplyIsFirst
<1>. QED
  BY <1>1, <1>2, <1>3 DEF Next

\* migrate.Up runs the body of a migration once in iag_pm and after the rows of
\* all earlier files, however many replicas of whatever releases start, race
\* and crash, and whatever the two ledgers held before.
THEOREM RunOnceInOrder == Spec => BodiesRunOnceInOrder
<1>1. IndInv /\ [Next]_vars =>
        [\A v \in Versions : runs'[v] # runs[v] =>
           runs[v] = 0 /\ \A u \in Versions : u < v => ledger[u] # "none"]_vars
  BY BodyStep
<1>. QED
  BY <1>1, Invariance, PTL DEF Spec, BodiesRunOnceInOrder

\* A replica that serves has the tables it ships with, except those of a name
\* in the shared ledger, and always the first; a row of the ledger stands for
\* a body that ran or such a name.
THEOREM ServesMigrated == Spec => []ServingMeansMigrated
<1>1. IndInv => ServingMeansMigrated
  <2> SUFFICES ASSUME IndInv PROVE ServingMeansMigrated
    OBVIOUS
  <2>1. \A v \in Versions : ledger[v] # "none" => HasTables(v) \/ v \in legacy \/ v = 1
    BY DEF IndInv, LedgerExplained
  <2>2. ASSUME NEW r \in Replicas, pc[r] = "up", NEW v \in 1..Release[r]
        PROVE  HasTables(v) \/ (v \in legacy /\ v # 1)
    <3>1. v \in Versions /\ 2 \in 1..Release[r]
      BY MigrateAssumption DEF Versions
    <3>2. ledger[v] # "none" /\ ledger[2] # "none"
      BY <2>2, <3>1 DEF IndInv, UpKnows
    <3>3. HasTables(1)
      BY <3>2 DEF IndInv, LedgerExplained
    <3>. QED BY <2>1, <3>1, <3>2, <3>3
  <2>. QED BY <2>1, <2>2 DEF ServingMeansMigrated
<1>. QED
  BY <1>1, Invariance, PTL

-----------------------------------------------------------------------------
(* The search index.  SearchInv says how far each rebuild is; its core is  *)
(* that a version is met and deleted as a whole, and that two rows of one  *)
(* key are never both in.                                                  *)

LEMMA BuiltRows ==
  ASSUME NEW es \in SUBSET Entities, NEW v \in Nat
  PROVE  /\ buildRows(es, v) \subseteq Row
         /\ \A r \in buildRows(es, v) : r.ver = v
         /\ \A x \in es : \E r \in buildRows(es, v) : r.entity = x
         /\ \A r, s \in buildRows(es, v) : r.entity = s.entity => r = s
<1> DEFINE R(x) == [entity |-> x, ver |-> v]
<1>1. \A x \in es : R(x) \in Row /\ R(x).ver = v /\ R(x).entity = x
  BY DEF Row
<1>2. buildRows(es, v) = {R(x) : x \in es}
  BY DEF buildRows
<1> HIDE DEF R
<1>. QED
  BY <1>1, <1>2

\* The rows of a version of the document.
LEMMA VersionRows ==
  ASSUME SearchTypeOK, NEW v \in DOMAIN docs
  PROVE  /\ RowsOf(v) \subseteq Row
         /\ \A r \in RowsOf(v) : r.ver = v
         /\ \A x \in docs[v] : \E r \in RowsOf(v) : r.entity = x
         /\ \A r, s \in RowsOf(v) : r.entity = s.entity => r = s
<1>1. docs[v] \in SUBSET Entities /\ v \in Nat
  BY DEF SearchTypeOK
<1>. QED
  BY <1>1, BuiltRows DEF RowsOf

LEMMA SearchInitInv ==
  ASSUME SearchInit PROVE SearchInv
<1> USE DEF SearchInit
<1>1. docs \in Seq(SUBSET Entities) /\ Len(docs) = 1
  <2>1. PICK es \in SUBSET Entities : docs = <<es>>
    OBVIOUS
  <2>. QED BY <2>1
<1>2. SearchTypeOK
  BY <1>1, SearchAssumption DEF SearchTypeOK
<1>3. VersionsApart /\ RowsAreCommitted /\ IndexIsWhole
  BY DEF VersionsApart, RowsAreCommitted, IndexIsWhole
<1>4. DeletesApart /\ KeysDiffer
  BY DEF DeletesApart, KeysDiffer
<1>5. \A w \in Indexers : InTransaction(w) /\ MeetsWholeVersions(w)
  BY DEF InTransaction, MeetsWholeVersions
<1>. QED
  BY <1>2, <1>3, <1>4, <1>5 DEF SearchInv

\* A commit adds a version that is nobody else's, and changes none.
LEMMA DocsGrow ==
  ASSUME SearchInv, NEW es \in SUBSET Entities,
         docs' = Append(docs, es),
         DOMAIN version' = Indexers,
         \A o \in Indexers : version'[o] = version[o]
                               \/ (version[o] = 0 /\ version'[o] = Len(docs) + 1),
         \A o, p \in Indexers : version'[o] # version[o] /\ version'[p] # version[p] => o = p,
         version' = [o \in Indexers |-> version'[o]],
         other' \in 0..MaxOther,
         UNCHANGED <<index, txn, scan, del, rows, ins>>
  PROVE  SearchInv'
<1> USE DEF SearchInv
<1>1. /\ docs \in Seq(SUBSET Entities) /\ Len(docs) \in Nat
      /\ version \in [Indexers -> 0..Len(docs)]
      /\ DOMAIN docs = 1..Len(docs)
  BY DEF SearchTypeOK
<1>2. /\ docs' \in Seq(SUBSET Entities) /\ Len(docs') = Len(docs) + 1
      /\ DOMAIN docs' = 1..(Len(docs) + 1)
      /\ \A v \in 1..Len(docs) : docs'[v] = docs[v]
  BY <1>1
<1>3. \A v \in DOMAIN docs : v \in DOMAIN docs' /\ docs'[v] = docs[v]
  BY <1>1, <1>2
<1>4. \A v \in DOMAIN docs : RowsOf(v)' = RowsOf(v)
  BY <1>3 DEF RowsOf, buildRows
<1>5. \A o \in Indexers : version'[o] \in 0..Len(docs')
  BY <1>1, <1>2
<1>6. SearchTypeOK'
  BY <1>2, <1>5 DEF SearchTypeOK
<1>7. VersionsApart'
  <2> SUFFICES ASSUME NEW o \in Indexers, NEW p \in Indexers, version'[o] # 0,
                      version'[o] = version'[p]
               PROVE  o = p
    BY DEF VersionsApart
  <2>1. \A q \in Indexers : version[q] <= Len(docs)
    BY <1>1
  <2>2. CASE version'[o] = version[o] /\ version'[p] = version[p]
    BY <2>2 DEF VersionsApart
  <2>3. CASE version'[o] # version[o] /\ version'[p] # version[p]
    BY <2>3
  <2>4. CASE version'[o] # version[o] /\ version'[p] = version[p]
    <3>1. version'[o] = Len(docs) + 1 /\ version'[p] <= Len(docs)
      BY <2>1, <2>4
    <3>. QED BY <1>1, <3>1
  <2>5. CASE version'[o] = version[o] /\ version'[p] # version[p]
    <3>1. version'[p] = Len(docs) + 1 /\ version'[o] <= Len(docs)
      BY <2>1, <2>5
    <3>. QED BY <1>1, <3>1
  <2>. QED BY <2>2, <2>3, <2>4, <2>5
<1>8. \A o \in Indexers : txn[o] # "none" => version'[o] = version[o] /\ version[o] \in DOMAIN docs
  BY <1>1 DEF InTransaction
<1>9. \A r : Committed(r) => Committed(r)'
  BY <1>3, <1>4, <1>8 DEF Committed
<1>10. RowsAreCommitted'
  BY <1>9 DEF RowsAreCommitted
<1>11. \A r \in index : r.ver \in DOMAIN docs
  BY DEF RowsAreCommitted, Committed
<1>12. IndexIsWhole'
  BY <1>4, <1>11 DEF IndexIsWhole
<1>13. DeletesApart' /\ KeysDiffer'
  BY DEF DeletesApart, KeysDiffer, SameKey
<1>14. \A w \in Indexers : InTransaction(w)'
  BY <1>3, <1>4, <1>8 DEF InTransaction
<1>15. \A w \in Indexers : MeetsWholeVersions(w)'
  BY <1>4, <1>11 DEF MeetsWholeVersions
<1>. QED
  BY <1>6, <1>7, <1>10, <1>12, <1>13, <1>14, <1>15

LEMMA CommitsKeep ==
  ASSUME SearchInv, NEW es \in SUBSET Entities,
         CommitOther(es) \/ \E w \in Indexers : Commit(w, es)
  PROVE  SearchInv'
<1>0. version \in [Indexers -> 0..Len(docs)] /\ other \in 0..MaxOther /\ MaxOther \in Nat
  BY SearchAssumption DEF SearchInv, SearchTypeOK
<1>1. CASE CommitOther(es)
  <2>1. other' \in 0..MaxOther
    BY <1>0, <1>1 DEF CommitOther
  <2>. QED BY <1>0, <1>1, <2>1, DocsGrow DEF CommitOther
<1>2. ASSUME NEW w \in Indexers, Commit(w, es) PROVE SearchInv'
  <2>1. /\ version[w] = 0 /\ version' = [version EXCEPT ![w] = Len(docs) + 1]
        /\ docs' = Append(docs, es)
        /\ UNCHANGED <<other, index, txn, scan, del, rows, ins>>
    BY <1>2 DEF Commit
  <2>2. /\ DOMAIN version' = Indexers
        /\ version'[w] = Len(docs) + 1 /\ \A o \in Indexers \ {w} : version'[o] = version[o]
        /\ version' = [o \in Indexers |-> version'[o]]
    BY <1>0, <2>1
  <2>. QED BY <1>0, <2>1, <2>2, DocsGrow
<1>. QED
  BY <1>1, <1>2

\* A step of w's transaction that leaves the documents alone and neither
\* commits nor inserts; what it owes is where w then is.
LEMMA DeletingKeeps ==
  ASSUME SearchInv, NEW w \in Indexers,
         UNCHANGED <<docs, version, other, index>>, UNCHANGED ins,
         txn[w] \in {"none", "delete"}, txn'[w] \in {"delete", "insert"},
         txn' \in [Indexers -> {"none", "delete", "insert", "committed", "failed"}],
         scan' \in [Indexers -> SUBSET Row], del' \in [Indexers -> SUBSET Row],
         rows' \in [Indexers -> SUBSET Row],
         \A o \in Indexers \ {w} : /\ txn'[o] = txn[o] /\ scan'[o] = scan[o]
                                   /\ del'[o] = del[o] /\ rows'[o] = rows[o],
         \A r \in scan'[w] \cup del'[w] : r \in index \cup scan[w] \cup del[w],
         del'[w] \subseteq index,
         \A o \in Indexers \ {w} : del'[w] \cap del[o] = {},
         InTransaction(w)', MeetsWholeVersions(w)'
  PROVE  SearchInv'
<1> USE DEF SearchInv
<1>1. SearchTypeOK'
  BY DEF SearchTypeOK
<1>2. VersionsApart' /\ \A v : RowsOf(v)' = RowsOf(v)
  BY DEF VersionsApart, RowsOf, buildRows
<1>3. \A r : Committed(r) => Committed(r)'
  BY <1>2 DEF Committed
<1>4. RowsAreCommitted'
  BY <1>3 DEF RowsAreCommitted
<1>5. IndexIsWhole' /\ DeletesApart'
  BY <1>2 DEF IndexIsWhole, DeletesApart
<1>6. KeysDiffer'
  <2>1. ins[w] = {}
    BY DEF InTransaction
  <2>. QED BY <2>1 DEF KeysDiffer, SameKey
<1>7. \A o \in Indexers \ {w} : InTransaction(o)' /\ MeetsWholeVersions(o)'
  BY <1>2 DEF InTransaction, MeetsWholeVersions
<1>. QED
  BY <1>1, <1>2, <1>4, <1>5, <1>6, <1>7

LEMMA BeginReindexKeeps ==
  ASSUME SearchInv, NEW w \in Indexers, BeginReindex(w) PROVE SearchInv'
<1> USE DEF SearchInv
<1>1. /\ version[w] # 0 /\ txn[w] = "none"
      /\ txn' = [txn EXCEPT ![w] = "delete"]
      /\ scan' = [scan EXCEPT ![w] = index]
      /\ rows' = [rows EXCEPT ![w] = RowsOf(version[w])]
      /\ UNCHANGED <<docs, version, other, index>> /\ UNCHANGED ins /\ UNCHANGED del
  BY DEF BeginReindex, docVars, RowsOf
<1>2. version[w] \in DOMAIN docs
  BY <1>1 DEF SearchTypeOK
<1>3. RowsOf(version[w]) \in SUBSET Row
  BY <1>2, VersionRows
<1>4. /\ txn' \in [Indexers -> {"none", "delete", "insert", "committed", "failed"}]
      /\ scan' \in [Indexers -> SUBSET Row] /\ del' \in [Indexers -> SUBSET Row]
      /\ rows' \in [Indexers -> SUBSET Row]
      /\ txn'[w] = "delete" /\ scan'[w] = index
      /\ rows'[w] = RowsOf(version[w])
      /\ \A o \in Indexers \ {w} : /\ txn'[o] = txn[o] /\ scan'[o] = scan[o]
                                   /\ del'[o] = del[o] /\ rows'[o] = rows[o]
  BY <1>1, <1>3 DEF SearchTypeOK
<1>5. del[w] = {} /\ ins[w] = {}
  BY <1>1 DEF InTransaction
<1>6. \A v : RowsOf(v)' = RowsOf(v)
  BY <1>1 DEF RowsOf, buildRows
<1>7. InTransaction(w)'
  BY <1>1, <1>2, <1>4, <1>5, <1>6 DEF InTransaction
<1>8. MeetsWholeVersions(w)'
  BY <1>1, <1>4, <1>6 DEF MeetsWholeVersions, IndexIsWhole
<1>. QED
  BY <1>1, <1>4, <1>5, <1>7, <1>8, DeletingKeeps

\* A row that is skipped is of a version no row of which is left.
LEMMA DeleteRowKeeps ==
  ASSUME SearchInv, NEW w \in Indexers, NEW r \in scan[w], DeleteRow(w, r)
  PROVE  SearchInv'
<1> USE DEF SearchInv
<1>1. /\ txn[w] = "delete"
      /\ \A o \in Indexers \ {w} : r \notin del[o]
      /\ scan' = [scan EXCEPT ![w] = @ \ {r}]
      /\ del' = [del EXCEPT ![w] = IF r \in index THEN @ \cup {r} ELSE @]
      /\ UNCHANGED <<docs, version, other, index>> /\ UNCHANGED ins /\ UNCHANGED <<txn, rows>>
  BY DEF DeleteRow, docVars
<1>2. r \in Row
  BY DEF SearchTypeOK
<1>3. /\ txn' \in [Indexers -> {"none", "delete", "insert", "committed", "failed"}]
      /\ scan' \in [Indexers -> SUBSET Row] /\ del' \in [Indexers -> SUBSET Row]
      /\ rows' \in [Indexers -> SUBSET Row]
      /\ scan'[w] = scan[w] \ {r}
      /\ del'[w] = IF r \in index THEN del[w] \cup {r} ELSE del[w]
      /\ \A o \in Indexers \ {w} : scan'[o] = scan[o] /\ del'[o] = del[o]
  BY <1>1, <1>2 DEF SearchTypeOK
<1>4. InTransaction(w)'
  BY <1>1, <1>3 DEF InTransaction, RowsOf, buildRows
<1>5. \A v : RowsOf(v)' = RowsOf(v)
  BY <1>1 DEF RowsOf, buildRows
<1>6. MeetsWholeVersions(w)'
  <2>1. CASE r \in index
    BY <1>1, <1>3, <1>5, <2>1 DEF MeetsWholeVersions
  <2>2. CASE r \notin index
    <3>1. \A s \in index : r \notin RowsOf(s.ver)
      BY <2>2 DEF IndexIsWhole
    <3>2. scan'[w] \cup del'[w] = (scan[w] \cup del[w]) \ {r}
      BY <1>3, <2>2 DEF DeletesApart
    <3>. QED BY <1>1, <1>5, <3>1, <3>2 DEF MeetsWholeVersions
  <2>. QED BY <2>1, <2>2
<1>7. del'[w] \subseteq index /\ \A o \in Indexers \ {w} : del'[w] \cap del[o] = {}
  BY <1>1, <1>3 DEF DeletesApart
<1>8. \A s \in scan'[w] \cup del'[w] : s \in index \cup scan[w] \cup del[w]
  BY <1>3
<1>. QED
  BY <1>1, <1>3, <1>4, <1>6, <1>7, <1>8, DeletingKeeps

LEMMA DeleteDoneKeeps ==
  ASSUME SearchInv, NEW w \in Indexers, DeleteDone(w) PROVE SearchInv'
<1> USE DEF SearchInv
<1>1. /\ txn[w] = "delete" /\ scan[w] = {} /\ txn' = [txn EXCEPT ![w] = "insert"]
      /\ UNCHANGED <<docs, version, other, index>> /\ UNCHANGED ins /\ UNCHANGED <<scan, del, rows>>
  BY DEF DeleteDone, docVars
<1>2. /\ txn' \in [Indexers -> {"none", "delete", "insert", "committed", "failed"}]
      /\ txn'[w] = "insert" /\ \A o \in Indexers \ {w} : txn'[o] = txn[o]
      /\ scan' \in [Indexers -> SUBSET Row] /\ del' \in [Indexers -> SUBSET Row]
      /\ rows' \in [Indexers -> SUBSET Row]
  BY <1>1 DEF SearchTypeOK
<1>3. InTransaction(w)'
  BY <1>1, <1>2 DEF InTransaction, RowsOf, buildRows
<1>4. MeetsWholeVersions(w)'
  BY <1>1 DEF MeetsWholeVersions, RowsOf, buildRows
<1>5. del'[w] \subseteq index /\ \A o \in Indexers \ {w} : del'[w] \cap del[o] = {}
  BY <1>1 DEF DeletesApart
<1>. QED
  BY <1>1, <1>2, <1>3, <1>4, <1>5, DeletingKeeps

\* The UNIQUE key keeps the new row apart from every other.
LEMMA InsertRowKeeps ==
  ASSUME SearchInv, NEW w \in Indexers, NEW r \in rows[w], InsertRow(w, r)
  PROVE  SearchInv'
<1> USE DEF SearchInv
<1>1. /\ txn[w] = "insert"
      /\ \A o \in Indexers \ {w} : \A s \in ins[o] : s.entity # r.entity
      /\ \A s \in index \ del[w] : s.entity # r.entity
      /\ rows' = [rows EXCEPT ![w] = @ \ {r}]
      /\ ins' = [ins EXCEPT ![w] = @ \cup {r}]
      /\ UNCHANGED <<docs, version, other, index, txn, scan, del>>
  BY DEF InsertRow, docVars, SameKey
<1>2. r \in Row
  BY DEF SearchTypeOK
<1>3. /\ rows' \in [Indexers -> SUBSET Row] /\ ins' \in [Indexers -> SUBSET Row]
      /\ rows'[w] = rows[w] \ {r} /\ ins'[w] = ins[w] \cup {r}
      /\ \A o \in Indexers \ {w} : rows'[o] = rows[o] /\ ins'[o] = ins[o]
  BY <1>1, <1>2 DEF SearchTypeOK
<1>4. SearchTypeOK'
  BY <1>1, <1>3 DEF SearchTypeOK
<1>5. VersionsApart' /\ \A v : RowsOf(v)' = RowsOf(v)
  BY <1>1 DEF VersionsApart, RowsOf, buildRows
<1>6. \A s : Committed(s) => Committed(s)'
  BY <1>1, <1>5 DEF Committed
<1>7. RowsAreCommitted' /\ IndexIsWhole' /\ DeletesApart'
  BY <1>1, <1>5, <1>6 DEF RowsAreCommitted, IndexIsWhole, DeletesApart
<1>8. \A o \in Indexers : InTransaction(o)'
  BY <1>1, <1>3, <1>5 DEF InTransaction
<1>9. \A o \in Indexers : MeetsWholeVersions(o)'
  BY <1>1, <1>5 DEF MeetsWholeVersions
<1>10. KeysDiffer'
  <2> SUFFICES ASSUME NEW o \in Indexers, NEW s \in ins'[o]
               PROVE  /\ \A t \in index \ del[o] : t.entity # s.entity
                      /\ \A p \in Indexers \ {o} : \A t \in ins'[p] : t.entity # s.entity
    BY <1>1 DEF KeysDiffer, SameKey
  <2>1. CASE o = w /\ s = r
    BY <1>1, <1>3, <2>1
  <2>2. CASE ~(o = w /\ s = r)
    <3>1. s \in ins[o]
      BY <1>3, <2>2
    <3>2. /\ \A t \in index \ del[o] : t.entity # s.entity
          /\ \A p \in Indexers \ {o} : \A t \in ins[p] : t.entity # s.entity
      BY <3>1 DEF KeysDiffer, SameKey
    <3>3. o # w => r.entity # s.entity
      BY <1>1, <3>1
    <3>. QED BY <1>3, <3>2, <3>3
  <2>. QED BY <2>1, <2>2
<1>. QED
  BY <1>4, <1>5, <1>7, <1>8, <1>9, <1>10

\* A commit takes whole versions out and puts one in, with rows no other
\* transaction has seen.
LEMMA CommitReindexKeeps ==
  ASSUME SearchInv, NEW w \in Indexers, CommitReindex(w)
  PROVE  SearchInv'
<1> USE DEF SearchInv
<1>1. /\ txn[w] = "insert" /\ rows[w] = {}
      /\ index' = (index \ del[w]) \cup ins[w]
      /\ txn' = [txn EXCEPT ![w] = "committed"]
      /\ del' = [del EXCEPT ![w] = {}] /\ ins' = [ins EXCEPT ![w] = {}]
      /\ UNCHANGED <<docs, version, other, scan, rows>>
  BY DEF CommitReindex, docVars
<1>2. /\ version[w] \in DOMAIN docs /\ scan[w] = {} /\ ins[w] = RowsOf(version[w])
      /\ version[w] # 0
  <2>1. DOMAIN docs = 1..Len(docs) /\ Len(docs) \in Nat
    BY DEF SearchTypeOK
  <2>2. version[w] \in DOMAIN docs /\ scan[w] = {} /\ ins[w] = RowsOf(version[w])
    BY <1>1 DEF InTransaction
  <2>. QED BY <2>1, <2>2
<1>3. /\ txn' \in [Indexers -> {"none", "delete", "insert", "committed", "failed"}]
      /\ del' \in [Indexers -> SUBSET Row] /\ ins' \in [Indexers -> SUBSET Row]
      /\ txn'[w] = "committed" /\ del'[w] = {} /\ ins'[w] = {}
      /\ \A o \in Indexers \ {w} : txn'[o] = txn[o] /\ del'[o] = del[o] /\ ins'[o] = ins[o]
  BY <1>1 DEF SearchTypeOK
<1>4. \A v : RowsOf(v)' = RowsOf(v)
  BY <1>1 DEF RowsOf, buildRows
<1>5. /\ \A r \in ins[w] : r.ver = version[w]
      /\ \A r, s \in ins[w] : r.entity = s.entity => r = s
  BY <1>2, VersionRows
<1>6. SearchTypeOK' /\ VersionsApart'
  BY <1>1, <1>3 DEF SearchTypeOK, VersionsApart
<1>7. \A r : Committed(r) => Committed(r)'
  BY <1>1, <1>3, <1>4 DEF Committed
<1>8. \A r \in ins[w] : Committed(r)'
  BY <1>1, <1>2, <1>3, <1>4, <1>5 DEF Committed
<1>9. RowsAreCommitted'
  <2>1. \A o \in Indexers : \A r \in scan'[o] \cup del'[o] : r \in scan[o] \cup del[o]
    BY <1>1, <1>3
  <2>. QED BY <1>1, <1>7, <1>8, <2>1 DEF RowsAreCommitted
\* What stays was met in no part.
<1>10. ASSUME NEW r \in index \ del[w] PROVE RowsOf(r.ver) \subseteq index \ del[w]
  <2>1. r \in RowsOf(r.ver) /\ r.ver \in DOMAIN docs /\ RowsOf(r.ver) \subseteq index
    BY DEF RowsAreCommitted, Committed, IndexIsWhole
  <2>2. ASSUME NEW s \in RowsOf(r.ver), s \in del[w] PROVE FALSE
    <3>1. s.ver = r.ver
      BY <2>1, VersionRows
    <3>2. RowsOf(s.ver) \subseteq del[w]
      BY <1>2, <2>1, <2>2 DEF MeetsWholeVersions
    <3>. QED BY <2>1, <3>1, <3>2
  <2>. QED BY <2>1, <2>2
<1>11. IndexIsWhole'
  <2>1. \A r \in ins[w] : RowsOf(r.ver) = ins[w]
    BY <1>2, <1>5
  <2>. QED BY <1>1, <1>4, <1>10, <2>1 DEF IndexIsWhole
<1>12. DeletesApart'
  BY <1>1, <1>3 DEF DeletesApart
<1>13. KeysDiffer'
  <2>1. \A r \in ins[w] : \A s \in index \ del[w] : s.entity # r.entity
    BY DEF KeysDiffer, SameKey
  <2>2. \A r, s \in index' : r.entity = s.entity => r = s
    <3>1. \A r, s \in index : r.entity = s.entity => r = s
      BY DEF KeysDiffer
    <3>. QED BY <1>1, <1>5, <2>1, <3>1
  <2>3. ASSUME NEW o \in Indexers, NEW r \in ins'[o]
        PROVE  /\ \A s \in index' \ del'[o] : s.entity # r.entity
               /\ \A p \in Indexers \ {o} : \A s \in ins'[p] : s.entity # r.entity
    <3>1. o # w /\ r \in ins[o]
      BY <1>3, <2>3
    <3>2. /\ \A s \in index \ del[o] : s.entity # r.entity
          /\ \A p \in Indexers \ {o} : \A s \in ins[p] : s.entity # r.entity
      BY <3>1 DEF KeysDiffer, SameKey
    <3>. QED BY <1>1, <1>3, <3>1, <3>2
  <2>. QED BY <2>2, <2>3 DEF KeysDiffer, SameKey
<1>14. \A o \in Indexers : InTransaction(o)'
  BY <1>1, <1>2, <1>3, <1>4 DEF InTransaction
<1>15. ASSUME NEW o \in Indexers PROVE MeetsWholeVersions(o)'
  <2>1. CASE o = w
    BY <1>1, <1>2, <1>3, <2>1 DEF MeetsWholeVersions
  <2>2. CASE o # w
    <3>1. \A r \in scan[o] \cup del[o] : r.ver # version[w]
      BY <1>1, <1>2 DEF RowsAreCommitted, Committed, VersionsApart
    <3>2. ins[w] \cap (scan[o] \cup del[o]) = {}
      BY <1>5, <3>1
    <3>. QED BY <1>1, <1>3, <1>4, <2>2, <3>2 DEF MeetsWholeVersions
  <2>. QED BY <2>1, <2>2
<1>. QED
  BY <1>6, <1>9, <1>11, <1>12, <1>13, <1>14, <1>15

LEMMA ReindexFailsKeeps ==
  ASSUME SearchInv, NEW w \in Indexers, ReindexFails(w) PROVE SearchInv'
<1> USE DEF SearchInv
<1>1. /\ txn[w] \in {"delete", "insert"} /\ txn' = [txn EXCEPT ![w] = "failed"]
      /\ scan' = [scan EXCEPT ![w] = {}] /\ rows' = [rows EXCEPT ![w] = {}]
      /\ del' = [del EXCEPT ![w] = {}] /\ ins' = [ins EXCEPT ![w] = {}]
      /\ UNCHANGED <<docs, version, other, index>>
  BY DEF ReindexFails, docVars
<1>2. /\ txn'[w] = "failed" /\ scan'[w] = {} /\ del'[w] = {} /\ ins'[w] = {}
      /\ \A o \in Indexers \ {w} : /\ txn'[o] = txn[o] /\ scan'[o] = scan[o] /\ del'[o] = del[o]
                                   /\ ins'[o] = ins[o] /\ rows'[o] = rows[o]
      /\ SearchTypeOK'
  BY <1>1 DEF SearchTypeOK
<1>3. VersionsApart' /\ \A v : RowsOf(v)' = RowsOf(v)
  BY <1>1 DEF VersionsApart, RowsOf, buildRows
<1>4. \A r : Committed(r) => Committed(r)'
  BY <1>1, <1>2, <1>3 DEF Committed
<1>5. RowsAreCommitted' /\ IndexIsWhole' /\ DeletesApart'
  BY <1>1, <1>2, <1>3, <1>4 DEF RowsAreCommitted, IndexIsWhole, DeletesApart
<1>6. KeysDiffer'
  BY <1>1, <1>2 DEF KeysDiffer, SameKey
<1>7. \A o \in Indexers : InTransaction(o)' /\ MeetsWholeVersions(o)'
  BY <1>1, <1>2, <1>3 DEF InTransaction, MeetsWholeVersions
<1>. QED
  BY <1>2, <1>3, <1>5, <1>6, <1>7

LEMMA SearchNextInv ==
  ASSUME SearchInv, [SearchNext]_searchVars
  PROVE  SearchInv'
<1>1. CASE UNCHANGED searchVars
  <2>1. UNCHANGED <<docs, version, other, index, txn, scan, del, rows, ins>>
    BY <1>1 DEF searchVars, docVars
  <2>2. \A v : RowsOf(v)' = RowsOf(v)
    BY <2>1 DEF RowsOf, buildRows
  <2>3. SearchTypeOK' /\ VersionsApart' /\ IndexIsWhole' /\ DeletesApart' /\ KeysDiffer'
    BY <2>1, <2>2 DEF SearchInv, SearchTypeOK, VersionsApart, IndexIsWhole, DeletesApart,
                      KeysDiffer, SameKey
  <2>4. RowsAreCommitted'
    BY <2>1, <2>2 DEF SearchInv, RowsAreCommitted, Committed
  <2>5. \A w \in Indexers : InTransaction(w)' /\ MeetsWholeVersions(w)'
    BY <2>1, <2>2 DEF SearchInv, InTransaction, MeetsWholeVersions
  <2>. QED BY <2>3, <2>4, <2>5 DEF SearchInv
<1>2. CASE SearchNext
  BY <1>2, CommitsKeep, BeginReindexKeeps, DeleteRowKeeps, DeleteDoneKeeps, InsertRowKeeps,
     CommitReindexKeeps, ReindexFailsKeeps DEF SearchNext
<1>. QED
  BY <1>1, <1>2

\* However many rebuilds of the search index overlap or fail, the committed
\* rows are those of whole versions of the document, no two of which show an
\* entity in common.
THEOREM IndexStaysWhole ==
  SearchSpec => []IndexIsWholeVersions
<1>1. SearchInit => SearchInv
  BY SearchInitInv
<1>2. SearchInv /\ [SearchNext]_searchVars => SearchInv'
  BY SearchNextInv
<1>3. SearchInv => IndexIsWholeVersions
  <2> SUFFICES ASSUME SearchInv, NEW r \in index
               PROVE  /\ RowsOf(r.ver) \subseteq index
                      /\ \A s \in index : s.ver # r.ver => docs[r.ver] \cap docs[s.ver] = {}
    BY DEF IndexIsWholeVersions
  <2>1. \A s \in index : s.ver \in DOMAIN docs /\ RowsOf(s.ver) \subseteq index
    BY DEF SearchInv, RowsAreCommitted, Committed, IndexIsWhole
  <2>2. ASSUME NEW s \in index, s.ver # r.ver, NEW x \in docs[r.ver] \cap docs[s.ver]
        PROVE  FALSE
    <3>1. PICK p \in RowsOf(r.ver) : p.entity = x /\ p.ver = r.ver
      BY <2>1, VersionRows DEF SearchInv
    <3>2. PICK q \in RowsOf(s.ver) : q.entity = x /\ q.ver = s.ver
      BY <2>1, VersionRows DEF SearchInv
    <3>3. p = q
      BY <2>1, <3>1, <3>2 DEF SearchInv, KeysDiffer
    <3>. QED BY <2>2, <3>1, <3>2, <3>3
  <2>. QED BY <2>1, <2>2
<1>. QED
  BY <1>1, <1>2, <1>3, PTL DEF SearchSpec

-----------------------------------------------------------------------------
(* Public sharing.  ShareInv is about time: how late a good answer of  *)
(* auth's can be in a cache, and how long a view can then be using it.     *)

ViewLabels == {"keys", "verify", "find", "status", "served", "refused"}
Entry == [ok : BOOLEAN, at : Nat]
Finding == [ws : Ranks, doc : Document]

LEMMA ShareTimes ==
  /\ \A c \in Caches : TTL[c] \in Nat /\ TTL[c] > 0 /\ Timeout[c] \in Nat
  /\ "keys" \in Caches /\ "status" \in Caches
BY ShareAssumption DEF Caches

LEMMA ShareInitInv ==
  ASSUME ShareInit PROVE ShareInv
<1> USE DEF ShareInit
<1>1. ShareTypeOK
  BY DEF ShareTypeOK
<1>2. RequestsInTime /\ OneEntry /\ KeysWereFresh /\ FoundWasShown
  BY DEF RequestsInTime, OneEntry, KeysWereFresh, FoundWasShown, Ended
<1>3. ClockIsLast /\ GoodNewsIsOld /\ ChecksPassed
  BY DEF ClockIsLast, GoodNewsIsOld, ChecksPassed
<1>. QED
  BY <1>1, <1>2, <1>3 DEF ShareInv

\* What Goto does to the views.
LEMMA ViewMoves ==
  ASSUME ShareTypeOK, NEW r \in Views, NEW to \in ViewLabels, Proceed(r, to)
  PROVE  /\ viewPc' \in [Views -> ViewLabels] /\ began' \in [Views -> Nat]
         /\ found' \in [Views -> SUBSET Finding] /\ shown' \in [Views -> SUBSET Ranks]
         /\ viewPc'[r] = to /\ began'[r] <= began[r]
         /\ to # "refused" => /\ began'[r] = began[r] /\ found'[r] = found[r]
                              /\ shown'[r] = shown[r]
         /\ to = "refused" => found'[r] = {}
         /\ \A q \in Views \ {r} : /\ viewPc'[q] = viewPc[q] /\ began'[q] = began[q]
                                   /\ found'[q] = found[q] /\ shown'[q] = shown[q]
<1> USE DEF ShareTypeOK, Finding, ViewLabels
<1>1. viewPc' \in [Views -> ViewLabels] /\ viewPc'[r] = to /\ \A q \in Views \ {r} : viewPc'[q] = viewPc[q]
  BY DEF Proceed
<1>2. CASE to = "refused"
  <2>1. /\ began' = [began EXCEPT ![r] = 0] /\ found' = [found EXCEPT ![r] = {}]
        /\ shown' = [shown EXCEPT ![r] = {}]
    BY <1>2 DEF Proceed
  <2>2. began[r] \in Nat
    OBVIOUS
  <2>. QED BY <1>1, <1>2, <2>1, <2>2
<1>3. CASE to # "refused"
  <2>1. UNCHANGED <<began, found, shown>>
    BY <1>3 DEF Proceed
  <2>2. began[r] \in Nat
    OBVIOUS
  <2>. QED BY <1>1, <1>3, <2>1, <2>2
<1>. QED
  BY <1>2, <1>3

\* A view moves on, and perhaps caches what it was told; it owes the bounds of
\* the place it comes to.
LEMMA ViewKeeps ==
  ASSUME ShareInv, NEW r \in Views,
         NEW to \in {"verify", "find", "served", "refused"}, Proceed(r, to),
         ~Ended(r),
         UNCHANGED <<now, ok, since, records>>,
         cache' \in [Caches -> SUBSET Entry],
         \A c \in Caches :
           \/ cache'[c] = cache[c]
           \/ \E e \in Entry : /\ cache'[c] = {e} /\ e.at = now
                               /\ e.ok /\ ~ok[c] => now <= since[c] + Timeout[c],
         asked' \in [Views -> SUBSET Nat], answer' \in [Views -> SUBSET BOOLEAN],
         asked'[r] = {}, answer'[r] = {},
         \A q \in Views \ {r} : asked'[q] = asked[q] /\ answer'[q] = answer[q],
         to = "verify" => \A x \in cache'["keys"] : began[r] < x.at + TTL["keys"],
         to \in {"find", "served"} => PastCheck(r, "keys"),
         to = "served" => PastCheck(r, "status") /\ Serves(r)
  PROVE  ShareInv'
<1> USE DEF ShareInv
<1>0. to \in ViewLabels
  BY DEF ViewLabels
<1>1. /\ viewPc' \in [Views -> ViewLabels] /\ began' \in [Views -> Nat]
      /\ found' \in [Views -> SUBSET Finding] /\ shown' \in [Views -> SUBSET Ranks]
      /\ viewPc'[r] = to /\ began'[r] <= began[r]
      /\ to # "refused" => began'[r] = began[r] /\ found'[r] = found[r] /\ shown'[r] = shown[r]
      /\ to = "refused" => found'[r] = {}
      /\ \A q \in Views \ {r} : /\ viewPc'[q] = viewPc[q] /\ began'[q] = began[q]
                                /\ found'[q] = found[q] /\ shown'[q] = shown[q]
  BY <1>0, ViewMoves
<1>2. /\ now \in Nat /\ \A c \in Caches : since[c] \in Nat
      /\ \A q \in Views : began[q] \in Nat /\ began'[q] \in Nat
  BY <1>1 DEF ShareTypeOK
<1>3. ShareTypeOK'
  BY <1>1 DEF ShareTypeOK, ViewLabels, Entry, Finding
<1>4. RequestsInTime'
  BY <1>1 DEF RequestsInTime
<1>5. ClockIsLast'
  <2>1. \A c \in Caches : since'[c] <= now' /\ \A x \in cache'[c] : x.at <= now'
    BY <1>2 DEF ClockIsLast
  <2>2. \A q \in Views : began[q] <= now
    BY DEF ClockIsLast
  <2>3. \A q \in Views : began'[q] <= now'
    BY <1>1, <1>2, <2>2
  <2>. QED BY <2>1, <2>3 DEF ClockIsLast
<1>6. GoodNewsIsOld'
  <2> SUFFICES ASSUME NEW c \in Caches, ~ok[c]
               PROVE  /\ \A q \in Views : viewPc'[q] = c /\ TRUE \in answer'[q] =>
                           \A t \in asked'[q] : t <= since[c]
                      /\ \A x \in cache'[c] : x.ok => x.at <= since[c] + Timeout[c]
    BY DEF GoodNewsIsOld
  <2>1. \A q \in Views : viewPc'[q] = c /\ TRUE \in answer'[q] => \A t \in asked'[q] : t <= since[c]
    BY <1>1 DEF GoodNewsIsOld
  <2>2. \A x \in cache'[c] : x.ok => x.at <= since[c] + Timeout[c]
    BY DEF GoodNewsIsOld
  <2>. QED BY <2>1, <2>2
<1>7. OneEntry'
  BY DEF OneEntry
<1>8. KeysWereFresh'
  <2> SUFFICES ASSUME NEW q \in Views, viewPc'[q] = "verify", NEW x \in cache'["keys"]
               PROVE  began'[q] < x.at + TTL["keys"]
    BY DEF KeysWereFresh
  <2>1. CASE q = r
    BY <1>1, <2>1
  <2>2. CASE q # r /\ cache'["keys"] = cache["keys"]
    BY <1>1, <2>2 DEF KeysWereFresh
  <2>3. CASE q # r /\ cache'["keys"] # cache["keys"]
    <3>1. "keys" \in Caches /\ TTL["keys"] \in Nat /\ TTL["keys"] > 0
      BY ShareTimes
    <3>2. x.at = now
      BY <2>3, <3>1
    <3>3. began'[q] <= now
      BY <1>1, <2>3 DEF ClockIsLast
    <3>. QED BY <1>2, <3>1, <3>2, <3>3
  <2>. QED BY <2>1, <2>2, <2>3
<1>9. ChecksPassed'
  BY <1>1 DEF ChecksPassed, PastCheck
<1>10. FoundWasShown'
  <2> SUFFICES ASSUME NEW q \in Views
               PROVE  /\ ~Ended(q)' =>
                           \A w \in Ranks : records[w] = "public" => w \in shown'[q]
                      /\ \A f \in found'[q] : f.doc = "public" => f.ws \in shown'[q]
                      /\ viewPc'[q] = "served" => \E f \in found'[q] : f.doc = "public"
    BY DEF FoundWasShown
  <2>1. CASE q # r
    BY <1>1, <2>1 DEF FoundWasShown, Ended
  <2>2. CASE q = r /\ to = "refused"
    BY <1>1, <2>2 DEF Ended
  <2>3. CASE q = r /\ to = "served"
    BY <1>1, <2>3 DEF FoundWasShown, Ended, Serves
  <2>4. CASE q = r /\ to \in {"verify", "find"}
    BY <1>1, <2>4 DEF FoundWasShown
  <2>. QED BY <2>1, <2>2, <2>3, <2>4
<1>. QED
  BY <1>3, <1>4, <1>5, <1>6, <1>7, <1>8, <1>9, <1>10

\* The three places from which auth's word takes a view, and what it owes there.
LEMMA OutcomeOwes ==
  ASSUME ShareInv, NEW r \in Views, viewPc[r] \in Caches,
         NEW b \in BOOLEAN, b => PastCheck(r, viewPc[r])
  PROVE  /\ Outcome(r, b) \in {"verify", "served", "refused"}
         /\ Outcome(r, b) = "verify" => viewPc[r] = "keys"
         /\ Outcome(r, b) = "served" =>
              /\ PastCheck(r, "keys") /\ PastCheck(r, "status")
              /\ Serves(r)
<1>1. CASE viewPc[r] = "keys"
  BY <1>1 DEF Outcome
<1>2. CASE viewPc[r] = "status"
  <2>1. PastCheck(r, "keys")
    BY <1>2 DEF ShareInv, ChecksPassed
  <2>2. Outcome(r, b) = IF b /\ Serves(r) THEN "served" ELSE "refused"
    BY <1>2 DEF Outcome
  <2>. QED BY <1>2, <2>1, <2>2
<1>. QED
  BY <1>1, <1>2 DEF Caches

\* A fresh entry is used: if it is good, it is younger than TTL at the
\* view's beginning, and came at most a timeout after the withdrawal.
LEMMA FreshBounds ==
  ASSUME ShareInv, NEW r \in Views, NEW c \in Caches,
         NEW x \in cache[c], began[r] < x.at + TTL[c]
  PROVE  x \in Entry /\ (x.ok => PastCheck(r, c))
<1>1. x \in Entry /\ began[r] \in Nat /\ since[c] \in Nat /\ TTL[c] \in Nat /\ Timeout[c] \in Nat
  BY ShareTimes DEF ShareInv, ShareTypeOK, Entry
<1>2. x.at \in Nat
  BY <1>1 DEF Entry
<1>3. x.ok /\ ~ok[c] => x.at <= since[c] + Timeout[c]
  BY DEF ShareInv, GoodNewsIsOld
<1>. QED
  BY <1>1, <1>2, <1>3 DEF PastCheck

LEMMA HitKeeps ==
  ASSUME ShareInv, NEW r \in Views, Hit(r)
  PROVE  ShareInv'
<1> DEFINE c == viewPc[r]
<1>1. PICK x \in cache[c] : Proceed(r, Outcome(r, x.ok))
  BY DEF Hit
<1>2. c \in Caches /\ asked[r] = {} /\ ~Ended(r)
  BY DEF Hit, Asking, Ended, Caches
<1>3. /\ UNCHANGED <<now, ok, since, records>> /\ UNCHANGED <<cache, asked, answer>>
  BY DEF Hit, issuerVars
<1>4. x \in Entry
  BY <1>2 DEF ShareInv, ShareTypeOK, Entry
<1>5. \A y \in cache[c] : y = x
  BY <1>2 DEF ShareInv, OneEntry
<1>6. now < x.at + TTL[c]
  BY <1>5 DEF Hit, Fresh
<1>7. began[r] < x.at + TTL[c]
  <2>1. /\ began[r] \in Nat /\ now \in Nat /\ began[r] <= now
        /\ x.at \in Nat /\ TTL[c] \in Nat
    BY <1>2, <1>4, ShareTimes DEF ShareInv, ShareTypeOK, ClockIsLast, Entry
  <2>. QED BY <1>6, <2>1
<1>8. x.ok \in BOOLEAN /\ (x.ok => PastCheck(r, c))
  BY <1>2, <1>4, <1>7, FreshBounds DEF Entry
<1> DEFINE to == Outcome(r, x.ok)
<1>9. /\ to \in {"verify", "served", "refused"} /\ (to = "verify" => c = "keys")
      /\ to = "served" => /\ PastCheck(r, "keys") /\ PastCheck(r, "status")
                          /\ Serves(r)
  BY <1>2, <1>8, OutcomeOwes
<1>10. /\ asked' \in [Views -> SUBSET Nat] /\ answer' \in [Views -> SUBSET BOOLEAN]
       /\ cache' \in [Caches -> SUBSET Entry] /\ answer[r] = {}
  BY <1>2, <1>3 DEF ShareInv, ShareTypeOK, RequestsInTime, Entry
<1>11. to = "verify" => \A y \in cache'["keys"] : began[r] < y.at + TTL["keys"]
  BY <1>3, <1>5, <1>7, <1>9
<1> HIDE DEF to, c
<1>12. Proceed(r, to) /\ to \in {"verify", "find", "served", "refused"}
       /\ ~(to = "find")
  BY <1>1, <1>9 DEF to, c
<1>. QED
  BY <1>2, <1>3, <1>9, <1>10, <1>11, <1>12, ViewKeeps

LEMMA ReceiveKeeps ==
  ASSUME ShareInv, NEW r \in Views, ReceiveAnswer(r)
  PROVE  ShareInv'
<1> DEFINE c == viewPc[r]
<1>1. PICK b \in answer[r] :
        /\ cache' = [cache EXCEPT ![c] = {[ok |-> b, at |-> now]}]
        /\ Proceed(r, Outcome(r, b))
  BY DEF ReceiveAnswer
<1>2. c \in Caches /\ asked[r] # {} /\ ~Ended(r)
  BY DEF ReceiveAnswer, Asking, Ended, Caches
<1>3. /\ UNCHANGED <<now, ok, since, records>>
      /\ asked' = [asked EXCEPT ![r] = {}] /\ answer' = [answer EXCEPT ![r] = {}]
  BY DEF ReceiveAnswer, issuerVars
<1>4. PICK t \in asked[r] : TRUE
  BY <1>2
<1>5. /\ b \in BOOLEAN /\ t \in Nat /\ now \in Nat /\ began[r] \in Nat /\ since[c] \in Nat
      /\ TTL[c] \in Nat /\ TTL[c] > 0 /\ Timeout[c] \in Nat
  BY <1>2, ShareTimes DEF ShareInv, ShareTypeOK
<1>6. now <= t + Timeout[c] /\ began[r] <= now
  BY DEF ShareInv, RequestsInTime, ClockIsLast
<1>7. b /\ ~ok[c] => t <= since[c]
  BY <1>2 DEF ShareInv, GoodNewsIsOld
<1>8. b /\ ~ok[c] => now <= since[c] + Timeout[c]
  BY <1>5, <1>6, <1>7
<1>9. b => PastCheck(r, c)
  BY <1>5, <1>6, <1>8 DEF PastCheck
<1> DEFINE to == Outcome(r, b)
           e == [ok |-> b, at |-> now]
<1>10. /\ to \in {"verify", "served", "refused"} /\ (to = "verify" => c = "keys")
       /\ to = "served" => /\ PastCheck(r, "keys") /\ PastCheck(r, "status")
                           /\ Serves(r)
  BY <1>2, <1>5, <1>9, OutcomeOwes
<1>11. e \in Entry /\ e.ok = b /\ e.at = now
  BY <1>5 DEF Entry
<1>12. /\ asked' \in [Views -> SUBSET Nat] /\ answer' \in [Views -> SUBSET BOOLEAN]
       /\ asked'[r] = {} /\ answer'[r] = {}
       /\ \A q \in Views \ {r} : asked'[q] = asked[q] /\ answer'[q] = answer[q]
  BY <1>3 DEF ShareInv, ShareTypeOK
<1>13. cache \in [Caches -> SUBSET Entry]
  BY DEF ShareInv, ShareTypeOK, Entry
<1> HIDE DEF to, e, c
<1>14. /\ cache' \in [Caches -> SUBSET Entry] /\ cache'[c] = {e}
       /\ \A d \in Caches \ {c} : cache'[d] = cache[d]
  BY <1>1, <1>2, <1>11, <1>13 DEF e
<1>15. \A d \in Caches :
         \/ cache'[d] = cache[d]
         \/ \E y \in Entry : /\ cache'[d] = {y} /\ y.at = now
                             /\ y.ok /\ ~ok[d] => now <= since[d] + Timeout[d]
  BY <1>8, <1>11, <1>14
<1>16. to = "verify" => \A y \in cache'["keys"] : began[r] < y.at + TTL["keys"]
  BY <1>5, <1>6, <1>10, <1>11, <1>14
<1>17. Proceed(r, to) /\ to \in {"verify", "find", "served", "refused"}
       /\ ~(to = "find")
  BY <1>1, <1>10 DEF to, c
<1>. QED
  BY <1>2, <1>3, <1>10, <1>12, <1>14, <1>15, <1>16, <1>17, ViewKeeps

\* A request that fails refuses the view; so does a record that is nowhere.
LEMMA AskFailsKeeps ==
  ASSUME ShareInv, NEW r \in Views, AskFails(r)
  PROVE  ShareInv'
<1>1. /\ asked' \in [Views -> SUBSET Nat] /\ answer' \in [Views -> SUBSET BOOLEAN]
      /\ asked'[r] = {} /\ answer'[r] = {}
      /\ \A q \in Views \ {r} : asked'[q] = asked[q] /\ answer'[q] = answer[q]
  BY DEF AskFails, ShareInv, ShareTypeOK
<1>2. /\ UNCHANGED <<now, ok, since, records>> /\ UNCHANGED cache
      /\ ~Ended(r) /\ Proceed(r, "refused")
  BY DEF AskFails, issuerVars, Asking, Ended, Caches
<1>3. cache' \in [Caches -> SUBSET Entry]
  BY <1>2 DEF ShareInv, ShareTypeOK, Entry
<1>. QED
  BY <1>1, <1>2, <1>3, ViewKeeps

LEMMA NotAsking ==
  ASSUME ShareInv, NEW r \in Views, viewPc[r] \notin Caches,
         UNCHANGED <<cache, asked, answer>>
  PROVE  /\ asked' \in [Views -> SUBSET Nat] /\ answer' \in [Views -> SUBSET BOOLEAN]
         /\ asked'[r] = {} /\ answer'[r] = {}
         /\ cache' \in [Caches -> SUBSET Entry]
BY DEF ShareInv, ShareTypeOK, RequestsInTime, Entry

\* The keys may have been replaced since the view looked for them; whichever
\* they are, it began before they went stale.
LEMMA VerifyKeeps ==
  ASSUME ShareInv, NEW r \in Views, Verify(r)
  PROVE  ShareInv'
<1>1. PICK x \in cache["keys"] : Proceed(r, IF x.ok THEN "find" ELSE "refused")
  BY DEF Verify
<1>2. /\ UNCHANGED <<now, ok, since, records>> /\ UNCHANGED <<cache, asked, answer>>
      /\ viewPc[r] \notin Caches /\ ~Ended(r)
  BY DEF Verify, issuerVars, Ended, Caches
<1>3. /\ asked' \in [Views -> SUBSET Nat] /\ answer' \in [Views -> SUBSET BOOLEAN]
      /\ asked'[r] = {} /\ answer'[r] = {} /\ cache' \in [Caches -> SUBSET Entry]
  BY <1>2, NotAsking
<1>4. began[r] < x.at + TTL["keys"]
  BY DEF Verify, ShareInv, KeysWereFresh
<1>5. x.ok => PastCheck(r, "keys")
  <2>1. "keys" \in Caches
    BY ShareTimes
  <2>. QED BY <1>4, <2>1, FreshBounds
<1> DEFINE to == IF x.ok THEN "find" ELSE "refused"
<1>6. /\ Proceed(r, to) /\ to \in {"verify", "find", "served", "refused"}
      /\ to # "verify" /\ to # "served" /\ (to = "find" => PastCheck(r, "keys"))
  BY <1>1, <1>5
<1> HIDE DEF to
<1>. QED
  BY <1>2, <1>3, <1>6, ViewKeeps

LEMMA FindKeeps ==
  ASSUME ShareInv, NEW r \in Views, Find(r)
  PROVE  ShareInv'
<1>1. /\ UNCHANGED <<now, ok, since, records>> /\ UNCHANGED <<cache, asked, answer>>
      /\ viewPc[r] \notin Caches /\ ~Ended(r)
  BY DEF Find, issuerVars, Ended, Caches
<1>2. /\ asked' \in [Views -> SUBSET Nat] /\ answer' \in [Views -> SUBSET BOOLEAN]
      /\ asked'[r] = {} /\ answer'[r] = {} /\ cache' \in [Caches -> SUBSET Entry]
  BY <1>1, NotAsking
<1>3. CASE Proceed(r, "refused")
  BY <1>1, <1>2, <1>3, ViewKeeps
<1>4. ASSUME NEW w \in Ranks,
             found' = [found EXCEPT ![r] = {[ws |-> w, doc |-> records[w]]}],
             viewPc' = [viewPc EXCEPT ![r] = "status"],
             UNCHANGED <<began, shown>>
      PROVE  ShareInv'
  <2> USE DEF ShareInv
  <2>1. /\ records[w] \in Document
        /\ [ws |-> w, doc |-> records[w]] \in [ws : Ranks, doc : Document]
    BY DEF ShareTypeOK
  <2>2. /\ viewPc'[r] = "status" /\ \A q \in Views \ {r} : viewPc'[q] = viewPc[q]
        /\ found'[r] = {[ws |-> w, doc |-> records[w]]}
        /\ \A q \in Views \ {r} : found'[q] = found[q]
    BY <1>4 DEF ShareTypeOK
  <2>3. ShareTypeOK'
    BY <1>1, <1>4, <2>1 DEF ShareTypeOK
  <2>4. RequestsInTime' /\ ClockIsLast' /\ OneEntry' /\ KeysWereFresh'
    BY <1>1, <1>2, <1>4, <2>2
       DEF RequestsInTime, ClockIsLast, OneEntry, KeysWereFresh
  <2>5. GoodNewsIsOld'
    BY <1>1, <1>2, <1>4, <2>2 DEF GoodNewsIsOld
  <2>6. viewPc[r] = "find"
    BY DEF Find
  <2>7. ChecksPassed'
    BY <1>1, <1>4, <2>2, <2>6 DEF ChecksPassed, PastCheck
  <2>8. FoundWasShown'
    BY <1>1, <1>4, <2>2, <2>6 DEF FoundWasShown, Ended
  <2>. QED BY <2>3, <2>4, <2>5, <2>7, <2>8
<1>. QED
  BY <1>3, <1>4 DEF Find

\* The clock moves on only while every request is in time.
LEMMA TickKeeps ==
  ASSUME ShareInv, Tick
  PROVE  ShareInv'
<1> USE DEF ShareInv
<1>1. /\ now' = now + 1 /\ now \in Nat
      /\ UNCHANGED <<ok, since, cache, records, viewPc, began, asked, answer, found, shown>>
  BY DEF Tick, viewVars, ShareTypeOK
<1>2. ShareTypeOK'
  BY <1>1 DEF ShareTypeOK
<1>3. RequestsInTime'
  <2>1. \A r \in Views : \A t \in asked[r] :
          /\ t \in Nat /\ viewPc[r] \in Caches /\ Timeout[viewPc[r]] \in Nat
          /\ t <= now /\ now < t + Timeout[viewPc[r]]
    BY ShareTimes DEF Tick, RequestsInTime, ShareTypeOK
  <2>2. \A r \in Views : \A t \in asked[r] : t <= now + 1 /\ now + 1 <= t + Timeout[viewPc[r]]
    BY <1>1, <2>1
  <2>. QED BY <1>1, <2>2 DEF RequestsInTime
<1>4. ClockIsLast'
  <2>1. /\ \A c \in Caches : since[c] \in Nat /\ since[c] <= now
        /\ \A c \in Caches : \A x \in cache[c] : x.at \in Nat /\ x.at <= now
        /\ \A r \in Views : began[r] \in Nat /\ began[r] <= now
    BY DEF ClockIsLast, ShareTypeOK
  <2>. QED BY <1>1, <2>1 DEF ClockIsLast
<1>5. GoodNewsIsOld' /\ OneEntry' /\ KeysWereFresh'
  BY <1>1 DEF GoodNewsIsOld, OneEntry, KeysWereFresh
<1>6. ChecksPassed' /\ FoundWasShown'
  BY <1>1 DEF ChecksPassed, PastCheck, FoundWasShown, Ended
<1>. QED
  BY <1>2, <1>3, <1>4, <1>5, <1>6

\* At the moment of the withdrawal nothing is too old yet.
LEMMA WithdrawKeeps ==
  ASSUME ShareInv, NEW c \in Caches, Withdraw(c)
  PROVE  ShareInv'
<1> USE DEF ShareInv
<1>1. /\ UNCHANGED <<now, cache, records, viewPc, began, asked, answer, found, shown>>
      /\ now \in Nat /\ TTL[c] \in Nat /\ TTL[c] > 0 /\ Timeout[c] \in Nat
  BY ShareTimes DEF Withdraw, viewVars, ShareTypeOK
<1>2. /\ ~ok'[c] /\ since'[c] = now
      /\ \A d \in Caches \ {c} : ok'[d] = ok[d] /\ since'[d] = since[d]
      /\ ok' \in [Caches -> BOOLEAN] /\ since' \in [Caches -> Nat]
  BY <1>1 DEF Withdraw, ShareTypeOK
<1>3. ShareTypeOK'
  BY <1>1, <1>2 DEF ShareTypeOK
<1>4. RequestsInTime' /\ OneEntry' /\ KeysWereFresh' /\ FoundWasShown'
  BY <1>1 DEF RequestsInTime, OneEntry, KeysWereFresh, FoundWasShown,
              Ended
<1>5. ClockIsLast'
  BY <1>1, <1>2 DEF ClockIsLast
<1>6. GoodNewsIsOld'
  <2>1. \A r \in Views : \A t \in asked[r] : t <= now
    BY DEF RequestsInTime
  <2>2. \A x \in cache[c] : x.at \in Nat /\ x.at <= now
    BY DEF ClockIsLast, ShareTypeOK
  <2>3. \A x \in cache[c] : x.at <= now + Timeout[c]
    BY <1>1, <2>2
  <2>. QED BY <1>1, <1>2, <2>1, <2>3 DEF GoodNewsIsOld
<1>7. ChecksPassed'
  <2>1. \A r \in Views : began[r] \in Nat /\ began[r] <= now
    BY DEF ClockIsLast, ShareTypeOK
  <2>2. \A r \in Views : began[r] < now + TTL[c] + Timeout[c]
    BY <1>1, <2>1
  <2>3. \A r \in Views, d \in Caches : PastCheck(r, d) => PastCheck(r, d)'
    BY <1>1, <1>2, <2>2 DEF PastCheck
  <2>. QED BY <1>1, <2>3, ShareTimes DEF ChecksPassed
<1>. QED
  BY <1>3, <1>4, <1>5, <1>6, <1>7

\* An edit that shows the record is seen by every view under way.
LEMMA EditKeeps ==
  ASSUME ShareInv, NEW w \in Ranks, NEW d \in Document, Edit(w, d)
  PROVE  ShareInv'
<1> USE DEF ShareInv
<1>1. /\ UNCHANGED <<now, ok, since, cache, viewPc, began, asked, answer, found>>
      /\ records' = [records EXCEPT ![w] = d]
      /\ shown' = [r \in Views |-> IF d = "public" /\ ~Ended(r)
                                   THEN shown[r] \cup {w} ELSE shown[r]]
  BY DEF Edit, issuerVars, viewVars
<1>2. ShareTypeOK'
  BY <1>1 DEF ShareTypeOK
<1>3. RequestsInTime' /\ ClockIsLast' /\ GoodNewsIsOld' /\ OneEntry'
  BY <1>1 DEF RequestsInTime, ClockIsLast, GoodNewsIsOld, OneEntry
<1>4. KeysWereFresh' /\ ChecksPassed'
  BY <1>1 DEF KeysWereFresh, ChecksPassed, PastCheck
<1>5. FoundWasShown'
  <2>1. /\ records'[w] = d /\ \A v \in Ranks \ {w} : records'[v] = records[v]
        /\ \A r \in Views : /\ shown[r] \subseteq shown'[r]
                            /\ d = "public" /\ ~Ended(r) => w \in shown'[r]
    BY <1>1 DEF ShareTypeOK
  <2>. QED BY <1>1, <2>1 DEF FoundWasShown, Ended
<1>. QED
  BY <1>2, <1>3, <1>4, <1>5

LEMMA OpenKeeps ==
  ASSUME ShareInv, NEW r \in Views, Open(r)
  PROVE  ShareInv'
<1> USE DEF ShareInv
<1>1. /\ UNCHANGED <<now, ok, since, cache, records, asked, answer>>
      /\ now \in Nat /\ viewPc[r] \notin Caches
  BY DEF Open, issuerVars, ShareTypeOK, Ended, Caches
<1>2. /\ viewPc'[r] = "keys" /\ \A q \in Views \ {r} : viewPc'[q] = viewPc[q]
      /\ began'[r] = now /\ \A q \in Views \ {r} : began'[q] = began[q]
      /\ found'[r] = {} /\ \A q \in Views \ {r} : found'[q] = found[q]
      /\ shown'[r] = {w \in Ranks : records[w] = "public"}
      /\ \A q \in Views \ {r} : shown'[q] = shown[q]
  BY DEF Open, ShareTypeOK
<1>3. ShareTypeOK'
  BY <1>1 DEF Open, ShareTypeOK
<1>4. asked[r] = {} /\ answer[r] = {}
  BY <1>1 DEF RequestsInTime
<1>5. RequestsInTime' /\ ClockIsLast' /\ GoodNewsIsOld' /\ OneEntry'
  <2>1. RequestsInTime'
    BY <1>1, <1>2, <1>4 DEF RequestsInTime
  <2>2. ClockIsLast'
    BY <1>1, <1>2 DEF ClockIsLast
  <2>3. GoodNewsIsOld' /\ OneEntry'
    BY <1>1, <1>2, <1>4 DEF GoodNewsIsOld, OneEntry
  <2>. QED BY <2>1, <2>2, <2>3
<1>6. KeysWereFresh' /\ ChecksPassed'
  BY <1>1, <1>2 DEF KeysWereFresh, ChecksPassed, PastCheck
<1>7. FoundWasShown'
  BY <1>1, <1>2 DEF FoundWasShown, Ended
<1>. QED
  BY <1>3, <1>5, <1>6, <1>7

\* Asking, and auth's answer: the request is young, and a good answer is one
\* that auth gives before it withdraws.
LEMMA AskKeeps ==
  ASSUME ShareInv, NEW r \in Views, Ask(r) \/ Answer(r)
  PROVE  ShareInv'
<1> USE DEF ShareInv
<1>1. /\ UNCHANGED <<now, ok, since, cache, records, viewPc, began, found, shown>>
      /\ now \in Nat /\ viewPc[r] \in Caches
  BY DEF Ask, Answer, Asking, issuerVars, ShareTypeOK
<1>2. ClockIsLast' /\ OneEntry' /\ KeysWereFresh' /\ ChecksPassed'
      /\ FoundWasShown'
  BY <1>1 DEF ClockIsLast, OneEntry, KeysWereFresh, ChecksPassed,
              PastCheck, FoundWasShown, Ended
<1>3. CASE Ask(r)
  <2>1. /\ asked' = [asked EXCEPT ![r] = {now}] /\ UNCHANGED answer /\ asked[r] = {}
        /\ answer[r] = {}
    BY <1>1, <1>3 DEF Ask, Asking, RequestsInTime
  <2>2. ShareTypeOK'
    BY <1>1, <2>1 DEF ShareTypeOK
  <2>3. asked'[r] = {now} /\ \A q \in Views \ {r} : asked'[q] = asked[q]
    BY <2>1 DEF ShareTypeOK
  <2>4. now <= now /\ now <= now + Timeout[viewPc[r]]
    BY <1>1, ShareTimes
  <2>5. RequestsInTime'
    BY <1>1, <2>1, <2>3, <2>4 DEF RequestsInTime
  <2>6. GoodNewsIsOld'
    BY <1>1, <2>1, <2>3 DEF GoodNewsIsOld
  <2>. QED BY <1>2, <2>2, <2>5, <2>6
<1>4. CASE Answer(r)
  <2>1. /\ answer' = [answer EXCEPT ![r] = {ok[viewPc[r]]}] /\ UNCHANGED asked /\ asked[r] # {}
    BY <1>4 DEF Answer, Asking
  <2>2. ShareTypeOK'
    BY <1>1, <2>1 DEF ShareTypeOK
  <2>3. answer'[r] = {ok[viewPc[r]]} /\ \A q \in Views \ {r} : answer'[q] = answer[q]
    BY <2>1 DEF ShareTypeOK
  <2>4. RequestsInTime' /\ GoodNewsIsOld'
    BY <1>1, <2>1, <2>3 DEF RequestsInTime, GoodNewsIsOld
  <2>. QED BY <1>2, <2>2, <2>4
<1>. QED
  BY <1>3, <1>4

LEMMA ShareNextInv ==
  ASSUME ShareInv, [ShareNext]_shareVars
  PROVE  ShareInv'
<1>1. CASE Tick
  BY <1>1, TickKeeps
<1>2. ASSUME NEW c \in Caches, Withdraw(c) PROVE ShareInv'
  BY <1>2, WithdrawKeeps
<1>3. ASSUME NEW w \in Ranks, NEW d \in Document, Edit(w, d)
      PROVE  ShareInv'
  BY <1>3, EditKeeps
<1>4. ASSUME NEW r \in Views,
             \/ Open(r) \/ Hit(r) \/ Ask(r) \/ Answer(r)
             \/ ReceiveAnswer(r) \/ AskFails(r) \/ Verify(r) \/ Find(r)
      PROVE  ShareInv'
  BY <1>4, OpenKeeps, HitKeeps, AskKeeps, ReceiveKeeps, AskFailsKeeps, VerifyKeeps, FindKeeps
<1>5. CASE UNCHANGED shareVars
  <2>1. UNCHANGED <<now, ok, since, cache, records, viewPc, began, asked, answer, found, shown>>
    BY <1>5 DEF shareVars, issuerVars, viewVars
  <2>. QED
    BY <2>1 DEF ShareInv, ShareTypeOK, RequestsInTime, ClockIsLast,
                GoodNewsIsOld, OneEntry, KeysWereFresh, ChecksPassed,
                PastCheck, FoundWasShown, Ended
<1>. QED
  BY <1>1, <1>2, <1>3, <1>4, <1>5 DEF ShareNext

(* A public link that auth has withdrawn, or whose key it no longer          *)
(* publishes, is refused to every view that begins a TTL and a timeout later *)
(* (the two caches of PublicShare), however the answers of concurrent views  *)
(* overwrite each other.                                                     *)
THEOREM WithdrawalTakesEffect ==
  ShareSpec => []WithdrawnIsRefused
<1>1. ShareInit => ShareInv
  BY ShareInitInv
<1>2. ShareInv /\ [ShareNext]_shareVars => ShareInv'
  BY ShareNextInv
<1>3. ShareInv => WithdrawnIsRefused
  <2> SUFFICES ASSUME ShareInv, NEW r \in Views, NEW c \in Caches,
                      viewPc[r] = "served", ~ok[c]
               PROVE  began[r] < since[c] + TTL[c] + Timeout[c]
    BY DEF WithdrawnIsRefused
  <2>1. PastCheck(r, "keys") /\ PastCheck(r, "status")
    BY DEF ShareInv, ChecksPassed
  <2>. QED BY <2>1 DEF PastCheck, Caches
<1>. QED
  BY <1>1, <1>2, <1>3, PTL DEF ShareSpec

(* What a public link serves was public, with its creator in the workspace,  *)
(* at some time during the view, though the document it decides on was read  *)
(* before auth was asked (PublicShare).                                      *)
THEOREM ServesWhatWasPublic ==
  ShareSpec => []ServedWasShown
<1>1. ShareInit => ShareInv
  BY ShareInitInv
<1>2. ShareInv /\ [ShareNext]_shareVars => ShareInv'
  BY ShareNextInv
<1>3. ShareInv => ServedWasShown
  BY DEF ShareInv, FoundWasShown, ServedWasShown
<1>. QED
  BY <1>1, <1>2, <1>3, PTL DEF ShareSpec

-----------------------------------------------------------------------------
(* The members.  MembersInv says of everybody in the organisation what is  *)
(* still on its way to them, and of those removed that nothing is.         *)

Event == [kind : Kinds, user : Users]

\* A set of naturals that has an element has a least one.
LEMMA LeastExists ==
  ASSUME NEW T \in SUBSET Nat, T # {}
  PROVE  \E x \in T : \A y \in T : x <= y
<1> DEFINE R == OpToRel(<, Nat)
<1>1. IsWellFoundedOn(R, Nat)
  BY NatLessThanWellFounded, Zenon
<1>2. \A x, y \in Nat : <<y, x>> \in R <=> y < x
  BY Zenon DEF OpToRel
<1> HIDE DEF R
<1>3. PICK x \in T : \A y \in T : ~ (<<y, x>> \in R)
  BY <1>1, WFMin
<1>4. \A y \in T : y \in Nat /\ ~(y < x)
  BY <1>2, <1>3
<1>. QED
  BY <1>3, <1>4

\* ... and one that is bounded has a greatest.
LEMMA GreatestExists ==
  ASSUME NEW n \in Nat, NEW T \in SUBSET (1..n), T # {}
  PROVE  \E x \in T : \A y \in T : y <= x
<1> DEFINE U == {n - y : y \in T}
<1>1. U \in SUBSET Nat /\ U # {}
  <2>1. \A y \in T : n - y \in Nat
    OBVIOUS
  <2>2. PICK y \in T : TRUE
    OBVIOUS
  <2>3. n - y \in U
    OBVIOUS
  <2>. QED BY <2>1, <2>3
<1>2. PICK z \in U : \A y \in U : z <= y
  BY <1>1, LeastExists
<1>3. PICK x \in T : z = n - x
  BY <1>2
<1>4. \A y \in T : n - x <= n - y
  BY <1>2, <1>3
<1>. QED
  BY <1>3, <1>4

\* Setting a flag touches the records that match, and no other field.
LEMMA FlagsSet ==
  ASSUME NEW ms \in Seq(Member), NEW u \in Users, NEW b \in BOOLEAN
  PROVE  /\ SetActiveFlag(ms, u, b) \in Seq(Member)
         /\ DOMAIN SetActiveFlag(ms, u, b) = DOMAIN ms
         /\ \A i \in DOMAIN ms :
              /\ SetActiveFlag(ms, u, b)[i].user = ms[i].user
              /\ ms[i].user = u => SetActiveFlag(ms, u, b)[i].active = b
              /\ NameOf[ms[i].user] # NameOf[u] /\ ms[i].user # u =>
                   SetActiveFlag(ms, u, b)[i] = ms[i]
              /\ ~b /\ SetActiveFlag(ms, u, b)[i].active => ms[i].active
<1> DEFINE F(i) == IF memberMatches(ms[i], u) THEN [ms[i] EXCEPT !.active = b] ELSE ms[i]
<1>1. \A i \in DOMAIN ms :
        /\ F(i) \in Member /\ F(i).user = ms[i].user
        /\ ms[i].user = u => F(i).active = b
        /\ NameOf[ms[i].user] # NameOf[u] /\ ms[i].user # u => F(i) = ms[i]
        /\ ~b /\ F(i).active => ms[i].active
  <2> SUFFICES ASSUME NEW i \in DOMAIN ms
               PROVE  /\ F(i) \in Member /\ F(i).user = ms[i].user
                      /\ ms[i].user = u => F(i).active = b
                      /\ NameOf[ms[i].user] # NameOf[u] /\ ms[i].user # u => F(i) = ms[i]
                      /\ ~b /\ F(i).active => ms[i].active
    OBVIOUS
  <2>1. ms[i] \in Member
    OBVIOUS
  <2>2. CASE memberMatches(ms[i], u)
    <3>1. F(i) = [ms[i] EXCEPT !.active = b]
      BY <2>2
    <3>2. F(i) \in Member /\ F(i).user = ms[i].user /\ F(i).active = b
      BY <2>1, <3>1 DEF Member
    <3>3. ms[i].user = u \/ NameOf[ms[i].user] = NameOf[u]
      BY <2>2 DEF memberMatches
    <3>. QED BY <3>2, <3>3
  <2>3. CASE ~memberMatches(ms[i], u)
    <3>1. F(i) = ms[i] /\ ms[i].user # u
      BY <2>3 DEF memberMatches
    <3>. QED BY <2>1, <3>1
  <2>. QED BY <2>2, <2>3
<1>2. SetActiveFlag(ms, u, b) = [i \in DOMAIN ms |-> F(i)]
  BY DEF SetActiveFlag
<1> HIDE DEF F
<1>3. DOMAIN ms = 1..Len(ms) /\ Len(ms) \in Nat
  OBVIOUS
<1>4. [i \in 1..Len(ms) |-> F(i)] \in Seq(Member)
  BY <1>1, <1>3
<1>. QED
  BY <1>1, <1>2, <1>3, <1>4

\* A user gets a record where they have none.
LEMMA RecordAdded ==
  ASSUME NEW ms \in Seq(Member), NEW u \in Users
  PROVE  LET N == applyOrgMemberAdded(ms, u) IN
         /\ N \in Seq(Member) /\ HasRecord(N, u)
         /\ DOMAIN ms \subseteq DOMAIN N /\ \A i \in DOMAIN ms : N[i] = ms[i]
         /\ \A i \in DOMAIN N \ DOMAIN ms :
              N[i].user = u /\ ~HasRecord(ms, u) /\ i = Len(ms) + 1
<1> DEFINE m == [user |-> u, initials |-> InitialsOf[NameOf[u]], active |-> TRUE]
<1>1. m \in Member /\ m.user = u
  BY DEF Member, InitialsInUse, Names
<1> HIDE DEF m
<1>2. CASE HasRecord(ms, u)
  BY <1>2 DEF applyOrgMemberAdded
<1>3. CASE ~HasRecord(ms, u)
  <2>1. applyOrgMemberAdded(ms, u) = Append(ms, m)
    BY <1>3 DEF applyOrgMemberAdded, m
  <2>2. /\ Append(ms, m) \in Seq(Member) /\ DOMAIN ms = 1..Len(ms) /\ Len(ms) \in Nat
        /\ DOMAIN Append(ms, m) = 1..(Len(ms) + 1)
        /\ \A i \in 1..Len(ms) : Append(ms, m)[i] = ms[i]
        /\ Append(ms, m)[Len(ms) + 1] = m
    BY <1>1
  <2>3. \A i \in (1..(Len(ms) + 1)) \ (1..Len(ms)) : i = Len(ms) + 1
    BY <2>2
  <2>4. HasRecord(Append(ms, m), u)
    BY <1>1, <2>2 DEF HasRecord
  <2>. QED BY <1>1, <1>3, <2>1, <2>2, <2>3, <2>4
<1>. QED
  BY <1>2, <1>3

\* A record put by a request is there, and the others that are still there
\* are where they were.
LEMMA RecordPut ==
  ASSUME NEW ms \in Seq(Member), NEW m \in Member
  PROVE  LET N == PutMember(ms, m) IN
         /\ N \in Seq(Member) /\ HasRecord(N, m.user)
         /\ \A i \in DOMAIN N : N[i] = m \/ (i \in DOMAIN ms /\ N[i] = ms[i])
<1>0. DOMAIN ms = 1..Len(ms) /\ Len(ms) \in Nat
  OBVIOUS
<1> DEFINE T == {i \in DOMAIN ms : ms[i].initials = m.initials}
<1>1. CASE T = {}
  <2>1. PutMember(ms, m) = Append(ms, m)
    BY <1>1 DEF PutMember
  <2>2. /\ Append(ms, m) \in Seq(Member)
        /\ DOMAIN Append(ms, m) = 1..(Len(ms) + 1)
        /\ \A i \in 1..Len(ms) : Append(ms, m)[i] = ms[i]
        /\ Append(ms, m)[Len(ms) + 1] = m
    BY <1>0
  <2>3. \A i \in 1..(Len(ms) + 1) : i \in 1..Len(ms) \/ i = Len(ms) + 1
    BY <1>0
  <2>4. HasRecord(Append(ms, m), m.user)
    BY <1>0, <2>2 DEF HasRecord
  <2>. QED BY <1>0, <2>1, <2>2, <2>3, <2>4
<1>2. CASE T # {}
  <2>1. T \in SUBSET Nat
    BY <1>0
  <2>2. PICK x \in T : \A y \in T : x <= y
    BY <1>2, <2>1, LeastExists
  <2>3. /\ x \in DOMAIN ms /\ ms[x].initials = m.initials
        /\ \A j \in 1..(x - 1) : ms[j].initials # m.initials
    <3>1. x \in 1..Len(ms)
      BY <1>0, <2>2
    <3>2. \A j \in 1..(x - 1) : j \in 1..Len(ms) /\ ~(x <= j)
      BY <1>0, <3>1
    <3>. QED BY <1>0, <2>2, <3>2
  <2> DEFINE F(i) == /\ ms[i].initials = m.initials
                     /\ \A j \in 1..(i - 1) : ms[j].initials # m.initials
             c == CHOOSE i \in DOMAIN ms : F(i)
  <2>4. c \in DOMAIN ms
    <3>1. \E i \in DOMAIN ms : F(i)
      BY <2>3
    <3>. QED BY <3>1
  <2>5. PutMember(ms, m) = [ms EXCEPT ![c] = m]
    BY <2>2 DEF PutMember
  <2> HIDE DEF c
  <2>6. /\ [ms EXCEPT ![c] = m] \in Seq(Member) /\ [ms EXCEPT ![c] = m][c] = m
        /\ DOMAIN [ms EXCEPT ![c] = m] = DOMAIN ms
        /\ \A i \in DOMAIN ms : i # c => [ms EXCEPT ![c] = m][i] = ms[i]
    BY <2>4
  <2>7. HasRecord([ms EXCEPT ![c] = m], m.user)
    BY <2>4, <2>6 DEF HasRecord
  <2>. QED BY <2>5, <2>6, <2>7
<1>. QED
  BY <1>1, <1>2

LEMMA MembersInitInv == MembersInit => MembersInv
<1> SUFFICES ASSUME MembersInit PROVE MembersInv
  OBVIOUS
<1> USE DEF MembersInit
<1>1. MembersTypeOK
  <2>1. log \in Seq([kind : Kinds, user : Users]) /\ Len(log) = 0
    OBVIOUS
  <2>2. members \in [Workspaces -> Seq(Member)]
    OBVIOUS
  <2>. QED BY <2>1, <2>2 DEF MembersTypeOK
<1>2. LeaversStayOut
  BY DEF LeaversStayOut
<1>3. DirectoryIsAnnounced
  BY DEF DirectoryIsAnnounced, OrgEvents
<1>4. MembersAreOnTheWay
  BY DEF MembersAreOnTheWay
<1>5. SingleRecords
  BY DEF SingleRecords, Records
<1>6. HandledInOrder
  BY DEF HandledInOrder
<1>. QED
  BY <1>1, <1>2, <1>3, <1>4, <1>5, <1>6 DEF MembersInv

\* Nobody who was removed is given a row or an active record, and a task only
\* if that is on record.
LEMMA LeaversKept ==
  ASSUME MembersTypeOK, LeaversStayOut, MembersTypeOK',
         \A w \in Workspaces, u \in Users : <<w, u>> \in out' =>
           /\ <<w, u>> \in out
           /\ u \in sql'[w] => u \in sql[w] /\ (<<w, u>> \in stuck => <<w, u>> \in stuck')
           /\ \A i \in DOMAIN members'[w] : members'[w][i].user = u /\ members'[w][i].active =>
                \E j \in DOMAIN members[w] : members[w][j].user = u /\ members[w][j].active
           /\ IsFor(open'[w], u) =>
                \/ <<w, u>> \in tasked'
                \/ open'[w] = open[w] /\ <<w, u>> \notin tasked
  PROVE  LeaversStayOut'
<1>1. \A x \in out' : x[1] \in Workspaces /\ x[2] \in Users /\ x = <<x[1], x[2]>>
  <2>1. out' \subseteq Workspaces \X Users
    BY DEF MembersTypeOK
  <2>. QED BY ONLY <2>1
<1> SUFFICES ASSUME NEW x \in out'
             PROVE  /\ x[2] \in sql'[x[1]] => x \in stuck'
                    /\ \A i \in Records(x[1], x[2])' : ~members'[x[1]][i].active
                    /\ IsFor(open'[x[1]], x[2]) => x \in tasked'
  BY DEF LeaversStayOut, IsFor
<1>2. PICK w \in Workspaces, u \in Users : x[1] = w /\ x[2] = u /\ x = <<w, u>>
  BY <1>1
<1>3. <<w, u>> \in out
  BY <1>2
<1>4. /\ u \in sql[w] => <<w, u>> \in stuck
      /\ \A i \in Records(w, u) : ~members[w][i].active
      /\ IsFor(open[w], u) => <<w, u>> \in tasked
  BY <1>3 DEF LeaversStayOut
<1>5. \A j \in DOMAIN members[w] : members[w][j].user = u => ~members[w][j].active
  BY <1>4 DEF Records
<1>6. \A i \in DOMAIN members'[w] : members'[w][i].user = u => ~members'[w][i].active
  BY <1>2, <1>5
<1>7. \A i \in Records(w, u)' : ~members'[w][i].active
  BY <1>6 DEF Records
<1>8. IsFor(open'[w], u) => <<w, u>> \in tasked'
  BY <1>2, <1>4
<1>. QED
  BY <1>2, <1>4, <1>7, <1>8

\* What the requests leave alone, and with it the events.
LEMMA EventsUntouched ==
  ASSUME UNCHANGED <<orgVars, fetchVars, loopVars>>
  PROVE  /\ UNCHANGED <<dir, log, owner, next, offset, processed, handled>>
         /\ UNCHANGED <<doing, todo, visiting, stage>>
         /\ DirectoryIsAnnounced => DirectoryIsAnnounced'
         /\ HandledInOrder => HandledInOrder'
         /\ \A w, u : EventComes(w, u) => EventComes(w, u)'
         /\ \A w, u : EventIsHere(w, u) => EventIsHere(w, u)'
<1>1. /\ UNCHANGED <<dir, log, owner, next, offset, processed, handled>>
      /\ UNCHANGED <<doing, todo, visiting, stage>>
  BY DEF orgVars, fetchVars, loopVars
<1>2. \A u : OrgEvents(u)' = OrgEvents(u)
  BY <1>1 DEF OrgEvents, OrgEvent
<1>3. DirectoryIsAnnounced => DirectoryIsAnnounced'
  BY <1>1, <1>2 DEF DirectoryIsAnnounced
<1>4. HandledInOrder => HandledInOrder'
  BY <1>1 DEF HandledInOrder
<1>5. \A u : Joining(u)' = Joining(u)
  BY <1>1, <1>2 DEF Joining
<1>6. \A w, u : EventComes(w, u) => EventComes(w, u)'
  BY <1>1, <1>5 DEF EventComes
<1>7. \A w, u : EventIsHere(w, u) => EventIsHere(w, u)'
  BY <1>1, <1>5 DEF EventIsHere
<1>. QED
  BY <1>1, <1>3, <1>4, <1>6, <1>7

\* A request: what it takes off one way it puts on a later one, or excuses.
LEMMA RequestKeeps ==
  ASSUME MembersInv, MembersTypeOK', SingleRecords', UNCHANGED <<orgVars, fetchVars, loopVars>>,
         \A w \in Workspaces, u \in Users : <<w, u>> \in out' =>
           /\ <<w, u>> \in out
           /\ u \in sql'[w] => u \in sql[w] /\ (<<w, u>> \in stuck => <<w, u>> \in stuck')
           /\ \A i \in DOMAIN members'[w] : members'[w][i].user = u =>
                i \in DOMAIN members[w] /\ members'[w][i] = members[w][i]
           /\ IsFor(open'[w], u) =>
                \/ <<w, u>> \in tasked'
                \/ open'[w] = open[w] /\ <<w, u>> \notin tasked,
         \A w \in link', u \in dir : <<w, u>> \notin excused' =>
           \/ sync'[w] = "list"
           \/ /\ w \in link /\ <<w, u>> \notin excused
              /\ u \in sql[w] => u \in sql'[w]
              /\ HasRecord(members[w], u) => HasRecord(members'[w], u)
              /\ WriteComes(w, u) => WriteComes(w, u)' \/ HasRecord(members'[w], u)
              /\ SyncComes(w, u) =>
                   SyncComes(w, u)' \/ (u \in sql'[w] /\ WriteComes(w, u)')
  PROVE  MembersInv'
<1> USE DEF MembersInv
<1>0. /\ DirectoryIsAnnounced' /\ HandledInOrder' /\ dir' = dir
      /\ \A w, u : EventComes(w, u) => EventComes(w, u)'
      /\ \A w, u : EventIsHere(w, u) => EventIsHere(w, u)'
  BY EventsUntouched
<1>1. LeaversStayOut'
  <2>1. \A w \in Workspaces, u \in Users : <<w, u>> \in out' =>
          /\ <<w, u>> \in out
          /\ u \in sql'[w] => u \in sql[w] /\ (<<w, u>> \in stuck => <<w, u>> \in stuck')
          /\ \A i \in DOMAIN members'[w] : members'[w][i].user = u /\ members'[w][i].active =>
               \E j \in DOMAIN members[w] : members[w][j].user = u /\ members[w][j].active
          /\ IsFor(open'[w], u) =>
               \/ <<w, u>> \in tasked'
               \/ open'[w] = open[w] /\ <<w, u>> \notin tasked
    OBVIOUS
  <2>. QED BY <2>1, LeaversKept
<1>3. MembersAreOnTheWay'
  <2> SUFFICES ASSUME NEW w \in link', NEW u \in dir, <<w, u>> \notin excused'
               PROVE  RowIsDue(w, u)' /\ RecordIsDue(w, u)'
    BY <1>0 DEF MembersAreOnTheWay
  <2>1. CASE sync'[w] = "list"
    BY <2>1 DEF RowIsDue, RecordIsDue, SyncComes
  <2>2. CASE sync'[w] # "list"
    <3>1. /\ RowIsDue(w, u) /\ RecordIsDue(w, u)
      BY <2>2 DEF MembersAreOnTheWay
    <3>3. /\ u \in sql[w] => u \in sql'[w]
          /\ HasRecord(members[w], u) => HasRecord(members[w], u)'
          /\ WriteComes(w, u) => WriteComes(w, u)' \/ HasRecord(members[w], u)'
          /\ SyncComes(w, u) => SyncComes(w, u)' \/ (u \in sql'[w] /\ WriteComes(w, u)')
      BY <2>2 DEF HasRecord
    <3>4. RowIsDue(w, u)'
      BY <1>0, <3>1, <3>3 DEF RowIsDue
    <3>5. RecordIsDue(w, u)'
      BY <1>0, <3>1, <3>3 DEF RecordIsDue
    <3>. QED BY <3>4, <3>5
  <2>. QED BY <2>1, <2>2
<1>. QED
  BY <1>0, <1>1, <1>3

\* Single records, where no record is written.
LEMMA RecordsUnchanged ==
  ASSUME SingleRecords, UNCHANGED members, byHand \subseteq byHand'
  PROVE  SingleRecords'
BY DEF SingleRecords, Records

LEMMA SetOrgKeeps ==
  ASSUME MembersInv, NEW w \in Workspaces,
         SetOrg(w) \/ ClearOrg(w) \/ ListOrgMembers(w) \/ SyncDone(w)
  PROVE  MembersInv'
<1>0. UNCHANGED <<orgVars, fetchVars, loopVars>>
  BY DEF SetOrg, ClearOrg, ListOrgMembers, SyncDone
<1>1. /\ UNCHANGED <<sql, members, open, closed, faults, hands, tasks>>
      /\ UNCHANGED <<pending, byHand, stuck, out, tasked>>
  BY DEF SetOrg, ClearOrg, ListOrgMembers, SyncDone, contents, httpVars, marks
<1>2. MembersTypeOK'
  <2> USE DEF MembersInv, MembersTypeOK
  <2>0. /\ UNCHANGED <<dir, log, owner, next, offset, processed, handled>>
        /\ UNCHANGED <<doing, todo, visiting, stage>>
    BY <1>0, EventsUntouched
  <2>1. link' \subseteq Workspaces /\ links' \in Nat
    BY DEF SetOrg, ClearOrg, ListOrgMembers, SyncDone, httpVars
  <2>2. sync' \in [Workspaces -> {"idle", "list", "add"}]
    BY DEF SetOrg, ClearOrg, ListOrgMembers, SyncDone, httpVars
  <2>3. roster' \in [Workspaces -> SUBSET Users]
    <3>1. roster' = roster \/ roster' = [roster EXCEPT ![w] = dir]
      BY DEF SetOrg, ClearOrg, ListOrgMembers, SyncDone, httpVars
    <3>2. roster \in [Workspaces -> SUBSET Users] /\ dir \in SUBSET Users
      OBVIOUS
    <3>. QED BY ONLY <3>1, <3>2
  <2>4. excused' \subseteq Workspaces \X Users
    BY DEF SetOrg, ClearOrg, ListOrgMembers, SyncDone, marks
  <2>. QED BY <1>1, <2>0, <2>1, <2>2, <2>3, <2>4
<1>3. SingleRecords'
  BY <1>1, RecordsUnchanged DEF MembersInv
<1>4. \A v \in link', u \in dir : <<v, u>> \notin excused' =>
        \/ sync'[v] = "list"
        \/ /\ v \in link /\ <<v, u>> \notin excused
           /\ SyncComes(v, u) => SyncComes(v, u)'
  <2> USE DEF MembersInv, MembersTypeOK
  <2>1. CASE SetOrg(w)
    <3>1. /\ \A v \in Workspaces \ {w} : sync'[v] = sync[v]
          /\ sync'[w] = "list" /\ roster' = roster
          /\ link' = link \cup {w} /\ excused' = excused
      BY <2>1 DEF SetOrg, marks
    <3>. QED BY <3>1 DEF SyncComes
  <2>2. CASE ClearOrg(w)
    BY <2>2 DEF ClearOrg, httpVars, marks, SyncComes
  <2>3. CASE ListOrgMembers(w) /\ excused' = excused
    <3>1. /\ \A v \in Workspaces \ {w} : sync'[v] = sync[v] /\ roster'[v] = roster[v]
          /\ link' = link
      BY <2>3 DEF ListOrgMembers
    <3>2. \A u \in dir : <<w, u>> \notin excused' => sync'[w] = "add" /\ roster'[w] = dir
      BY <2>3 DEF ListOrgMembers
    <3>. QED BY <2>3, <3>1, <3>2 DEF SyncComes
  <2>4. CASE ListOrgMembers(w) /\ excused' # excused
    <3>1. /\ \A v \in Workspaces \ {w} : sync'[v] = sync[v]
          /\ roster' = roster /\ link' = link
          /\ excused' = excused \cup ({w} \X dir)
      BY <2>4 DEF ListOrgMembers
    <3>. QED BY <3>1 DEF SyncComes
  <2>5. CASE SyncDone(w)
    <3>1. /\ \A v \in Workspaces \ {w} : sync'[v] = sync[v]
          /\ roster' = roster /\ link' = link /\ excused' = excused
          /\ sync[w] = "add" /\ roster[w] = {}
      BY <2>5 DEF SyncDone, marks
    <3>. QED BY <3>1 DEF SyncComes
  <2>. QED BY <2>1, <2>2, <2>3, <2>4, <2>5
<1>5. \A v, u : WriteComes(v, u)' <=> WriteComes(v, u)
  BY <1>1 DEF WriteComes, Write
<1>6. \A v \in link', u \in dir : <<v, u>> \notin excused' =>
        \/ sync'[v] = "list"
        \/ /\ v \in link /\ <<v, u>> \notin excused
           /\ u \in sql[v] => u \in sql'[v]
           /\ HasRecord(members[v], u) => HasRecord(members'[v], u)
           /\ WriteComes(v, u) => WriteComes(v, u)' \/ HasRecord(members'[v], u)
           /\ SyncComes(v, u) => SyncComes(v, u)' \/ (u \in sql'[v] /\ WriteComes(v, u)')
  BY <1>1, <1>4, <1>5
<1>7. \A v \in Workspaces, u \in Users : <<v, u>> \in out' =>
        /\ <<v, u>> \in out
        /\ u \in sql'[v] => u \in sql[v] /\ (<<v, u>> \in stuck => <<v, u>> \in stuck')
        /\ \A i \in DOMAIN members'[v] : members'[v][i].user = u =>
             i \in DOMAIN members[v] /\ members'[v][i] = members[v][i]
        /\ IsFor(open'[v], u) =>
             \/ <<v, u>> \in tasked'
             \/ open'[v] = open[v] /\ <<v, u>> \notin tasked
  BY <1>1
<1>. QED
  BY <1>0, <1>2, <1>3, <1>6, <1>7, RequestKeeps

\* The row of a request or a sync, or its failure; the record is still to come.
LEMMA RowKeeps ==
  ASSUME MembersInv, NEW w \in Workspaces, NEW u \in Users,
         SyncMember(w, u) \/ SyncRowFails(w, u) \/ AddMember(w, u)
  PROVE  MembersInv'
<1>0. UNCHANGED <<orgVars, fetchVars, loopVars>>
  BY DEF SyncMember, SyncRowFails, AddMember, AddRow
<1>1. UNCHANGED <<link, members, open, closed, faults, sync, links, tasks, byHand, stuck, tasked>>
  BY DEF SyncMember, SyncRowFails, AddMember, AddRow, Syncing, contents
<1>2. \E x \in {"sync", "hand"} : pending' = pending \cup {Write(w, u, x)}
  BY DEF SyncMember, SyncRowFails, AddMember, AddRow
<1>3. \/ roster' = roster
      \/ roster' = [roster EXCEPT ![w] = @ \ {u}] /\ Write(w, u, "sync") \in pending'
  BY DEF SyncMember, SyncRowFails, AddMember, AddRow, Syncing
<1>4. \/ /\ sql' = [sql EXCEPT ![w] = @ \cup {u}] /\ excused' = excused
         /\ out' = out \ Granted(w, u)
      \/ sql' = sql /\ excused' = excused \cup {<<w, u>>} /\ out' = out
  BY DEF SyncMember, SyncRowFails, AddMember, AddRow
<1>5. /\ Write(w, u, "sync") \in [ws : Workspaces, user : Users, by : {"sync", "hand"}]
      /\ Write(w, u, "hand") \in [ws : Workspaces, user : Users, by : {"sync", "hand"}]
  BY DEF Write
<1>6. hands' \in Nat
  BY DEF SyncMember, SyncRowFails, AddMember, Syncing, MembersInv, MembersTypeOK
<1>7. MembersTypeOK'
  <2> USE DEF MembersInv, MembersTypeOK
  <2>0. /\ UNCHANGED <<dir, log, owner, next, offset, processed, handled>>
        /\ UNCHANGED <<doing, todo, visiting, stage>>
    BY <1>0, EventsUntouched
  <2>1. pending' \subseteq [ws : Workspaces, user : Users, by : {"sync", "hand"}]
    BY <1>2, <1>5
  <2>2. roster' \in [Workspaces -> SUBSET Users]
    <3>1. roster \in [Workspaces -> SUBSET Users] /\ roster[w] \ {u} \in SUBSET Users
      OBVIOUS
    <3>. QED BY ONLY <1>3, <3>1
  <2>3. /\ sql' \in [Workspaces -> SUBSET Users] /\ excused' \subseteq Workspaces \X Users
        /\ out' \subseteq Workspaces \X Users
    <3>1. <<w, u>> \in Workspaces \X Users
      OBVIOUS
    <3>2. sql' \in [Workspaces -> SUBSET Users]
      <4>1. sql \in [Workspaces -> SUBSET Users] /\ sql[w] \cup {u} \in SUBSET Users
        OBVIOUS
      <4>. QED BY ONLY <1>4, <4>1
    <3>3. excused' \subseteq Workspaces \X Users /\ out' \subseteq Workspaces \X Users
      BY <1>4, <3>1
    <3>. QED BY <3>2, <3>3
  <2>. QED BY <1>1, <1>6, <2>0, <2>1, <2>2, <2>3
<1>8. SingleRecords'
  BY <1>1, RecordsUnchanged DEF MembersInv
<1>9. <<w, u>> \in Granted(w, u)
  BY DEF Granted
<1>10. \A v \in Workspaces, t \in Users : <<v, t>> \in out' =>
         <<v, t>> \in out /\ (t \in sql'[v] => t \in sql[v])
  <2> USE DEF MembersInv, MembersTypeOK
  <2> SUFFICES ASSUME NEW v \in Workspaces, NEW t \in Users, <<v, t>> \in out'
               PROVE  <<v, t>> \in out /\ (t \in sql'[v] => t \in sql[v])
    OBVIOUS
  <2>1. CASE v = w /\ t = u
    BY <1>4, <1>9, <2>1
  <2>2. CASE v # w \/ t # u
    BY <1>4, <2>2
  <2>. QED BY <2>1, <2>2
<1>11. \A v \in Workspaces, t \in Users : <<v, t>> \in out' =>
         /\ <<v, t>> \in out
         /\ t \in sql'[v] => t \in sql[v] /\ (<<v, t>> \in stuck => <<v, t>> \in stuck')
         /\ \A i \in DOMAIN members'[v] : members'[v][i].user = t =>
              i \in DOMAIN members[v] /\ members'[v][i] = members[v][i]
         /\ IsFor(open'[v], t) =>
              \/ <<v, t>> \in tasked'
              \/ open'[v] = open[v] /\ <<v, t>> \notin tasked
  BY <1>1, <1>10
<1>12. /\ \A v \in Workspaces, t \in Users : WriteComes(v, t) => WriteComes(v, t)'
       /\ roster' # roster => WriteComes(w, u)'
  BY <1>2, <1>3 DEF WriteComes, Write
<1>13. \A v \in Workspaces, t \in Users :
         /\ t \in sql[v] => t \in sql'[v]
         /\ <<v, t>> \in excused => <<v, t>> \in excused'
         /\ <<w, u>> \notin excused' => u \in sql'[w]
  <2>1. sql \in [Workspaces -> SUBSET Users]
    BY DEF MembersInv, MembersTypeOK
  <2>. QED BY <1>4, <2>1
<1>14. \A v \in Workspaces, t \in Users :
         SyncComes(v, t) => SyncComes(v, t)' \/ (v = w /\ t = u /\ roster' # roster)
  <2>1. \A v \in Workspaces, t \in Users :
          t \in roster[v] => t \in roster'[v] \/ (v = w /\ t = u /\ roster' # roster)
    BY <1>3 DEF MembersInv, MembersTypeOK
  <2>. QED BY <1>1, <2>1 DEF SyncComes
<1>15. link \subseteq Workspaces /\ dir \subseteq Users
  BY DEF MembersInv, MembersTypeOK
<1>16. \A v \in link', t \in dir : <<v, t>> \notin excused' =>
         \/ sync'[v] = "list"
         \/ /\ v \in link /\ <<v, t>> \notin excused
            /\ t \in sql[v] => t \in sql'[v]
            /\ HasRecord(members[v], t) => HasRecord(members'[v], t)
            /\ WriteComes(v, t) => WriteComes(v, t)' \/ HasRecord(members'[v], t)
            /\ SyncComes(v, t) => SyncComes(v, t)' \/ (t \in sql'[v] /\ WriteComes(v, t)')
  BY <1>1, <1>12, <1>13, <1>14, <1>15
<1>. QED
  BY <1>0, <1>7, <1>8, <1>11, <1>16, RequestKeeps

\* A record is written by a request or a sync.
LEMMA WriteMembersKeeps ==
  ASSUME MembersInv, NEW p \in pending, NEW w \in Workspaces, NEW u \in Users,
         NEW ms \in Seq(Member), WriteMembers(p, w, u, ms), HasRecord(ms, u),
         \A i \in DOMAIN ms : \/ i \in DOMAIN members[w] /\ ms[i] = members[w][i]
                              \/ ms[i].user = u,
         byHand' \in {byHand, byHand \cup {<<w, u>>}},
         <<w, u>> \notin byHand' =>
           \A i, j \in DOMAIN ms : ms[i].user = u /\ ms[j].user = u => i = j,
         p.by = "sync" => p = Write(w, u, "sync")
  PROVE  MembersInv'
<1> USE DEF MembersInv
<1>0. UNCHANGED <<orgVars, fetchVars, loopVars>>
  BY DEF WriteMembers
<1>1. /\ UNCHANGED <<link, sql, open, closed, faults, sync, roster, links, hands, tasks>>
      /\ UNCHANGED <<stuck, tasked>>
      /\ pending' = pending \ {p}
      /\ members' = [members EXCEPT ![w] = ms]
      /\ out' = out \ Granted(w, u)
      /\ excused' = excused \cup
           {<<w, v>> : v \in {x \in Users : HasRecord(members[w], x) /\ ~HasRecord(ms, x)}}
  BY DEF WriteMembers
<1>2. /\ members'[w] = ms /\ \A v \in Workspaces \ {w} : members'[v] = members[v]
      /\ members' \in [Workspaces -> Seq(Member)]
  BY <1>1 DEF MembersTypeOK
<1>3. MembersTypeOK'
  <2>0. /\ UNCHANGED <<dir, log, owner, next, offset, processed, handled>>
        /\ UNCHANGED <<doing, todo, visiting, stage>>
    BY <1>0, EventsUntouched
  <2>1. /\ byHand' \subseteq Workspaces \X Users /\ excused' \subseteq Workspaces \X Users
        /\ out' \subseteq Workspaces \X Users
    BY <1>1 DEF MembersTypeOK
  <2>. QED BY <1>1, <1>2, <2>0, <2>1 DEF MembersTypeOK
<1>5. SingleRecords'
  <2> SUFFICES ASSUME NEW v \in Workspaces, NEW t \in Users, <<v, t>> \notin byHand',
                      NEW i \in DOMAIN members'[v], NEW j \in DOMAIN members'[v],
                      members'[v][i].user = t, members'[v][j].user = t
               PROVE  i = j
    BY DEF SingleRecords, Records
  <2>2. \A k, l \in DOMAIN members[v] :
          members[v][k].user = t /\ members[v][l].user = t => k = l
    <3>1. <<v, t>> \notin byHand
      OBVIOUS
    <3>. QED BY <3>1 DEF SingleRecords, Records
  <2>3. CASE v # w
    BY <1>2, <2>2, <2>3
  <2>4. CASE v = w /\ t # u
    <3>1. /\ i \in DOMAIN members[w] /\ ms[i] = members[w][i]
          /\ j \in DOMAIN members[w] /\ ms[j] = members[w][j]
      BY <1>2, <2>4
    <3>. QED BY <1>2, <2>2, <2>4, <3>1
  <2>5. CASE v = w /\ t = u
    BY <1>2, <2>5
  <2>. QED BY <2>3, <2>4, <2>5
<1>6. <<w, u>> \in Granted(w, u)
  BY DEF Granted
<1>7. \A v \in Workspaces, t \in Users : <<v, t>> \in out' =>
        /\ <<v, t>> \in out
        /\ t \in sql'[v] => t \in sql[v] /\ (<<v, t>> \in stuck => <<v, t>> \in stuck')
        /\ \A i \in DOMAIN members'[v] : members'[v][i].user = t =>
             i \in DOMAIN members[v] /\ members'[v][i] = members[v][i]
        /\ IsFor(open'[v], t) =>
             \/ <<v, t>> \in tasked'
             \/ open'[v] = open[v] /\ <<v, t>> \notin tasked
  <2> SUFFICES ASSUME NEW v \in Workspaces, NEW t \in Users, <<v, t>> \in out'
               PROVE  \A i \in DOMAIN members'[v] : members'[v][i].user = t =>
                        i \in DOMAIN members[v] /\ members'[v][i] = members[v][i]
    BY <1>1
  <2>1. v # w \/ t # u
    BY <1>1, <1>6
  <2>. QED BY <1>2, <2>1
<1>8. \A v \in link, t \in dir : <<v, t>> \notin excused' =>
        /\ <<v, t>> \notin excused
        /\ HasRecord(members[v], t) => HasRecord(members'[v], t)
  <2> SUFFICES ASSUME NEW v \in link, NEW t \in dir, <<v, t>> \notin excused',
                      HasRecord(members[v], t)
               PROVE  HasRecord(members'[v], t)
    BY <1>1
  <2>1. v \in Workspaces /\ t \in Users
    BY DEF MembersTypeOK
  <2>2. CASE v = w
    <3>1. HasRecord(ms, t)
      BY <1>1, <2>1, <2>2
    <3>. QED BY <1>2, <2>2, <3>1
  <2>3. CASE v # w
    BY <1>2, <2>1, <2>3
  <2>. QED BY <2>2, <2>3
<1>9. \A v, t : WriteComes(v, t) => WriteComes(v, t)' \/ (v = w /\ t = u)
  BY <1>1 DEF WriteComes, Write
<1>10. \A v, t : SyncComes(v, t) => SyncComes(v, t)'
  BY <1>1 DEF SyncComes
<1>11. \A v \in link', t \in dir : <<v, t>> \notin excused' =>
         \/ sync'[v] = "list"
         \/ /\ v \in link /\ <<v, t>> \notin excused
            /\ t \in sql[v] => t \in sql'[v]
            /\ HasRecord(members[v], t) => HasRecord(members'[v], t)
            /\ WriteComes(v, t) => WriteComes(v, t)' \/ HasRecord(members'[v], t)
            /\ SyncComes(v, t) => SyncComes(v, t)' \/ (t \in sql'[v] /\ WriteComes(v, t)')
  BY <1>1, <1>2, <1>8, <1>9, <1>10
<1>. QED
  BY <1>0, <1>3, <1>5, <1>7, <1>11, RequestKeeps

LEMMA SyncDocumentKeeps ==
  ASSUME MembersInv, NEW p \in pending, SyncDocument(p)
  PROVE  MembersInv'
<1>0. PICK w \in Workspaces, u \in Users : p.ws = w /\ p.user = u /\ p = Write(w, u, "sync")
  BY DEF MembersInv, MembersTypeOK, SyncDocument, Write
<1> DEFINE ms == applyOrgMemberAdded(members[w], u)
<1>1. members[w] \in Seq(Member) /\ DOMAIN members[w] = 1..Len(members[w])
  BY DEF MembersInv, MembersTypeOK
<1>2. /\ ms \in Seq(Member) /\ HasRecord(ms, u)
      /\ \A i \in DOMAIN members[w] : ms[i] = members[w][i]
      /\ \A i \in DOMAIN ms \ DOMAIN members[w] :
           ms[i].user = u /\ ~HasRecord(members[w], u) /\ i = Len(members[w]) + 1
  BY <1>1, RecordAdded
<1>3. WriteMembers(p, w, u, ms) /\ byHand' = byHand
  BY <1>0 DEF SyncDocument
<1> HIDE DEF ms
<1>4. <<w, u>> \notin byHand' =>
        \A i, j \in DOMAIN ms : ms[i].user = u /\ ms[j].user = u => i = j
  <2>1. <<w, u>> \notin byHand => \A i, j \in DOMAIN members[w] :
          members[w][i].user = u /\ members[w][j].user = u => i = j
    BY DEF MembersInv, SingleRecords, Records
  <2>2. CASE HasRecord(members[w], u)
    BY <1>2, <1>3, <2>1, <2>2
  <2>3. CASE ~HasRecord(members[w], u)
    BY <1>2, <2>3 DEF HasRecord
  <2>. QED BY <2>2, <2>3
<1>. QED
  BY <1>0, <1>2, <1>3, <1>4, WriteMembersKeeps

LEMMA AddMemberDocumentKeeps ==
  ASSUME MembersInv, NEW p \in pending, NEW w \in Workspaces, NEW m \in Member,
         AddMemberDocument(p, w, m)
  PROVE  MembersInv'
<1> DEFINE ms == PutMember(members[w], m)
           u == m.user
<1>1. members[w] \in Seq(Member) /\ u \in Users
  BY DEF MembersInv, MembersTypeOK, Member
<1>2. WriteMembers(p, w, u, ms) /\ byHand' = byHand \cup {<<w, u>>} /\ p.by = "hand"
  BY DEF AddMemberDocument
<1>3. /\ ms \in Seq(Member) /\ HasRecord(ms, u)
      /\ \A j \in DOMAIN ms : ms[j] = m \/ (j \in DOMAIN members[w] /\ ms[j] = members[w][j])
  BY <1>1, RecordPut
<1> HIDE DEF ms
<1>4. \A j \in DOMAIN ms : \/ j \in DOMAIN members[w] /\ ms[j] = members[w][j]
                           \/ ms[j].user = u
  BY <1>3
<1> HIDE DEF u
<1>5. p.by # "sync" /\ <<w, u>> \in byHand'
  BY <1>2
<1>. QED
  BY <1>1, <1>2, <1>3, <1>4, <1>5, WriteMembersKeeps

LEMMA NoDocumentKeeps ==
  ASSUME MembersInv, NEW p \in pending, NoDocument(p)
  PROVE  MembersInv'
<1> USE DEF MembersInv
<1>0. UNCHANGED <<orgVars, fetchVars, loopVars>>
  BY DEF NoDocument
<1>1. /\ UNCHANGED <<link, sql, members, open, closed, faults, sync, roster, links, hands, tasks>>
      /\ UNCHANGED <<byHand, stuck, out, tasked>>
      /\ pending' = pending \ {p}
      /\ excused' = IF p.by = "sync" THEN excused \cup {<<p.ws, p.user>>} ELSE excused
  BY DEF NoDocument, contents
<1>2. p.ws \in Workspaces /\ p.user \in Users
  BY DEF MembersTypeOK
<1>3. MembersTypeOK'
  <2>0. /\ UNCHANGED <<dir, log, owner, next, offset, processed, handled>>
        /\ UNCHANGED <<doing, todo, visiting, stage>>
    BY <1>0, EventsUntouched
  <2>1. excused' \subseteq Workspaces \X Users
    BY <1>1, <1>2 DEF MembersTypeOK
  <2>. QED BY <1>1, <2>0, <2>1 DEF MembersTypeOK
<1>4. SingleRecords'
  BY <1>1, RecordsUnchanged
<1>5. \A v, t : WriteComes(v, t) => WriteComes(v, t)' \/ <<v, t>> \in excused'
  <2> SUFFICES ASSUME NEW v, NEW t, Write(v, t, "sync") \in pending
               PROVE  Write(v, t, "sync") \in pending' \/ <<v, t>> \in excused'
    BY DEF WriteComes, Write
  <2>1. CASE Write(v, t, "sync") = p
    <3>1. p.ws = v /\ p.user = t /\ p.by = "sync"
      BY <2>1 DEF Write
    <3>. QED BY <1>1, <3>1
  <2>2. CASE Write(v, t, "sync") # p
    BY <1>1, <2>2
  <2>. QED BY <2>1, <2>2
<1>6. \A v, t : SyncComes(v, t) => SyncComes(v, t)'
  BY <1>1 DEF SyncComes
<1>7. \A v \in link', t \in dir : <<v, t>> \notin excused' =>
        \/ sync'[v] = "list"
        \/ /\ v \in link /\ <<v, t>> \notin excused
           /\ t \in sql[v] => t \in sql'[v]
           /\ HasRecord(members[v], t) => HasRecord(members'[v], t)
           /\ WriteComes(v, t) => WriteComes(v, t)' \/ HasRecord(members'[v], t)
           /\ SyncComes(v, t) => SyncComes(v, t)' \/ (t \in sql'[v] /\ WriteComes(v, t)')
  BY <1>1, <1>5, <1>6
<1>8. \A v \in Workspaces, t \in Users : <<v, t>> \in out' =>
        /\ <<v, t>> \in out
        /\ t \in sql'[v] => t \in sql[v] /\ (<<v, t>> \in stuck => <<v, t>> \in stuck')
        /\ \A i \in DOMAIN members'[v] : members'[v][i].user = t =>
             i \in DOMAIN members[v] /\ members'[v][i] = members[v][i]
        /\ IsFor(open'[v], t) =>
             \/ <<v, t>> \in tasked'
             \/ open'[v] = open[v] /\ <<v, t>> \notin tasked
  BY <1>1
<1>. QED
  BY <1>0, <1>3, <1>4, <1>7, <1>8, RequestKeeps

\* A task changes hands, is opened again, copied or done: what matters is whom
\* the open one names.
LEMMA TaskKeeps ==
  ASSUME MembersInv, NEW w \in Workspaces, NEW a \in Users \cup Names,
         \/ Complete(w)
         \/ OpenTask(w, a) /\ closed' \in [Workspaces -> Users \cup Names \cup {None}]
  PROVE  MembersInv'
<1> USE DEF MembersInv
<1>0. UNCHANGED <<orgVars, fetchVars, loopVars>>
  BY DEF Complete, OpenTask
<1>1. /\ UNCHANGED <<link, sql, members, faults, sync, roster, links, hands, pending, byHand>>
      /\ UNCHANGED <<excused, stuck, out>>
  BY DEF Complete, OpenTask, httpVars, marks
<1>2. /\ open' \in [Workspaces -> Users \cup Names \cup {None}]
      /\ closed' \in [Workspaces -> Users \cup Names \cup {None}]
      /\ tasks' \in Nat /\ tasked' \subseteq Workspaces \X Users
  <2>1. /\ open \in [Workspaces -> Users \cup Names \cup {None}]
        /\ closed \in [Workspaces -> Users \cup Names \cup {None}]
        /\ tasks \in Nat /\ tasked \subseteq Workspaces \X Users
        /\ out \subseteq Workspaces \X Users
    BY DEF MembersTypeOK
  <2>2. CASE Complete(w)
    <3>1. /\ open' = [open EXCEPT ![w] = None] /\ closed' = [closed EXCEPT ![w] = open[w]]
          /\ tasks' = tasks /\ tasked' = tasked
      BY <2>2 DEF Complete, httpVars, marks
    <3>. QED BY ONLY <2>1, <3>1, w \in Workspaces
  <2>3. CASE OpenTask(w, a) /\ closed' \in [Workspaces -> Users \cup Names \cup {None}]
    <3>1. /\ open' = [open EXCEPT ![w] = a] /\ tasks' = tasks + 1
          /\ tasked' = tasked \cup (out \cap ({w} \X {u \in Users : IsFor(a, u)}))
      BY <2>3 DEF OpenTask
    <3>. QED BY <2>1, <2>3, <3>1
  <2>. QED BY <2>2, <2>3
<1>3. MembersTypeOK'
  <2>0. /\ UNCHANGED <<dir, log, owner, next, offset, processed, handled>>
        /\ UNCHANGED <<doing, todo, visiting, stage>>
    BY <1>0, EventsUntouched
  <2>. QED BY <1>1, <1>2, <2>0 DEF MembersTypeOK
<1>4. SingleRecords'
  BY <1>1, RecordsUnchanged
<1>5. \A v, t : (WriteComes(v, t) => WriteComes(v, t)') /\ (SyncComes(v, t) => SyncComes(v, t)')
  BY <1>1 DEF SyncComes, WriteComes, Write
<1>6. \A v \in link', t \in dir : <<v, t>> \notin excused' =>
        \/ sync'[v] = "list"
        \/ /\ v \in link /\ <<v, t>> \notin excused
           /\ t \in sql[v] => t \in sql'[v]
           /\ HasRecord(members[v], t) => HasRecord(members'[v], t)
           /\ WriteComes(v, t) => WriteComes(v, t)' \/ HasRecord(members'[v], t)
           /\ SyncComes(v, t) => SyncComes(v, t)' \/ (t \in sql'[v] /\ WriteComes(v, t)')
  BY <1>1, <1>5
<1>7. \A v \in Workspaces, t \in Users : <<v, t>> \in out' /\ IsFor(open'[v], t) =>
        \/ <<v, t>> \in tasked'
        \/ open'[v] = open[v] /\ <<v, t>> \notin tasked
  <2> SUFFICES ASSUME NEW v \in Workspaces, NEW t \in Users, <<v, t>> \in out, IsFor(open'[v], t)
               PROVE  \/ <<v, t>> \in tasked'
                      \/ open'[v] = open[v] /\ <<v, t>> \notin tasked
    BY <1>1
  <2>1. None \notin {t, NameOf[t]} /\ open \in [Workspaces -> Users \cup Names \cup {None}]
    BY MembersAssumption DEF MembersTypeOK
  <2>2. CASE Complete(w)
    <3>1. open' = [open EXCEPT ![w] = None] /\ tasked' = tasked
      BY <2>2 DEF Complete, marks
    <3>2. v # w
      BY <2>1, <3>1 DEF IsFor
    <3>. QED BY <2>1, <3>1, <3>2
  <2>3. CASE OpenTask(w, a)
    <3>1. /\ open' = [open EXCEPT ![w] = a]
          /\ tasked' = tasked \cup (out \cap ({w} \X {u \in Users : IsFor(a, u)}))
      BY <2>3 DEF OpenTask
    <3>2. CASE v = w
      <4>1. IsFor(a, t)
        BY <2>1, <3>1, <3>2
      <4>. QED BY <3>1, <3>2, <4>1
    <3>3. CASE v # w
      BY <2>1, <3>1, <3>3
    <3>. QED BY <3>2, <3>3
  <2>. QED BY <2>2, <2>3
<1>8. \A v \in Workspaces, t \in Users : <<v, t>> \in out' =>
        /\ <<v, t>> \in out
        /\ t \in sql'[v] => t \in sql[v] /\ (<<v, t>> \in stuck => <<v, t>> \in stuck')
        /\ \A i \in DOMAIN members'[v] : members'[v][i].user = t =>
             i \in DOMAIN members[v] /\ members'[v][i] = members[v][i]
        /\ IsFor(open'[v], t) =>
             \/ <<v, t>> \in tasked'
             \/ open'[v] = open[v] /\ <<v, t>> \notin tasked
  BY <1>1, <1>7
<1>. QED
  BY <1>0, <1>3, <1>4, <1>6, <1>8, RequestKeeps

LEMMA AssignKeeps ==
  ASSUME MembersInv, NEW w \in Workspaces,
         \/ \E a \in Users \cup Names : Assign(w, a)
         \/ Complete(w) \/ Reopen(w) \/ Recur(w)
  PROVE  MembersInv'
<1>1. ASSUME NEW a \in Users \cup Names, Assign(w, a) PROVE MembersInv'
  BY <1>1, TaskKeeps DEF Assign, MembersInv, MembersTypeOK
<1>2. CASE (closed[w] # None /\ Reopen(w)) \/ Recur(w)
  <2>1. closed[w] \in Users \cup Names /\ OpenTask(w, closed[w])
    BY <1>2 DEF Reopen, Recur, MembersInv, MembersTypeOK
  <2>2. closed' \in [Workspaces -> Users \cup Names \cup {None}]
    BY <1>2 DEF Reopen, Recur, MembersInv, MembersTypeOK
  <2>. QED BY <2>1, <2>2, TaskKeeps
<1>3. CASE Complete(w)
  <2>1. open[w] \in Users \cup Names
    BY <1>3 DEF Complete, MembersInv, MembersTypeOK
  <2>. QED BY <1>3, <2>1, TaskKeeps
<1>. QED
  BY <1>1, <1>2, <1>3 DEF Reopen

-----------------------------------------------------------------------------
(* The events, and the consumers that handle them.                         *)

\* What the consumers and the services leave alone.
LEMMA NotTheirs ==
  ASSUME UNCHANGED httpVars
  PROVE  /\ UNCHANGED <<sync, roster, links, hands, tasks, byHand, pending>>
         /\ \A w, u : SyncComes(w, u)' <=> SyncComes(w, u)
         /\ \A w, u : WriteComes(w, u)' <=> WriteComes(w, u)
<1>1. UNCHANGED <<sync, roster, links, hands, tasks, byHand, pending>>
  BY DEF httpVars
<1>. QED
  BY <1>1 DEF SyncComes, WriteComes, Write

\* The positions of the events.
LEMMA LogTyped ==
  ASSUME MembersTypeOK
  PROVE  /\ log \in Seq(Event) /\ Len(log) \in Nat /\ DOMAIN log = 1..Len(log)
         /\ \A i \in 1..Len(log) : /\ log[i] \in Event
                                   /\ log[i].user \in Users /\ log[i].kind \in Kinds
<1>1. log \in Seq(Event)
  BY DEF MembersTypeOK, Event
<1>2. Len(log) \in Nat /\ DOMAIN log = 1..Len(log) /\ \A i \in 1..Len(log) : log[i] \in Event
  BY <1>1
<1>. QED
  BY <1>1, <1>2 DEF Event

\* Somebody joins, leaves or is (de)activated: an event is appended.  That they
\* joined is the newest word on them, and is still to be taken everywhere.
LEMMA AnnounceKeeps ==
  ASSUME MembersInv, NEW u \in Users, NEW k \in Kinds, Announce(k, u),
         \/ k = "added" /\ dir' = dir \cup {u}
         \/ k = "removed" /\ dir' = dir \ {u}
         \/ k \notin {"added", "removed"} /\ dir' = dir
  PROVE  MembersInv'
<1> USE DEF MembersInv
<1> DEFINE e == [kind |-> k, user |-> u]
           n == Len(log)
<1>1. /\ UNCHANGED <<link, sql, members, open, closed, excused, stuck, out, tasked>>
      /\ UNCHANGED <<owner, next, offset, processed, handled, doing, todo, visiting, stage, faults>>
      /\ UNCHANGED httpVars
      /\ log' = Append(log, e)
  BY DEF Announce, contents, marks, fetchVars, loopVars
<1>2. /\ UNCHANGED <<sync, roster, links, hands, tasks, byHand, pending>>
      /\ \A w, v : SyncComes(w, v)' <=> SyncComes(w, v)
      /\ \A w, v : WriteComes(w, v)' <=> WriteComes(w, v)
  BY <1>1, NotTheirs
<1>3. log \in Seq(Event) /\ n \in Nat /\ DOMAIN log = 1..n /\ e \in Event
      /\ e.kind = k /\ e.user = u
  BY LogTyped DEF Event
<1> HIDE DEF e
<1>4. /\ log' \in Seq(Event) /\ DOMAIN log' = 1..(n + 1) /\ Len(log') = n + 1
      /\ \A i \in 1..n : log'[i] = log[i]
      /\ log'[n + 1] = e
  BY <1>1, <1>3
<1> HIDE DEF n
<1>5. MembersTypeOK'
  <2>1. /\ next \in 1..(n + 1) /\ offset \in 0..n /\ handled \subseteq 1..n
        /\ doing \in [Consumers -> 0..n]
    BY DEF MembersTypeOK, n
  <2>2. /\ next' \in 1..(n + 2) /\ offset' \in 0..(n + 1) /\ handled' \subseteq 1..(n + 1)
        /\ doing' \in [Consumers -> 0..(n + 1)]
    BY <1>1, <1>3, <2>1
  <2>3. log' \in Seq([kind : Kinds, user : Users]) /\ dir' \subseteq Users
    BY <1>4 DEF MembersTypeOK, Event
  <2>4. (n + 1) + 1 = n + 2
    BY <1>3
  <2>. QED BY <1>1, <1>2, <1>4, <2>2, <2>3, <2>4 DEF MembersTypeOK
<1>6. LeaversStayOut'
  BY <1>1 DEF LeaversStayOut, Records, IsFor
<1>7. SingleRecords'
  BY <1>1, <1>2, RecordsUnchanged
<1>8. \A v : /\ OrgEvents(v) \subseteq OrgEvents(v)'
             /\ \A i \in OrgEvents(v)' : i \in OrgEvents(v) \/ i = n + 1
  BY <1>3, <1>4 DEF OrgEvents, OrgEvent
<1>9. DirectoryIsAnnounced'
  <2> SUFFICES ASSUME NEW v \in dir', NEW i \in OrgEvents(v)',
                      \A j \in OrgEvents(v)' : j <= i
               PROVE  log'[i].kind = "added"
    BY DEF DirectoryIsAnnounced
  <2>1. CASE i = n + 1
    <3>1. v = u /\ k \in {"added", "removed"}
      BY <1>3, <1>4, <2>1 DEF OrgEvents, OrgEvent
    <3>2. k = "added"
      BY <3>1
    <3>. QED BY <1>3, <1>4, <2>1, <3>2
  <2>2. CASE i # n + 1
    <3>1. i \in OrgEvents(v) /\ \A j \in OrgEvents(v) : j <= i
      BY <1>8, <2>2
    <3>2. i \in 1..n
      BY <1>3, <3>1 DEF OrgEvents
    <3>3. n + 1 \notin OrgEvents(v)'
      BY <1>3, <3>2
    <3>4. v \in dir
      <4>1. CASE v # u
        BY <4>1
      <4>2. CASE v = u
        <5>1. k \notin {"added", "removed"}
          BY <1>3, <1>4, <3>3, <4>2 DEF OrgEvents, OrgEvent
        <5>. QED BY <5>1
      <4>. QED BY <4>1, <4>2
    <3>5. log[i].kind = "added"
      BY <3>1, <3>4 DEF DirectoryIsAnnounced
    <3>. QED BY <1>4, <3>2, <3>5
  <2>. QED BY <2>1, <2>2
<1>10. HandledInOrder'
  BY <1>1 DEF HandledInOrder
<1>11. \A v : \A i \in Joining(v) : i \in Joining(v)'
  BY <1>1, <1>3, <1>4, <1>8 DEF Joining, OrgEvents
<1>12. MembersAreOnTheWay'
  <2> SUFFICES ASSUME NEW w \in link, NEW v \in dir', <<w, v>> \notin excused
               PROVE  RowIsDue(w, v)' /\ RecordIsDue(w, v)'
    BY <1>1 DEF MembersAreOnTheWay
  <2>1. CASE v \in dir
    <3>1. RowIsDue(w, v) /\ RecordIsDue(w, v)
      BY <2>1 DEF MembersAreOnTheWay
    <3>2. EventComes(w, v) => EventComes(w, v)'
      BY <1>1, <1>11 DEF EventComes
    <3>3. EventIsHere(w, v) => EventIsHere(w, v)'
      BY <1>1, <1>11 DEF EventIsHere
    <3>. QED BY <1>1, <1>2, <3>1, <3>2, <3>3 DEF RowIsDue, RecordIsDue, HasRecord
  <2>2. CASE v \notin dir
    <3>1. v = u /\ k = "added"
      BY <2>2
    <3>2. n + 1 \notin handled /\ \A c \in Consumers : doing[c] # n + 1
      BY <1>3 DEF MembersTypeOK, n
    <3>3. n + 1 \in Joining(v)'
      BY <1>1, <1>3, <1>4, <3>1, <3>2 DEF OrgEvents, OrgEvent, Joining
    <3>4. EventComes(w, v)' /\ EventIsHere(w, v)'
      BY <1>1, <3>2, <3>3 DEF EventComes, EventIsHere
    <3>. QED BY <3>4 DEF RowIsDue, RecordIsDue
  <2>. QED BY <2>1, <2>2
<1>. QED
  BY <1>5, <1>6, <1>7, <1>9, <1>10, <1>12

\* A step of a consumer that writes no row and no document: an event that is
\* on its way stays on it.
LEMMA LoopKeeps ==
  ASSUME MembersInv, MembersTypeOK', HandledInOrder', excused \subseteq excused',
         UNCHANGED <<orgVars, link, sql, contents, httpVars, stuck, out, tasked>>,
         \A w \in link, u \in dir : \A i \in Joining(u) :
           /\ <<w, u>> \notin excused'
           /\ \A d \in Consumers : doing[d] = i =>
                w \in todo[d] \/ (stage[d] = "doc" /\ visiting[d] = w)
           => /\ i \notin handled'
              /\ \A d \in Consumers : doing'[d] = i =>
                   \/ w \in todo'[d]
                   \/ /\ doing[d] = i /\ todo'[d] = todo[d]
                      /\ stage'[d] = stage[d] /\ visiting'[d] = visiting[d]
  PROVE  MembersInv'
<1> USE DEF MembersInv
<1>1. UNCHANGED <<dir, log, link, sql, members, open, closed, stuck, out, tasked>>
  BY DEF orgVars, contents
<1>2. /\ UNCHANGED <<sync, roster, links, hands, tasks, byHand, pending>>
      /\ \A w, v : SyncComes(w, v)' <=> SyncComes(w, v)
      /\ \A w, v : WriteComes(w, v)' <=> WriteComes(w, v)
  BY NotTheirs
<1>3. LeaversStayOut'
  BY <1>1 DEF LeaversStayOut, Records, IsFor
<1>4. \A u : OrgEvents(u)' = OrgEvents(u)
  BY <1>1 DEF OrgEvents, OrgEvent
<1>5. DirectoryIsAnnounced'
  BY <1>1, <1>4 DEF DirectoryIsAnnounced
<1>6. SingleRecords'
  BY <1>1, <1>2, RecordsUnchanged
<1>7. MembersAreOnTheWay'
  <2> SUFFICES ASSUME NEW w \in link, NEW u \in dir, <<w, u>> \notin excused'
               PROVE  RowIsDue(w, u)' /\ RecordIsDue(w, u)'
    BY <1>1 DEF MembersAreOnTheWay
  <2>1. RowIsDue(w, u) /\ RecordIsDue(w, u)
    BY DEF MembersAreOnTheWay
  <2>2. EventComes(w, u) => EventComes(w, u)'
    <3> SUFFICES ASSUME NEW i \in Joining(u), \A d \in Consumers : doing[d] = i => w \in todo[d]
                 PROVE  EventComes(w, u)'
      BY DEF EventComes
    <3>1. /\ i \notin handled'
          /\ \A d \in Consumers : doing'[d] = i =>
               \/ w \in todo'[d]
               \/ /\ doing[d] = i /\ todo'[d] = todo[d]
                  /\ stage'[d] = stage[d] /\ visiting'[d] = visiting[d]
      OBVIOUS
    <3>2. i \in Joining(u)'
      BY <1>1, <1>4, <3>1 DEF Joining
    <3>. QED BY <3>1, <3>2 DEF EventComes
  <2>3. EventIsHere(w, u) => EventIsHere(w, u)'
    <3> SUFFICES ASSUME NEW i \in Joining(u),
                        \A d \in Consumers : doing[d] = i =>
                          w \in todo[d] \/ (stage[d] = "doc" /\ visiting[d] = w)
                 PROVE  EventIsHere(w, u)'
      BY DEF EventIsHere
    <3>1. /\ i \notin handled'
          /\ \A d \in Consumers : doing'[d] = i =>
               \/ w \in todo'[d]
               \/ /\ doing[d] = i /\ todo'[d] = todo[d]
                  /\ stage'[d] = stage[d] /\ visiting'[d] = visiting[d]
      OBVIOUS
    <3>2. i \in Joining(u)'
      BY <1>1, <1>4, <3>1 DEF Joining
    <3>. QED BY <3>1, <3>2 DEF EventIsHere
  <2>. QED BY <1>1, <1>2, <2>1, <2>2, <2>3 DEF RowIsDue, RecordIsDue, HasRecord
<1>. QED
  BY <1>3, <1>5, <1>6, <1>7

\* FetchMessage and what comes of it: the next event is with the consumer, to
\* be taken to every linked workspace; or was handled before; or is excused.
LEMMA FetchKeeps ==
  ASSUME MembersInv, NEW c \in Consumers, Receive(c) \/ Seen(c) \/ DeadLetter(c)
  PROVE  MembersInv'
<1> USE DEF MembersInv
<1>1. /\ owner = c /\ stage[c] = "idle" /\ next <= Len(log) /\ next' = next + 1
      /\ UNCHANGED <<orgVars, link, sql, contents, owner, processed, httpVars, stuck, out, tasked>>
  BY DEF Receive, Seen, DeadLetter, Fetch
<1>2. UNCHANGED <<dir, log, members, open, closed>>
  BY <1>1 DEF orgVars, contents
<1>3. UNCHANGED <<sync, roster, links, hands, tasks, byHand, pending>>
  BY <1>1, NotTheirs
<1>4. /\ Len(log) \in Nat /\ next \in 1..Len(log) /\ doing[c] = 0 /\ next # 0
      /\ log[next].user \in Users /\ log[next].kind \in Kinds
  BY <1>1, LogTyped DEF MembersTypeOK
<1>5. /\ \A i \in 1..(next - 1) : i \in handled
      /\ \A i \in 1..next : i \in handled \/ i = next
  <2>1. \A i \in 1..(next - 1) : i \in handled
    BY <1>1, <1>4 DEF HandledInOrder
  <2>2. \A i \in 1..next : i \in 1..(next - 1) \/ i = next
    BY <1>4
  <2>. QED BY <2>1, <2>2
<1>6. /\ processed \subseteq handled /\ handled \subseteq 1..Len(log)
      /\ doing \in [Consumers -> 0..Len(log)] /\ next' - 1 = next
      /\ 1..offset \subseteq handled /\ offset \in 0..Len(log)
      /\ \A d \in Consumers : 1..(doing[d] - 1) \subseteq handled
  BY <1>1, <1>4 DEF MembersTypeOK, HandledInOrder
<1>7. CASE Receive(c)
  <2>1. /\ faults' \in Nat /\ offset' = offset /\ handled' = handled /\ visiting' = visiting
        /\ excused' = excused
        /\ doing' = [doing EXCEPT ![c] = next] /\ stage' = [stage EXCEPT ![c] = "loop"]
        /\ todo' = [todo EXCEPT ![c] = IF OrgEvent(log[next]) THEN link ELSE Workspaces]
    BY <1>7 DEF Receive, Fault, MembersTypeOK
  <2>2. /\ stage \in [Consumers -> {"idle", "loop", "doc"}]
        /\ todo \in [Consumers -> SUBSET Workspaces] /\ link \subseteq Workspaces
        /\ visiting \in [Consumers -> Workspaces \cup {None}]
    BY DEF MembersTypeOK
  <2>3. /\ doing'[c] = next /\ stage'[c] = "loop"
        /\ todo'[c] = IF OrgEvent(log[next]) THEN link ELSE Workspaces
        /\ \A d \in Consumers \ {c} :
             doing'[d] = doing[d] /\ stage'[d] = stage[d] /\ todo'[d] = todo[d]
    BY <1>6, <2>1, <2>2
  <2>4. MembersTypeOK'
    <3>1. /\ doing' \in [Consumers -> 0..Len(log)] /\ next' \in 1..(Len(log) + 1)
          /\ stage' \in [Consumers -> {"idle", "loop", "doc"}]
          /\ todo' \in [Consumers -> SUBSET Workspaces]
      BY ONLY <1>1, <1>4, <1>6, <2>1, <2>2
    <3>2. \A d \in Consumers : /\ stage'[d] = "idle" <=> doing'[d] = 0
                               /\ stage'[d] = "doc" => visiting'[d] \in Workspaces
      BY <1>4, <2>1, <2>3 DEF MembersTypeOK
    <3>. QED BY <1>1, <1>2, <1>3, <2>1, <3>1, <3>2 DEF MembersTypeOK
  <2>5. HandledInOrder'
    <3>1. \A i \in 1..(next' - 1) : i \in handled' \/ doing'[owner'] = i
      BY <1>1, <1>5, <1>6, <2>1, <2>3
    <3>2. \A d \in Consumers : 1..(doing'[d] - 1) \subseteq handled'
      BY <1>5, <1>6, <2>1, <2>3
    <3>. QED BY <1>6, <2>1, <3>1, <3>2 DEF HandledInOrder
  <2>6. \A w \in link, u \in dir : \A i \in Joining(u) :
          /\ i \notin handled'
          /\ \A d \in Consumers : doing'[d] = i =>
               \/ w \in todo'[d]
               \/ /\ doing[d] = i /\ todo'[d] = todo[d]
                  /\ stage'[d] = stage[d] /\ visiting'[d] = visiting[d]
    <3> SUFFICES ASSUME NEW w \in link, NEW u \in dir, NEW i \in Joining(u),
                        NEW d \in Consumers, doing'[d] = i
                 PROVE  \/ w \in todo'[d]
                        \/ /\ doing[d] = i /\ todo'[d] = todo[d]
                           /\ stage'[d] = stage[d] /\ visiting'[d] = visiting[d]
      BY <2>1 DEF Joining
    <3>1. CASE d = c
      <4>1. OrgEvent(log[next])
        BY <2>3, <3>1 DEF Joining, OrgEvents
      <4>. QED BY <2>3, <3>1, <4>1
    <3>2. CASE d # c
      BY <2>1, <2>3, <3>2
    <3>. QED BY <3>1, <3>2
  <2>. QED BY <1>1, <2>1, <2>4, <2>5, <2>6, LoopKeeps
<1>8. CASE Seen(c) \/ DeadLetter(c)
  <2>1. /\ faults' \in Nat /\ offset' \in {offset, next} /\ UNCHANGED <<doing, todo, visiting, stage>>
        /\ handled' = handled \cup {next}
        /\ \/ handled' = handled /\ excused' = excused
           \/ excused' = IF log[next].kind = "added"
                         THEN excused \cup (Workspaces \X {log[next].user}) ELSE excused
    <3>1. CASE Seen(c)
      <4>1. next \in handled
        BY <1>6, <3>1 DEF Seen
      <4>. QED BY <3>1, <4>1 DEF Seen, Fault, loopVars, MembersTypeOK
    <3>2. CASE DeadLetter(c)
      BY <3>2 DEF DeadLetter, Fault, loopVars, MembersTypeOK
    <3>. QED BY <1>8, <3>1, <3>2
  <2>2. MembersTypeOK'
    <3>1. /\ handled' \subseteq 1..Len(log) /\ processed' \subseteq handled'
          /\ next' \in 1..(Len(log) + 1) /\ offset' \in 0..Len(log)
      BY ONLY <1>1, <1>4, <1>6, <2>1
    <3>2. excused' \subseteq Workspaces \X Users
      BY <1>4, <2>1 DEF MembersTypeOK
    <3>. QED BY <1>1, <1>2, <1>3, <2>1, <3>1, <3>2 DEF MembersTypeOK
  <2>3. HandledInOrder'
    <3>1. 1..next \subseteq handled'
      BY <1>5, <2>1
    <3>2. \A d \in Consumers : 1..(doing'[d] - 1) \subseteq handled'
      BY <1>6, <2>1
    <3>. QED BY <1>6, <2>1, <3>1, <3>2 DEF HandledInOrder
  <2>4. \A w \in link, u \in dir : \A i \in Joining(u) :
          <<w, u>> \notin excused' =>
            /\ i \notin handled'
            /\ \A d \in Consumers : doing'[d] = i =>
                 /\ doing[d] = i /\ todo'[d] = todo[d]
                 /\ stage'[d] = stage[d] /\ visiting'[d] = visiting[d]
    <3> SUFFICES ASSUME NEW w \in link, NEW u \in dir, NEW i \in Joining(u),
                        <<w, u>> \notin excused'
                 PROVE  i \notin handled'
      BY <2>1
    <3>1. i \notin handled /\ log[i].kind = "added" /\ log[i].user = u /\ w \in Workspaces
      BY DEF Joining, OrgEvents, MembersTypeOK
    <3>2. CASE i = next /\ handled' # handled
      BY <2>1, <3>1, <3>2
    <3>. QED BY <2>1, <3>1, <3>2
  <2>5. excused \subseteq excused'
    BY <2>1
  <2>. QED BY <1>1, <2>2, <2>3, <2>4, <2>5, LoopKeeps
<1>. QED
  BY <1>7, <1>8

\* The event a consumer is at.
LEMMA EventInHand ==
  ASSUME MembersTypeOK, NEW c \in Consumers, stage[c] # "idle"
  PROVE  /\ doing[c] \in 1..Len(log) /\ doing[c] # 0 /\ Ev(c) = log[doing[c]]
         /\ Ev(c).user \in Users /\ Ev(c).kind \in Kinds
<1>1. doing[c] \in 1..Len(log) /\ doing[c] # 0
  BY LogTyped DEF MembersTypeOK
<1>. QED
  BY <1>1, LogTyped DEF Ev

\* The consumer is through with the event, having taken it everywhere; or the
\* partition goes elsewhere, and is read again from the offset.
LEMMA FinishKeeps ==
  ASSUME MembersInv, NEW c \in Consumers,
         \/ \E marked, commits \in BOOLEAN : Finish(c, marked, commits)
         \/ Rebalance(c) \/ Stop(c)
  PROVE  MembersInv'
<1> USE DEF MembersInv
<1>1. UNCHANGED <<orgVars, link, sql, contents, httpVars, marks>>
  BY DEF Finish, Rebalance, Stop
<1>2. UNCHANGED <<dir, log, members, open, closed, excused, stuck, out, tasked>>
  BY <1>1 DEF orgVars, contents, marks
<1>3. UNCHANGED <<sync, roster, links, hands, tasks, byHand, pending>>
  BY <1>1, NotTheirs
<1>4. faults' \in Nat
  BY DEF Finish, Rebalance, Stop, Fault, MembersTypeOK
<1>5. /\ Len(log) \in Nat /\ doing \in [Consumers -> 0..Len(log)] /\ offset \in 0..Len(log)
      /\ todo \in [Consumers -> SUBSET Workspaces] /\ owner \in Consumers
      /\ visiting \in [Consumers -> Workspaces \cup {None}]
      /\ stage \in [Consumers -> {"idle", "loop", "doc"}]
      /\ next \in 1..(Len(log) + 1)
      /\ processed \subseteq handled /\ handled \subseteq 1..Len(log)
  BY LogTyped DEF MembersTypeOK
<1>6. /\ 1..offset \subseteq handled
      /\ \A i \in 1..(next - 1) : i \in handled \/ doing[owner] = i
      /\ \A d \in Consumers : 1..(doing[d] - 1) \subseteq handled
  BY DEF HandledInOrder
<1>7. ASSUME Idle(c)
      PROVE  /\ doing'[c] = 0
             /\ \A d \in Consumers \ {c} :
                  /\ doing'[d] = doing[d] /\ todo'[d] = todo[d]
                  /\ visiting'[d] = visiting[d] /\ stage'[d] = stage[d]
             /\ doing' \in [Consumers -> 0..Len(log)]
             /\ todo' \in [Consumers -> SUBSET Workspaces]
             /\ visiting' \in [Consumers -> Workspaces \cup {None}]
             /\ stage' \in [Consumers -> {"idle", "loop", "doc"}]
             /\ \A d \in Consumers : /\ stage'[d] = "idle" <=> doing'[d] = 0
                                     /\ stage'[d] = "doc" => visiting'[d] \in Workspaces
             /\ \A d \in Consumers : 1..(doing'[d] - 1) \subseteq handled
             /\ \A i \in 1..Len(log) : \A d \in Consumers : doing'[d] = i =>
                  /\ doing[d] = i /\ todo'[d] = todo[d]
                  /\ stage'[d] = stage[d] /\ visiting'[d] = visiting[d]
  <2>1. /\ doing' = [doing EXCEPT ![c] = 0] /\ todo' = [todo EXCEPT ![c] = {}]
        /\ visiting' = [visiting EXCEPT ![c] = None] /\ stage' = [stage EXCEPT ![c] = "idle"]
    BY <1>7 DEF Idle
  <2>2. /\ doing' \in [Consumers -> 0..Len(log)]
        /\ todo' \in [Consumers -> SUBSET Workspaces]
        /\ visiting' \in [Consumers -> Workspaces \cup {None}]
        /\ stage' \in [Consumers -> {"idle", "loop", "doc"}]
    BY ONLY <1>5, <2>1
  <2>3. /\ doing'[c] = 0 /\ stage'[c] = "idle"
        /\ \A d \in Consumers \ {c} :
             /\ doing'[d] = doing[d] /\ todo'[d] = todo[d]
             /\ visiting'[d] = visiting[d] /\ stage'[d] = stage[d]
    BY ONLY <1>5, <2>1, c \in Consumers
  <2>4. \A d \in Consumers : /\ stage'[d] = "idle" <=> doing'[d] = 0
                             /\ stage'[d] = "doc" => visiting'[d] \in Workspaces
    BY <2>3 DEF MembersTypeOK
  <2>5. \A d \in Consumers : 1..(doing'[d] - 1) \subseteq handled
    <3>1. 1..(0 - 1) = {}
      OBVIOUS
    <3>. QED BY <1>6, <2>3, <3>1
  <2>6. 0 \notin 1..Len(log)
    OBVIOUS
  <2>. QED BY <2>2, <2>3, <2>4, <2>5, <2>6
<1>8. \A u : Joining(u) \subseteq 1..Len(log)
  BY LogTyped DEF Joining, OrgEvents
<1>9. ASSUME NEW marked \in BOOLEAN, NEW commits \in BOOLEAN, Finish(c, marked, commits)
      PROVE  MembersInv'
  <2>1. /\ stage[c] = "loop" /\ todo[c] = {} /\ Idle(c)
        /\ owner' = owner /\ next' = next /\ handled' = handled \cup {doing[c]}
        /\ processed' \in {processed, processed \cup {doing[c]}}
        /\ offset' \in {offset, doing[c]}
    BY <1>9 DEF Finish
  <2>2. doing[c] \in 1..Len(log)
    BY <2>1, EventInHand
  <2>3. MembersTypeOK'
    <3>1. /\ handled' \subseteq 1..Len(log) /\ processed' \subseteq handled'
          /\ offset' \in 0..Len(log)
      BY <1>5, <2>1, <2>2
    <3>. QED BY <1>1, <1>2, <1>3, <1>4, <1>7, <2>1, <3>1 DEF MembersTypeOK
  <2>4. HandledInOrder'
    <3>1. 1..offset' \subseteq handled'
      <4>1. \A i \in 1..doing[c] : i \in 1..(doing[c] - 1) \/ i = doing[c]
        BY <2>2
      <4>. QED BY <1>6, <2>1, <4>1
    <3>2. \A i \in 1..(next' - 1) : i \in handled' \/ doing'[owner'] = i
      <4>1. owner # c => doing'[owner] = doing[owner]
        BY <1>5, <1>7, <2>1
      <4>. QED BY <1>6, <2>1, <4>1
    <3>3. \A d \in Consumers : 1..(doing'[d] - 1) \subseteq handled'
      BY <1>7, <2>1
    <3>. QED BY <3>1, <3>2, <3>3 DEF HandledInOrder
  <2>5. \A w \in link, u \in dir : \A i \in Joining(u) :
          (\A d \in Consumers : doing[d] = i =>
             w \in todo[d] \/ (stage[d] = "doc" /\ visiting[d] = w)) =>
          /\ i \notin handled'
          /\ \A d \in Consumers : doing'[d] = i =>
               /\ doing[d] = i /\ todo'[d] = todo[d]
               /\ stage'[d] = stage[d] /\ visiting'[d] = visiting[d]
    <3> SUFFICES ASSUME NEW w \in link, NEW u \in dir, NEW i \in Joining(u),
                        \A d \in Consumers : doing[d] = i =>
                          w \in todo[d] \/ (stage[d] = "doc" /\ visiting[d] = w)
                 PROVE  /\ i \notin handled'
                        /\ \A d \in Consumers : doing'[d] = i =>
                             /\ doing[d] = i /\ todo'[d] = todo[d]
                             /\ stage'[d] = stage[d] /\ visiting'[d] = visiting[d]
      OBVIOUS
    <3>1. i # doing[c]
      BY <2>1
    <3>2. i \notin handled'
      BY <2>1, <3>1 DEF Joining
    <3>. QED BY <1>7, <1>8, <2>1, <3>2
  <2>6. excused \subseteq excused'
    BY <1>2
  <2>. QED BY <1>1, <1>2, <2>3, <2>4, <2>5, <2>6, LoopKeeps
<1>10. CASE Rebalance(c)
  <2>1. /\ UNCHANGED <<offset, processed, handled, doing, todo, visiting, stage>>
        /\ owner' = c /\ next' = offset + 1
    BY <1>10 DEF Rebalance, Assigned, loopVars
  <2>2. next' \in 1..(Len(log) + 1) /\ next' - 1 = offset
    BY <1>5, <2>1
  <2>3. MembersTypeOK'
    BY <1>1, <1>2, <1>3, <1>4, <2>1, <2>2 DEF MembersTypeOK
  <2>4. HandledInOrder'
    BY <1>6, <2>1, <2>2 DEF HandledInOrder
  <2>5. \A w \in link, u \in dir : \A i \in Joining(u) : i \notin handled'
    BY <2>1 DEF Joining
  <2>6. excused \subseteq excused'
    BY <1>2
  <2>. QED BY <1>1, <1>2, <2>1, <2>3, <2>4, <2>5, <2>6, LoopKeeps
<1>11. CASE Stop(c)
  <2>1. /\ UNCHANGED <<offset, processed, handled>> /\ Idle(c)
        /\ \/ owner' \in Consumers /\ next' = offset + 1
           \/ owner # c /\ owner' = owner /\ next' = next
    BY <1>11 DEF Stop, Assigned
  <2>2. next' \in 1..(Len(log) + 1) /\ (next' # next => next' - 1 = offset)
        /\ owner' \in Consumers
    BY <1>5, <2>1
  <2>3. MembersTypeOK'
    BY <1>1, <1>2, <1>3, <1>4, <1>7, <2>1, <2>2 DEF MembersTypeOK
  <2>4. HandledInOrder'
    <3>1. \A i \in 1..(next' - 1) : i \in handled' \/ doing'[owner'] = i
      <4>1. CASE next' = offset + 1
        <5>1. next' - 1 = offset
          BY <1>5, <4>1
        <5>. QED BY <1>6, <2>1, <5>1
      <4>2. CASE owner # c /\ owner' = owner /\ next' = next
        BY <1>5, <1>6, <1>7, <2>1, <4>2
      <4>. QED BY <2>1, <4>1, <4>2
    <3>. QED BY <1>6, <1>7, <2>1, <3>1 DEF HandledInOrder
  <2>5. \A w \in link, u \in dir : \A i \in Joining(u) :
          /\ i \notin handled'
          /\ \A d \in Consumers : doing'[d] = i =>
               /\ doing[d] = i /\ todo'[d] = todo[d]
               /\ stage'[d] = stage[d] /\ visiting'[d] = visiting[d]
    BY <1>7, <1>8, <2>1 DEF Joining
  <2>6. excused \subseteq excused'
    BY <1>2
  <2>. QED BY <1>1, <1>2, <2>3, <2>4, <2>5, <2>6, LoopKeeps
<1>. QED
  BY <1>9, <1>10, <1>11

\* The row of the workspace the handler comes to.
LEMMA VisitKeeps ==
  ASSUME MembersInv, NEW c \in Consumers, NEW w \in todo[c], NEW written \in BOOLEAN,
         Visit(c, w, written)
  PROVE  MembersInv'
<1> USE DEF MembersInv
<1> DEFINE e == Ev(c)
           u == Ev(c).user
<1>0. w \in Workspaces /\ stage[c] = "loop"
  BY DEF Visit, MembersTypeOK
<1>1. /\ UNCHANGED <<dir, log, link, members, open, closed, tasked, faults, doing>>
      /\ UNCHANGED <<owner, next, offset, processed, handled>> /\ UNCHANGED httpVars
      /\ visiting' = [visiting EXCEPT ![c] = w] /\ todo' = [todo EXCEPT ![c] = @ \ {w}]
      /\ stage' = [stage EXCEPT ![c] = "doc"]
  BY DEF Visit, orgVars, contents, fetchVars
<1>2. /\ UNCHANGED <<sync, roster, links, hands, tasks, byHand, pending>>
      /\ \A v, t : SyncComes(v, t)' <=> SyncComes(v, t)
      /\ \A v, t : WriteComes(v, t)' <=> WriteComes(v, t)
  BY <1>1, NotTheirs
<1>3. /\ doing[c] \in 1..Len(log) /\ doing[c] # 0 /\ e = log[doing[c]] /\ u \in Users
      /\ e.kind \in Kinds
  BY <1>0, EventInHand
<1>4. \/ /\ e.kind = "added" /\ sql' = [sql EXCEPT ![w] = @ \cup {u}]
         /\ out' = out \ Granted(w, u) /\ excused' = excused /\ stuck' = stuck
      \/ /\ e.kind = "added" /\ sql' = sql /\ out' = out /\ stuck' = stuck
         /\ excused' = excused \cup {<<w, u>>}
      \/ /\ e.kind = "removed" /\ sql' = [sql EXCEPT ![w] = @ \ {u}]
         /\ out' = out /\ stuck' = stuck \ {<<w, u>>}
         /\ excused' = IF Overtaken(c) THEN excused \cup {<<w, u>>} ELSE excused
      \/ /\ e.kind # "added" /\ sql' = sql /\ out' = out /\ excused' = excused
         /\ stuck' \in {stuck, stuck \cup {<<w, u>>}}
  BY DEF Visit
<1> HIDE DEF u, e
<1>5. <<w, u>> \in Workspaces \X Users
  BY <1>0, <1>3
<1>6. /\ sql \in [Workspaces -> SUBSET Users] /\ excused \subseteq Workspaces \X Users
      /\ out \subseteq Workspaces \X Users /\ stuck \subseteq Workspaces \X Users
      /\ sql[w] \cup {u} \in SUBSET Users /\ sql[w] \ {u} \in SUBSET Users
  BY <1>0, <1>3 DEF MembersTypeOK
<1>7. /\ sql' \in [Workspaces -> SUBSET Users]
      /\ \A v \in Workspaces \ {w} : sql'[v] = sql[v]
      /\ \A t \in Users \ {u} : t \in sql'[w] <=> t \in sql[w]
  BY ONLY <1>0, <1>4, <1>6
<1>8. /\ excused' \subseteq Workspaces \X Users /\ out' \subseteq Workspaces \X Users
      /\ stuck' \subseteq Workspaces \X Users
      /\ excused \subseteq excused' /\ out' \subseteq out
  BY ONLY <1>4, <1>5, <1>6
<1>9. /\ todo \in [Consumers -> SUBSET Workspaces]
      /\ visiting \in [Consumers -> Workspaces \cup {None}]
      /\ stage \in [Consumers -> {"idle", "loop", "doc"}]
  BY DEF MembersTypeOK
<1>10. /\ todo'[c] = todo[c] \ {w} /\ visiting'[c] = w /\ stage'[c] = "doc"
       /\ \A d \in Consumers \ {c} :
            todo'[d] = todo[d] /\ visiting'[d] = visiting[d] /\ stage'[d] = stage[d]
  BY <1>1, <1>9
<1>11. MembersTypeOK'
  <2>1. /\ todo' \in [Consumers -> SUBSET Workspaces]
        /\ visiting' \in [Consumers -> Workspaces \cup {None}]
        /\ stage' \in [Consumers -> {"idle", "loop", "doc"}]
    BY ONLY <1>0, <1>1, <1>9
  <2>2. \A d \in Consumers : /\ stage'[d] = "idle" <=> doing'[d] = 0
                             /\ stage'[d] = "doc" => visiting'[d] \in Workspaces
    BY <1>0, <1>1, <1>3, <1>10 DEF MembersTypeOK
  <2>. QED BY <1>1, <1>2, <1>7, <1>8, <2>1, <2>2 DEF MembersTypeOK
<1>12. LeaversStayOut'
  <2>1. <<w, u>> \in Granted(w, u)
    BY <1>3 DEF Granted
  <2>2. <<w, u>> \in out' /\ u \in sql'[w] =>
          u \in sql[w] /\ (<<w, u>> \in stuck => <<w, u>> \in stuck')
    BY <1>0, <1>4, <1>6, <2>1
  <2>3. \A v \in Workspaces, t \in Users :
          v # w \/ t # u => (<<v, t>> \in stuck => <<v, t>> \in stuck')
    BY <1>4
  <2>4. \A v \in Workspaces, t \in Users : <<v, t>> \in out' =>
          /\ <<v, t>> \in out
          /\ t \in sql'[v] => t \in sql[v] /\ (<<v, t>> \in stuck => <<v, t>> \in stuck')
    BY <1>7, <1>8, <2>2, <2>3
  <2>5. \A v \in Workspaces, t \in Users : <<v, t>> \in out' =>
          /\ <<v, t>> \in out
          /\ t \in sql'[v] => t \in sql[v] /\ (<<v, t>> \in stuck => <<v, t>> \in stuck')
          /\ \A i \in DOMAIN members'[v] : members'[v][i].user = t /\ members'[v][i].active =>
               \E j \in DOMAIN members[v] : members[v][j].user = t /\ members[v][j].active
          /\ IsFor(open'[v], t) =>
               \/ <<v, t>> \in tasked'
               \/ open'[v] = open[v] /\ <<v, t>> \notin tasked
    BY <1>1, <2>4
  <2>. QED BY <1>11, <2>5, LeaversKept
<1>13. \A t : OrgEvents(t)' = OrgEvents(t) /\ Joining(t)' = Joining(t)
  BY <1>1 DEF OrgEvents, OrgEvent, Joining
<1>14. DirectoryIsAnnounced' /\ HandledInOrder'
  BY <1>1, <1>13 DEF DirectoryIsAnnounced, HandledInOrder
<1>15. SingleRecords'
  BY <1>1, <1>2, RecordsUnchanged
<1>16. MembersAreOnTheWay'
  <2> SUFFICES ASSUME NEW v \in link, NEW t \in dir, <<v, t>> \notin excused'
               PROVE  RowIsDue(v, t)' /\ RecordIsDue(v, t)'
    BY <1>1 DEF MembersAreOnTheWay
  <2>1. v \in Workspaces /\ t \in Users /\ RowIsDue(v, t) /\ RecordIsDue(v, t)
    BY <1>8 DEF MembersAreOnTheWay, MembersTypeOK
  <2>2. EventIsHere(v, t) => EventIsHere(v, t)'
    <3> SUFFICES ASSUME NEW i \in Joining(t),
                        \A d \in Consumers : doing[d] = i =>
                          v \in todo[d] \/ (stage[d] = "doc" /\ visiting[d] = v)
                 PROVE  \A d \in Consumers : doing[d] = i =>
                          v \in todo'[d] \/ (stage'[d] = "doc" /\ visiting'[d] = v)
      BY <1>1, <1>13 DEF EventIsHere
    <3>1. doing[c] = i => v \in todo'[c] \/ (stage'[c] = "doc" /\ visiting'[c] = v)
      BY <1>0, <1>10
    <3>. QED BY <1>10, <3>1
  <2>3. EventComes(v, t) => EventComes(v, t)' \/ t \in sql'[v]
    <3> SUFFICES ASSUME NEW i \in Joining(t), \A d \in Consumers : doing[d] = i => v \in todo[d],
                        t \notin sql'[v]
                 PROVE  EventComes(v, t)'
      BY DEF EventComes
    <3>1. doing[c] = i => v \in todo'[c]
      <4> SUFFICES ASSUME doing[c] = i, v = w PROVE FALSE
        BY <1>10
      <4>1. e.kind = "added" /\ u = t
        BY <1>3 DEF Joining, OrgEvents, e, u
      <4>2. t \in sql'[v]
        BY <1>4, <1>6, <2>1, <4>1
      <4>. QED BY <4>2
    <3>. QED BY <1>1, <1>10, <1>13, <3>1 DEF EventComes
  <2>4. t \in sql[v] => t \in sql'[v] \/ EventComes(v, t)'
    <3> SUFFICES ASSUME t \in sql[v], t \notin sql'[v] PROVE EventComes(v, t)'
      OBVIOUS
    <3>1. v = w /\ t = u
      BY <1>7, <2>1
    <3>2. e.kind = "removed" /\ ~Overtaken(c)
      BY <1>4, <1>6, <2>1, <3>1
    <3>3. doing[c] \in OrgEvents(t)
      BY <1>3, <3>1, <3>2, LogTyped DEF OrgEvents, OrgEvent, u, e
    <3>4. OrgEvents(t) \in SUBSET (1..Len(log)) /\ Len(log) \in Nat
      BY LogTyped DEF OrgEvents
    <3>5. PICK k \in OrgEvents(t) : \A j \in OrgEvents(t) : j <= k
      BY <3>3, <3>4, GreatestExists
    <3>6. log[k].kind = "added" /\ log[k].user = t
      BY <3>5 DEF DirectoryIsAnnounced, OrgEvents
    <3>7. k \in (doing[c] + 1)..Len(log)
      <4>1. k # doing[c] /\ doing[c] <= k /\ k \in 1..Len(log)
        BY <1>3, <3>2, <3>3, <3>4, <3>5, <3>6
      <4>. QED BY <1>3, <3>4, <4>1
    <3>8. log[k] = [kind |-> "added", user |-> Ev(c).user]
      BY <3>1, <3>4, <3>6, LogTyped DEF Event, u
    <3>9. k \notin handled /\ \A d \in Consumers : doing[d] # k
      BY <3>2, <3>7, <3>8 DEF Overtaken
    <3>10. k \in Joining(t)'
      BY <1>13, <3>6, <3>9 DEF Joining
    <3>. QED BY <1>1, <3>9, <3>10 DEF EventComes
  <2>5. RowIsDue(v, t)'
    BY <1>2, <2>1, <2>3, <2>4 DEF RowIsDue
  <2>6. RecordIsDue(v, t)'
    BY <1>1, <1>2, <2>1, <2>2 DEF RecordIsDue, HasRecord
  <2>. QED BY <2>5, <2>6
<1>. QED
  BY <1>11, <1>12, <1>14, <1>15, <1>16

\* What the Mutate of the handler does to the members of the document.
LEMMA MembersMutated ==
  ASSUME MembersInv, NEW c \in Consumers, ApplyEvent(c)
  PROVE  LET w == visiting[c]  u == Ev(c).user  M == members[w]  N == members'[w] IN
         /\ N \in Seq(Member)
         /\ DOMAIN M \subseteq DOMAIN N /\ \A i \in DOMAIN M : N[i].user = M[i].user
         /\ \A i \in DOMAIN N \ DOMAIN M :
              N[i].user = u /\ ~HasRecord(M, u) /\ i = Len(M) + 1 /\ Ev(c).kind = "added"
         /\ Ev(c).kind = "added" => HasRecord(N, u)
         /\ Ev(c).kind \notin {"added", "reactivated"} =>
              \A i \in DOMAIN M : /\ N[i].user = u => ~N[i].active
                                  /\ N[i].active => M[i].active
         /\ \A i \in DOMAIN M : NameOf[M[i].user] # NameOf[u] /\ N[i].active => M[i].active
<1> DEFINE w == visiting[c]
           e == Ev(c)
           u == Ev(c).user
           M == members[w]
           N == members'[w]
<1>1. stage[c] = "doc" /\ w \in Workspaces /\ MembersTypeOK
  BY DEF ApplyEvent, MembersInv, MembersTypeOK
<1>2. u \in Users /\ e.kind \in Kinds
  BY <1>1, EventInHand
<1>3. M \in Seq(Member) /\ members \in [Workspaces -> Seq(Member)]
  BY <1>1 DEF MembersTypeOK
<1> HIDE DEF M, N, u, e
<1>4. \A b \in BOOLEAN :
        /\ SetActiveFlag(M, u, b) \in Seq(Member)
        /\ DOMAIN SetActiveFlag(M, u, b) = DOMAIN M
        /\ \A i \in DOMAIN M :
             /\ SetActiveFlag(M, u, b)[i].user = M[i].user
             /\ M[i].user = u => SetActiveFlag(M, u, b)[i].active = b
             /\ NameOf[M[i].user] # NameOf[u] /\ M[i].user # u =>
                  SetActiveFlag(M, u, b)[i] = M[i]
             /\ ~b /\ SetActiveFlag(M, u, b)[i].active => M[i].active
  BY <1>2, <1>3, FlagsSet
<1>5. CASE e.kind = "added"
  <2>1. N = applyOrgMemberAdded(M, u)
    BY <1>1, <1>3, <1>5 DEF ApplyEvent, M, N, u, e
  <2>2. /\ N \in Seq(Member) /\ HasRecord(N, u)
        /\ DOMAIN M \subseteq DOMAIN N /\ \A i \in DOMAIN M : N[i] = M[i]
        /\ \A i \in DOMAIN N \ DOMAIN M : N[i].user = u /\ ~HasRecord(M, u) /\ i = Len(M) + 1
    BY <1>2, <1>3, <2>1, RecordAdded
  <2>. QED BY <1>5, <2>2 DEF M, N, u, e
<1>6. CASE e.kind = "reactivated"
  <2>1. N = SetActiveFlag(M, u, TRUE)
    BY <1>1, <1>3, <1>6 DEF ApplyEvent, applyUserReactivation, M, N, u, e
  <2>2. /\ N \in Seq(Member) /\ DOMAIN N = DOMAIN M
        /\ \A i \in DOMAIN M :
             /\ N[i].user = M[i].user
             /\ NameOf[M[i].user] # NameOf[u] /\ M[i].user # u => N[i] = M[i]
    BY <1>4, <2>1
  <2>3. \A i \in DOMAIN M : NameOf[M[i].user] # NameOf[u] => M[i].user # u
    OBVIOUS
  <2>. QED BY <1>6, <2>2, <2>3 DEF M, N, u, e
<1>7. CASE e.kind \notin {"added", "reactivated"}
  <2>1. N = SetActiveFlag(M, u, FALSE)
    BY <1>1, <1>3, <1>7 DEF ApplyEvent, applyUserDeactivation, M, N, u, e
  <2>2. /\ N \in Seq(Member) /\ DOMAIN N = DOMAIN M
        /\ \A i \in DOMAIN M :
             /\ N[i].user = M[i].user
             /\ M[i].user = u => N[i].active = FALSE
             /\ N[i].active => M[i].active
    BY <1>4, <2>1
  <2>. QED BY <1>7, <2>2 DEF M, N, u, e
<1>. QED
  BY <1>5, <1>6, <1>7 DEF M, N, u, e

\* The document of the workspace the handler is in.
LEMMA ApplyEventKeeps ==
  ASSUME MembersInv, NEW c \in Consumers, ApplyEvent(c)
  PROVE  MembersInv'
<1> USE DEF MembersInv
<1> DEFINE w == visiting[c]
           e == Ev(c)
           u == Ev(c).user
           M == members[w]
           N == members'[w]
<1>1. /\ UNCHANGED <<dir, log, link, sql, closed, owner, next, offset, processed, handled>>
      /\ UNCHANGED <<doing, todo, visiting, faults, excused, stuck>>
      /\ UNCHANGED httpVars /\ stage[c] = "doc" /\ stage' = [stage EXCEPT ![c] = "loop"]
  BY DEF ApplyEvent, orgVars, fetchVars
<1>2. /\ UNCHANGED <<sync, roster, links, hands, tasks, byHand, pending>>
      /\ \A v, t : SyncComes(v, t)' <=> SyncComes(v, t)
      /\ \A v, t : WriteComes(v, t)' <=> WriteComes(v, t)
  BY <1>1, NotTheirs
<1>3. w \in Workspaces
  BY <1>1 DEF MembersTypeOK
<1>4. /\ doing[c] \in 1..Len(log) /\ doing[c] # 0 /\ e = log[doing[c]] /\ u \in Users
      /\ e.kind \in Kinds
  BY <1>1, EventInHand
<1>5. /\ M \in Seq(Member) /\ DOMAIN M = 1..Len(M) /\ Len(M) \in Nat
      /\ members \in [Workspaces -> Seq(Member)]
  BY <1>3 DEF MembersTypeOK
<1>6. /\ N \in Seq(Member)
      /\ DOMAIN M \subseteq DOMAIN N /\ \A i \in DOMAIN M : N[i].user = M[i].user
      /\ \A i \in DOMAIN N \ DOMAIN M :
           N[i].user = u /\ ~HasRecord(M, u) /\ i = Len(M) + 1 /\ e.kind = "added"
      /\ e.kind = "added" => HasRecord(N, u)
      /\ e.kind \notin {"added", "reactivated"} =>
           \A i \in DOMAIN M : (N[i].user = u => ~N[i].active) /\ (N[i].active => M[i].active)
      /\ \A i \in DOMAIN M : NameOf[M[i].user] # NameOf[u] /\ N[i].active => M[i].active
  BY MembersMutated
<1>7. members' = [members EXCEPT ![w] = N]
  BY <1>3, <1>5 DEF ApplyEvent
<1>8. /\ open' \in [Workspaces -> Users \cup Names \cup {None}]
      /\ \A v \in Workspaces \ {w} : open'[v] = open[v]
      /\ open'[w] \in {open[w], None}
      /\ e.kind \notin {"added", "reactivated"} => ~IsFor(open'[w], u)
  <2>1. open \in [Workspaces -> Users \cup Names \cup {None}]
    BY DEF MembersTypeOK
  <2>2. ~IsFor(None, u)
    BY <1>4, MembersAssumption DEF IsFor
  <2>3. CASE e.kind \in {"added", "reactivated"}
    <3>1. open' = [open EXCEPT ![w] = open[w]]
      BY <2>3 DEF ApplyEvent
    <3>. QED BY <1>3, <2>1, <2>3, <3>1
  <2>4. CASE e.kind \notin {"added", "reactivated"}
    <3>1. open' = [open EXCEPT ![w] = IF IsFor(open[w], u) THEN None ELSE open[w]]
      BY <2>4 DEF ApplyEvent, applyUserDeactivation
    <3>. QED BY <1>3, <2>1, <2>2, <2>4, <3>1
  <2>. QED BY <2>3, <2>4
<1>9. \/ /\ e.kind \in {"added", "reactivated"} /\ out' = out \ Granted(w, u)
         /\ tasked' = tasked
      \/ /\ e.kind = "removed" /\ (u \in sql[w] => <<w, u>> \in stuck)
         /\ out' = out \cup {<<w, u>>} /\ tasked' = tasked \ {<<w, u>>}
      \/ e.kind \notin {"added", "reactivated"} /\ out' = out /\ tasked' = tasked
  BY DEF ApplyEvent
<1>10. \A v \in Workspaces \ {w} : members'[v] = members[v]
  BY <1>5, <1>7
<1>11. /\ stage \in [Consumers -> {"idle", "loop", "doc"}] /\ stage'[c] = "loop"
       /\ \A d \in Consumers \ {c} : stage'[d] = stage[d]
  BY <1>1 DEF MembersTypeOK
<1> HIDE DEF u, w, M, N, e
<1>12. MembersTypeOK'
  <2>1. members' \in [Workspaces -> Seq(Member)]
    BY <1>5, <1>6, <1>7
  <2>2. <<w, u>> \in Workspaces \X Users
    BY <1>3, <1>4
  <2>3. out' \subseteq Workspaces \X Users /\ tasked' \subseteq Workspaces \X Users
    BY <1>9, <2>2 DEF MembersTypeOK
  <2>4. stage' \in [Consumers -> {"idle", "loop", "doc"}]
    BY <1>1, <1>11
  <2>5. \A d \in Consumers : /\ stage'[d] = "idle" <=> doing'[d] = 0
                             /\ stage'[d] = "doc" => visiting'[d] \in Workspaces
    BY <1>1, <1>4, <1>11 DEF MembersTypeOK
  <2>. QED BY <1>1, <1>2, <1>8, <2>1, <2>3, <2>4, <2>5 DEF MembersTypeOK
<1>13. LeaversStayOut'
  <2>1. \A x \in out' : x[1] \in Workspaces /\ x[2] \in Users /\ x = <<x[1], x[2]>>
    <3>1. out' \subseteq Workspaces \X Users
      BY <1>12 DEF MembersTypeOK
    <3>. QED BY ONLY <3>1
  <2> SUFFICES ASSUME NEW v \in Workspaces, NEW t \in Users, <<v, t>> \in out'
               PROVE  /\ t \in sql[v] => <<v, t>> \in stuck
                      /\ \A i \in DOMAIN members'[v] : members'[v][i].user = t =>
                           ~members'[v][i].active
                      /\ IsFor(open'[v], t) => <<v, t>> \in tasked'
    BY <1>1, <2>1 DEF LeaversStayOut, Records, IsFor
  <2>2. <<v, t>> \in out =>
          /\ t \in sql[v] => <<v, t>> \in stuck
          /\ IsFor(open[v], t) => <<v, t>> \in tasked
          /\ \A i \in DOMAIN members[v] : members[v][i].user = t => ~members[v][i].active
    BY DEF LeaversStayOut, Records
  <2>3. ~IsFor(None, t)
    BY MembersAssumption DEF IsFor
  <2>4. CASE v # w
    <3>1. <<v, t>> \in out /\ (<<v, t>> \in tasked => <<v, t>> \in tasked')
      BY <1>9, <2>4
    <3>. QED BY <1>8, <1>10, <2>2, <2>4, <3>1
  <2>5. CASE v = w /\ e.kind \in {"added", "reactivated"}
    <3>1. <<v, t>> \in out /\ NameOf[t] # NameOf[u] /\ tasked' = tasked
      BY <1>9, <2>5 DEF Granted
    <3>2. t # u
      BY <3>1
    <3>3. \A i \in DOMAIN N : N[i].user = t => i \in DOMAIN M /\ M[i].user = t
      BY <1>6, <3>2
    <3>4. \A i \in DOMAIN N : N[i].user = t => ~N[i].active
      BY <1>6, <2>2, <2>5, <3>1, <3>3 DEF M
    <3>. QED BY <1>8, <2>2, <2>3, <2>5, <3>1, <3>4 DEF N
  <2>6. CASE v = w /\ e.kind \notin {"added", "reactivated"}
    <3>1. <<v, t>> \in out \/ (t = u /\ (u \in sql[w] => <<w, u>> \in stuck))
      BY <1>9, <2>6
    <3>2. \A i \in DOMAIN N : i \in DOMAIN M
      BY <1>6, <2>6
    <3>3. CASE t = u
      <4>1. \A i \in DOMAIN N : N[i].user = t => ~N[i].active
        BY <1>6, <2>6, <3>2, <3>3
      <4>2. t \in sql[v] => <<v, t>> \in stuck
        BY <2>2, <2>6, <3>1
      <4>. QED BY <1>8, <2>6, <3>3, <4>1, <4>2 DEF N
    <3>4. CASE t # u
      <4>1. <<v, t>> \in out /\ (<<v, t>> \in tasked => <<v, t>> \in tasked')
        BY <1>9, <3>1, <3>4
      <4>2. \A i \in DOMAIN N : N[i].user = t => ~N[i].active
        BY <1>6, <2>2, <2>6, <3>2, <4>1 DEF M
      <4>. QED BY <1>8, <2>2, <2>3, <2>6, <4>1, <4>2 DEF N
    <3>. QED BY <3>3, <3>4
  <2>. QED BY <2>4, <2>5, <2>6
<1>14. \A t : OrgEvents(t)' = OrgEvents(t) /\ Joining(t)' = Joining(t)
  BY <1>1 DEF OrgEvents, OrgEvent, Joining
<1>15. DirectoryIsAnnounced' /\ HandledInOrder'
  BY <1>1, <1>14 DEF DirectoryIsAnnounced, HandledInOrder
<1>16. SingleRecords'
  <2> SUFFICES ASSUME NEW v \in Workspaces, NEW t \in Users, <<v, t>> \notin byHand,
                      NEW i \in DOMAIN members'[v], NEW j \in DOMAIN members'[v],
                      members'[v][i].user = t, members'[v][j].user = t
               PROVE  i = j
    BY <1>2 DEF SingleRecords, Records
  <2>1. \A k, l \in DOMAIN members[v] :
          members[v][k].user = t /\ members[v][l].user = t => k = l
    BY DEF SingleRecords, Records
  <2>2. CASE v # w
    BY <1>10, <2>1, <2>2
  <2>3. CASE v = w
    <3>1. i \in DOMAIN N /\ j \in DOMAIN N /\ N[i].user = t /\ N[j].user = t
      BY <2>3 DEF N
    <3>2. \A k \in DOMAIN N : k \in DOMAIN M => M[k].user = N[k].user
      BY <1>6
    <3>3. \A k \in DOMAIN N : N[k].user = t /\ k \in DOMAIN M => HasRecord(M, t)
      BY <3>2 DEF HasRecord
    <3>4. \A k \in DOMAIN N : N[k].user = t /\ k \notin DOMAIN M => ~HasRecord(M, t) /\ k = Len(M) + 1
      BY <1>6
    <3>5. CASE i \in DOMAIN M /\ j \in DOMAIN M
      BY <2>1, <2>3, <3>1, <3>2, <3>5 DEF M
    <3>6. CASE ~(i \in DOMAIN M /\ j \in DOMAIN M)
      BY <3>1, <3>3, <3>4, <3>6
    <3>. QED BY <3>5, <3>6
  <2>. QED BY <2>2, <2>3
<1>17. MembersAreOnTheWay'
  <2> SUFFICES ASSUME NEW v \in link, NEW t \in dir, <<v, t>> \notin excused
               PROVE  RowIsDue(v, t)' /\ RecordIsDue(v, t)'
    BY <1>1 DEF MembersAreOnTheWay
  <2>1. v \in Workspaces /\ t \in Users /\ RowIsDue(v, t) /\ RecordIsDue(v, t)
    BY DEF MembersAreOnTheWay, MembersTypeOK
  <2>2. EventComes(v, t) => EventComes(v, t)'
    BY <1>1, <1>14 DEF EventComes
  <2>3. HasRecord(members[v], t) => HasRecord(members'[v], t)
    <3>1. CASE v # w
      BY <1>10, <2>1, <3>1
    <3>2. CASE v = w
      <4>1. HasRecord(M, t) => HasRecord(N, t)
        BY <1>6 DEF HasRecord
      <4>. QED BY <3>2, <4>1 DEF M, N
    <3>. QED BY <3>1, <3>2
  <2>4. EventIsHere(v, t) => EventIsHere(v, t)' \/ HasRecord(members'[v], t)
    <3> SUFFICES ASSUME NEW i \in Joining(t),
                        \A d \in Consumers : doing[d] = i =>
                          v \in todo[d] \/ (stage[d] = "doc" /\ visiting[d] = v)
                 PROVE  EventIsHere(v, t)' \/ HasRecord(members'[v], t)
      BY DEF EventIsHere
    <3>1. CASE doing[c] = i /\ w = v
      <4>1. e.kind = "added" /\ u = t
        BY <1>4, <3>1 DEF Joining, OrgEvents, e, u
      <4>. QED BY <1>6, <3>1, <4>1 DEF N
    <3>2. CASE ~(doing[c] = i /\ w = v)
      <4>1. \A d \in Consumers : doing'[d] = i =>
              v \in todo'[d] \/ (stage'[d] = "doc" /\ visiting'[d] = v)
        BY <1>1, <1>11, <3>2 DEF w
      <4>. QED BY <1>14, <4>1 DEF EventIsHere
    <3>. QED BY <3>1, <3>2
  <2>5. RowIsDue(v, t)'
    BY <1>1, <1>2, <2>1, <2>2 DEF RowIsDue
  <2>6. HasRecord(members'[v], t) <=> HasRecord(members[v], t)'
    BY DEF HasRecord
  <2>7. RecordIsDue(v, t)'
    BY <1>2, <2>1, <2>3, <2>4, <2>6 DEF RecordIsDue
  <2>. QED BY <2>5, <2>7
<1>. QED
  BY <1>12, <1>13, <1>15, <1>16, <1>17

\* The write that fails is excused.
LEMMA ApplyFailsKeeps ==
  ASSUME MembersInv, NEW c \in Consumers, ApplyFails(c)
  PROVE  MembersInv'
<1> USE DEF MembersInv
<1>1. /\ UNCHANGED <<dir, log, link, sql, members, open, closed, doing, todo, visiting, faults>>
      /\ UNCHANGED <<owner, next, offset, processed, handled>>
      /\ UNCHANGED <<orgVars, link, sql, contents, httpVars, stuck, out, tasked>>
      /\ stage[c] = "doc" /\ stage' = [stage EXCEPT ![c] = "loop"]
      /\ excused' = IF Ev(c).kind = "added" THEN excused \cup {<<visiting[c], Ev(c).user>>}
                    ELSE excused
  BY DEF ApplyFails, orgVars, contents, fetchVars
<1>2. UNCHANGED <<sync, roster, links, hands, tasks, byHand, pending>>
  BY <1>1, NotTheirs
<1>3. visiting[c] \in Workspaces
  BY <1>1 DEF MembersTypeOK
<1>4. Ev(c) = log[doing[c]] /\ Ev(c).user \in Users /\ doing[c] # 0
  BY <1>1, EventInHand
<1>5. /\ stage \in [Consumers -> {"idle", "loop", "doc"}] /\ stage'[c] = "loop"
      /\ \A d \in Consumers \ {c} : stage'[d] = stage[d]
  BY <1>1 DEF MembersTypeOK
<1>6. MembersTypeOK'
  <2>1. excused' \subseteq Workspaces \X Users
    BY <1>1, <1>3, <1>4 DEF MembersTypeOK
  <2>2. stage' \in [Consumers -> {"idle", "loop", "doc"}]
    BY <1>1, <1>5
  <2>3. \A d \in Consumers : /\ stage'[d] = "idle" <=> doing'[d] = 0
                             /\ stage'[d] = "doc" => visiting'[d] \in Workspaces
    BY <1>1, <1>4, <1>5 DEF MembersTypeOK
  <2>. QED BY <1>1, <1>2, <2>1, <2>2, <2>3 DEF MembersTypeOK
<1>7. HandledInOrder'
  BY <1>1 DEF HandledInOrder
<1>8. \A w \in link, u \in dir : \A i \in Joining(u) :
        /\ <<w, u>> \notin excused'
        /\ \A d \in Consumers : doing[d] = i =>
             w \in todo[d] \/ (stage[d] = "doc" /\ visiting[d] = w)
        => /\ i \notin handled'
           /\ \A d \in Consumers : doing'[d] = i =>
                \/ w \in todo'[d]
                \/ /\ doing[d] = i /\ todo'[d] = todo[d]
                   /\ stage'[d] = stage[d] /\ visiting'[d] = visiting[d]
  <2> SUFFICES ASSUME NEW w \in link, NEW u \in dir, NEW i \in Joining(u), <<w, u>> \notin excused',
                      doing[c] = i, visiting[c] = w
               PROVE  FALSE
    BY <1>1, <1>5 DEF Joining
  <2>1. Ev(c).kind = "added" /\ Ev(c).user = u
    BY <1>4 DEF Joining, OrgEvents
  <2>. QED BY <1>1, <2>1
<1>9. excused \subseteq excused'
  BY <1>1
<1>. QED
  BY <1>1, <1>6, <1>7, <1>8, <1>9, LoopKeeps

LEMMA MembersNextInv == MembersInv /\ [MembersNext]_memberVars => MembersInv'
<1> SUFFICES ASSUME MembersInv, [MembersNext]_memberVars PROVE MembersInv'
  OBVIOUS
<1>1. ASSUME NEW u \in Users,
             JoinOrg(u) \/ LeaveOrg(u) \/ \E k \in {"deactivated", "reactivated"} : SetActive(k, u)
      PROVE  MembersInv'
  <2>1. CASE JoinOrg(u)
    BY <2>1, AnnounceKeeps DEF JoinOrg, Kinds
  <2>2. CASE LeaveOrg(u)
    BY <2>2, AnnounceKeeps DEF LeaveOrg, Kinds
  <2>3. ASSUME NEW k \in {"deactivated", "reactivated"}, SetActive(k, u)
        PROVE  MembersInv'
    BY <2>3, AnnounceKeeps DEF SetActive, Kinds
  <2>. QED BY <1>1, <2>1, <2>2, <2>3
<1>2. ASSUME NEW c \in Consumers, Consume(c) PROVE MembersInv'
  BY <1>2, FetchKeeps, FinishKeeps, ApplyEventKeeps, ApplyFailsKeeps, VisitKeeps DEF Consume
<1>3. CASE Request
  <2>1. ASSUME NEW w \in Workspaces, NEW u \in Users,
               SyncMember(w, u) \/ SyncRowFails(w, u) \/ AddMember(w, u)
        PROVE  MembersInv'
    BY <2>1, RowKeeps
  <2>2. ASSUME NEW w \in Workspaces,
               \/ \E a \in Users \cup Names : Assign(w, a)
               \/ Complete(w) \/ Reopen(w) \/ Recur(w)
        PROVE  MembersInv'
    BY <2>2, AssignKeeps
  <2>3. ASSUME NEW p \in pending,
               \/ SyncDocument(p) \/ NoDocument(p)
               \/ \E w \in Workspaces, m \in Member : AddMemberDocument(p, w, m)
        PROVE  MembersInv'
    BY <2>3, SyncDocumentKeeps, NoDocumentKeeps, AddMemberDocumentKeeps
  <2>4. ASSUME NEW w \in Workspaces,
               SetOrg(w) \/ ClearOrg(w) \/ ListOrgMembers(w) \/ SyncDone(w)
        PROVE  MembersInv'
    BY <2>4, SetOrgKeeps
  <2>. QED BY <1>3, <2>1, <2>2, <2>3, <2>4 DEF Request
<1>4. CASE UNCHANGED memberVars
  <2>1. /\ UNCHANGED <<dir, log, link, sql, members, open, closed, faults>>
        /\ UNCHANGED <<excused, stuck, out, tasked, sync, roster, links, hands, tasks, byHand, pending>>
        /\ UNCHANGED <<orgVars, fetchVars, loopVars>>
    BY <1>4 DEF memberVars, orgVars, contents, marks, httpVars
  <2> USE DEF MembersInv
  <2>2. MembersTypeOK'
    <3>1. /\ UNCHANGED <<owner, next, offset, processed, handled>>
          /\ UNCHANGED <<doing, todo, visiting, stage>>
      BY <2>1, EventsUntouched
    <3>. QED BY <2>1, <3>1 DEF MembersTypeOK
  <2>3. SingleRecords'
    BY <2>1, RecordsUnchanged
  <2>4. \A w, u : (SyncComes(w, u) => SyncComes(w, u)') /\ (WriteComes(w, u) => WriteComes(w, u)')
    BY <2>1 DEF SyncComes, WriteComes, Write
  <2>. QED BY <2>1, <2>2, <2>3, <2>4, RequestKeeps
<1>. QED
  BY <1>1, <1>2, <1>3, <1>4 DEF MembersNext

\* When nothing is under way, nothing is on its way: everybody has it all.
LEMMA NothingIsDue == MembersInv => JoinersGetIn
<1> SUFFICES ASSUME MembersInv, Quiet, NEW w \in link, NEW u \in dir, <<w, u>> \notin excused
             PROVE  /\ u \in sql[w] /\ Records(w, u) # {}
                    /\ <<w, u>> \notin byHand => \A i, j \in Records(w, u) : i = j
  BY DEF JoinersGetIn
<1> USE DEF MembersInv
<1>1. w \in Workspaces /\ u \in Users
  BY DEF MembersTypeOK
<1>2. RowIsDue(w, u) /\ RecordIsDue(w, u)
  BY DEF MembersAreOnTheWay
<1>3. ~SyncComes(w, u) /\ ~WriteComes(w, u)
  BY <1>1 DEF Quiet, SyncComes, WriteComes
<1>4. 1..Len(log) \subseteq handled
  BY DEF Quiet, HandledInOrder
<1>5. ~EventComes(w, u) /\ ~EventIsHere(w, u)
  BY <1>4, LogTyped DEF EventComes, EventIsHere, Joining, OrgEvents
<1>6. u \in sql[w] /\ HasRecord(members[w], u)
  BY <1>2, <1>3, <1>5 DEF RowIsDue, RecordIsDue
<1>. QED
  BY <1>1, <1>6 DEF HasRecord, Records, SingleRecords

\* Whoever joins an organisation gets into each of its workspaces, with one
\* record, in whatever order the events of the users service, their
\* redeliveries to any number of replicas and the syncs of setOrg come; the
\* joinings that can be lost are those in excused.
THEOREM NewcomersGetIn ==
  MembersSpec => []JoinersGetIn
<1>1. MembersSpec => []MembersInv
  BY MembersInitInv, MembersNextInv, PTL DEF MembersSpec
<1>. QED
  BY <1>1, NothingIsDue, PTL

\* Whoever was removed keeps no active record and, unless RemoveMember failed,
\* no row, until something is granted to them or to a namesake; an open task
\* names them only if one was assigned, reopened or copied since.
THEOREM RemovedStayOut ==
  MembersSpec => []LeaversStayOut
<1>1. MembersInv => LeaversStayOut
  BY DEF MembersInv
<1>. QED
  BY <1>1, MembersInitInv, MembersNextInv, PTL DEF MembersSpec
=============================================================================
