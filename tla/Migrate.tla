------------------------------ MODULE Migrate ------------------------------
(***************************************************************************)
(* migrate.Up, which every replica runs when it starts (main.go,           *)
(* autoMigrate), on a database it shares with the other replicas, with     *)
(* replicas of an older release during a rollout, and with other services: *)
(* public.schema_migrations is a ledger they all once wrote to, each under *)
(* names of its own that may be those of our files.                        *)
(*                                                                         *)
(* A migration is its number; a release ships the files 1..n, two of them  *)
(* at least.  A body creates its tables in iag_pm, the first schema of the *)
(* search path; one that ran before the path was pinned created them in    *)
(* public, where queries still find them.  0002 also creates the table of  *)
(* 0001 when it is missing.                                                *)
(*                                                                         *)
(* A replica may stop between any two statements, and a replica that got   *)
(* an error exits and is started again by the platform.                    *)
(***************************************************************************)
EXTENDS Naturals, Sequences

CONSTANTS Replicas,
          Release,     \* replica -> number of migration files it ships
          Last,        \* number of files of the newest release
          MaxCrashes   \* bound on crashes

ASSUME MigrateAssumption ==
  /\ Last \in Nat /\ Last >= 2 /\ MaxCrashes \in Nat
  /\ Release \in [Replicas -> 2..Last]

Versions == 1..Last

VARIABLES
  runs,     \* version -> how often its body committed in schema iag_pm
  public,   \* the versions whose tables an earlier deployment left in public
  ledger,   \* iag_pm.schema_migrations: version -> "none", "file" or another checksum
  legacy,   \* the versions in public.schema_migrations that are names of ours
  pc,       \* replica -> where its Up is
  at,       \* replica -> the migration its loop has reached
  applied,  \* replica -> the ledger as loadApplied read it
  crashes

vars == <<runs, public, ledger, legacy, pc, at, applied, crashes>>

NoRows == [v \in Versions |-> "none"]

(* The database may be new, or have run the first k files under the shared
   ledger and the first j under our own (perhaps with the checksums of an
   earlier tool).  The tables of the first k may have stayed in public or have
   been moved to iag_pm; 0001 may be recorded without its table, which an
   earlier tool did not create.  Other services may have left any name in the
   shared ledger. *)
Init ==
  /\ runs \in [Versions -> 0..1]
  /\ ledger \in [Versions -> {"none", "file", "other"}]
  /\ legacy \in SUBSET Versions
  /\ public \in SUBSET legacy
  /\ \E k \in 0..Last, j \in 0..Last :
       /\ 1..k \subseteq legacy /\ public \subseteq 1..k
       /\ \A v \in Versions :
            /\ ledger[v] # "none" <=> v <= j
            /\ runs[v] = 1 => v <= k \/ v <= j
            /\ v <= k \/ v <= j => runs[v] = 1 \/ v \in public \/ v = 1
  /\ pc = [r \in Replicas |-> "start"]
  /\ at = [r \in Replicas |-> 1]
  /\ applied = [r \in Replicas |-> NoRows]
  /\ crashes = 0

Goto(r, l, n) ==
  /\ pc' = [pc EXCEPT ![r] = l]
  /\ at' = [at EXCEPT ![r] = n]

Advance(r) == Goto(r, pc[r], at[r] + 1)

(* Mutant of SeedCheck: a name in the shared ledger is enough. *)
SeedCheckNameOnly(r) ==
  /\ pc[r] = "start"
  /\ IF legacy # {} THEN Goto(r, "seed", 1) ELSE Goto(r, "load", 1)
  /\ UNCHANGED <<runs, public, ledger, legacy, applied, crashes>>

(* Each body creates a table. *)
hasOwnTables == \E v \in Versions : runs[v] > 0

(* seedFromLegacyLedger: names in the shared ledger, tables in iag_pm. *)
SeedCheck(r) ==
  /\ pc[r] = "start"
  /\ IF legacy # {} /\ hasOwnTables THEN Goto(r, "seed", 1) ELSE Goto(r, "load", 1)
  /\ UNCHANGED <<runs, public, ledger, legacy, applied, crashes>>

(* INSERT ... WHERE EXISTS ... ON CONFLICT DO NOTHING, one per file. *)
Seed(r) ==
  /\ pc[r] = "seed" /\ at[r] <= Release[r]
  /\ ledger' = IF at[r] \in legacy /\ ledger[at[r]] = "none"
               THEN [ledger EXCEPT ![at[r]] = "file"] ELSE ledger
  /\ Advance(r)
  /\ UNCHANGED <<runs, public, legacy, applied, crashes>>

SeedDone(r) ==
  /\ pc[r] = "seed" /\ at[r] > Release[r]
  /\ Goto(r, "load", 1)
  /\ UNCHANGED <<runs, public, ledger, legacy, applied, crashes>>

(* Mutant of LoadApplied: it reads a ledger that stays empty. *)
LoadNothing(r) ==
  /\ pc[r] = "load"
  /\ applied' = [applied EXCEPT ![r] = NoRows]
  /\ Goto(r, "loop", 1)
  /\ UNCHANGED <<runs, public, ledger, legacy, crashes>>

LoadApplied(r) ==
  /\ pc[r] = "load"
  /\ applied' = [applied EXCEPT ![r] = ledger]
  /\ Goto(r, "loop", 1)
  /\ UNCHANGED <<runs, public, ledger, legacy, crashes>>

(* The loop: a version the replica saw in the ledger is skipped, or its
   checksum stamped anew; for another one apply runs the body. *)
Skip(r) ==
  /\ pc[r] = "loop" /\ at[r] <= Release[r] /\ applied[r][at[r]] = "file"
  /\ Advance(r)
  /\ UNCHANGED <<runs, public, ledger, legacy, applied, crashes>>

Restamp(r) ==
  /\ pc[r] = "loop" /\ at[r] <= Release[r] /\ applied[r][at[r]] = "other"
  /\ ledger' = [ledger EXCEPT ![at[r]] = "file"]
  /\ Advance(r)
  /\ UNCHANGED <<runs, public, legacy, applied, crashes>>

ExecBody(r) ==
  /\ pc[r] = "loop" /\ at[r] <= Release[r] /\ applied[r][at[r]] = "none"
  /\ Goto(r, "tx", at[r])
  /\ UNCHANGED <<runs, public, ledger, legacy, applied, crashes>>

(* Mutant of Apply: the ledger row is inserted ON CONFLICT DO NOTHING. *)
ApplyOnConflict(r) ==
  /\ pc[r] = "tx"
  /\ runs' = [runs EXCEPT ![at[r]] = @ + 1]
  /\ ledger' = [ledger EXCEPT ![at[r]] = "file"]
  /\ Goto(r, "loop", at[r] + 1)
  /\ UNCHANGED <<public, legacy, applied, crashes>>

(* The INSERT of the ledger row and the commit of the body with it. *)
Apply(r) ==
  /\ pc[r] = "tx" /\ ledger[at[r]] = "none"
  /\ runs' = [runs EXCEPT ![at[r]] = @ + 1]
  /\ ledger' = [ledger EXCEPT ![at[r]] = "file"]
  /\ Goto(r, "loop", at[r] + 1)
  /\ UNCHANGED <<public, legacy, applied, crashes>>

(* "concurrent migration": the row is there, the body is rolled back, and
   main exits. *)
ApplyConflicts(r) ==
  /\ pc[r] = "tx" /\ ledger[at[r]] # "none"
  /\ Goto(r, "exited", 1)
  /\ UNCHANGED <<runs, public, ledger, legacy, applied, crashes>>

Serve(r) ==
  /\ pc[r] = "loop" /\ at[r] > Release[r]
  /\ Goto(r, "up", 1)
  /\ UNCHANGED <<runs, public, ledger, legacy, applied, crashes>>

(* Postgres rolls an open transaction back. *)
Crash(r) ==
  /\ pc[r] # "exited" /\ crashes < MaxCrashes
  /\ crashes' = crashes + 1
  /\ Goto(r, "exited", 1)
  /\ UNCHANGED <<runs, public, ledger, legacy, applied>>

Restart(r) ==
  /\ pc[r] = "exited"
  /\ Goto(r, "start", 1)
  /\ applied' = [applied EXCEPT ![r] = NoRows]
  /\ UNCHANGED <<runs, public, ledger, legacy, crashes>>

Up(r) ==
  \/ SeedCheck(r) \/ Seed(r) \/ SeedDone(r) \/ LoadApplied(r)
  \/ Skip(r) \/ Restamp(r) \/ ExecBody(r) \/ Apply(r) \/ ApplyConflicts(r)
  \/ Serve(r) \/ Restart(r)

Next == \E r \in Replicas : Up(r) \/ Crash(r)

Spec == Init /\ [][Next]_vars

(* A replica keeps running, and the platform restarts one that exited. *)
FairSpec == Spec /\ \A r \in Replicas : WF_vars(Up(r))

-----------------------------------------------------------------------------
(* Types of the state; a position never passes the end of the loop. *)
TypeOK ==
  /\ runs \in [Versions -> Nat]
  /\ public \subseteq Versions
  /\ ledger \in [Versions -> {"none", "file", "other"}]
  /\ legacy \subseteq Versions
  /\ pc \in [Replicas -> {"start", "seed", "load", "loop", "tx", "exited", "up"}]
  /\ at \in [Replicas -> 1..(Last + 1)]
  /\ applied \in [Replicas -> [Versions -> {"none", "file", "other"}]]
  /\ crashes \in 0..MaxCrashes

(* The tables of version v are where a query finds them. *)
HasTables(v) ==
  \/ runs[v] > 0 \/ v \in public
  \/ v = 1 /\ (runs[2] > 0 \/ 2 \in public)

(* However many replicas of however many releases start at once, and
   wherever they crash, a body commits in iag_pm only if it never did before,
   and only once every earlier file has its row in the ledger. *)
BodiesRunOnceInOrder ==
  [][\A v \in Versions : runs'[v] # runs[v] =>
       runs[v] = 0 /\ \A u \in Versions : u < v => ledger[u] # "none"]_vars

(* A replica that serves requests finds the tables of every migration it
   ships, except of one whose name the shared ledger held; the first file is
   no exception, be it recorded without its table.  Nor is a row ever written
   for another reason than a body that ran or such a name. *)
ServingMeansMigrated ==
  /\ \A r \in Replicas : pc[r] = "up" =>
       \A v \in 1..Release[r] : HasTables(v) \/ (v \in legacy /\ v # 1)
  /\ \A v \in Versions : ledger[v] # "none" => HasTables(v) \/ v \in legacy \/ v = 1

(* "Stamp those versions into the per-service ledger ... so nothing re-runs."
   It does not hold: README.md, Findings. *)
NothingReruns == [][\A v \in public : runs'[v] = runs[v]]_vars

(* "Seeding on a bare name match would stamp a migration as applied that never
   ran here", which the look at hasOwnTables is to prevent.  It does not hold:
   README.md, Findings. *)
ServedTablesExist ==
  \A r \in Replicas : pc[r] = "up" => \A v \in 1..Release[r] : HasTables(v)

(* Why the two hold.  A row has its reason, tables in iag_pm without a row are
   of a name in the shared ledger, and once there is a table in iag_pm or a row
   of the second file, the table of the first is there. *)
LedgerExplained ==
  /\ \A v \in Versions : ledger[v] # "none" => HasTables(v) \/ v \in legacy \/ v = 1
  /\ \A v \in Versions : runs[v] > 0 => ledger[v] # "none" \/ v \in legacy
  /\ hasOwnTables \/ ledger[2] # "none" => HasTables(1)

(* The migrations below n with tables in iag_pm are in the ledger. *)
SeededBelow(n) ==
  \A v \in Versions : v < n /\ runs[v] > 0 => ledger[v] # "none"

(* What a replica's Up has established where it is; none of it can be undone
   by another replica, since rows only ever come in with their bodies. *)
UpKnows(r) ==
  /\ pc[r] \in {"seed", "loop", "tx"} => at[r] <= Release[r] + 1
  /\ pc[r] = "seed" => hasOwnTables /\ SeededBelow(at[r])
  /\ pc[r] \in {"load", "loop", "tx"} => SeededBelow(Release[r] + 1)
  /\ pc[r] \in {"loop", "tx"} =>
       \A v \in Versions : v < at[r] \/ applied[r][v] # "none" => ledger[v] # "none"
  /\ pc[r] = "tx" => at[r] <= Release[r]
  /\ pc[r] = "up" => \A v \in 1..Release[r] : ledger[v] # "none"

(* The inductive invariant. *)
IndInv ==
  TypeOK /\ LedgerExplained /\ \A r \in Replicas : UpKnows(r)

(* Every replica serves in the end: replicas that lose a race with another
   one exit, but do not do so for ever. *)
ReplicasStart == \A r \in Replicas : <>[](pc[r] = "up")
=============================================================================
