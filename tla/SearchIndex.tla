---------------------------- MODULE SearchIndex ----------------------------
(***************************************************************************)
(* pm_search_index of one workspace and the transactions of                *)
(* search.Service.Reindex, which deletes the workspace's rows and inserts  *)
(* those built from one version of the document.                           *)
(*                                                                         *)
(* Postgres runs them READ COMMITTED: the DELETE works on the rows that    *)
(* were committed when it began and waits for a transaction that has       *)
(* deleted one of them, and skips the row when that one commits; an INSERT *)
(* waits for a transaction that has inserted or deleted a row of the same  *)
(* key, and fails on the UNIQUE constraint when such a row is committed.   *)
(* A row is the entity it describes and the version it was built from.     *)
(*                                                                         *)
(* Reindex runs after the commit of Service.Mutate, under no lock: the     *)
(* rebuilds of several requests overlap.  PUT /workspace, the consumer and *)
(* the jobs commit without reindexing.                                     *)
(***************************************************************************)
EXTENDS Naturals, Sequences

CONSTANTS Entities,  \* tasks, projects, goals and messages of the workspace
          Indexers,  \* requests through Service.Mutate, once each
          MaxOther   \* bound on commits that do not reindex

ASSUME SearchAssumption ==
  MaxOther \in Nat

VARIABLES
  docs,     \* the committed versions; each is the entities it shows
  version,  \* indexer -> the version it committed, or 0
  other,    \* commits without reindexing
  index,  \* committed rows
  txn,    \* indexer -> "none", "delete", "insert", "committed" or "failed"
  scan,   \* indexer -> rows its DELETE has still to visit
  del,    \* indexer -> rows it has deleted, uncommitted
  rows,   \* indexer -> rows it has still to insert (buildRows)
  ins     \* indexer -> rows it has inserted, uncommitted

docVars == <<docs, version, other>>
searchVars == <<docVars, index, txn, scan, del, rows, ins>>

SearchInit ==
  /\ docs \in {<<es>> : es \in SUBSET Entities}
  /\ version = [w \in Indexers |-> 0]
  /\ other = 0
  /\ index = {}
  /\ txn = [w \in Indexers |-> "none"]
  /\ scan = [w \in Indexers |-> {}] /\ del = [w \in Indexers |-> {}]
  /\ rows = [w \in Indexers |-> {}] /\ ins = [w \in Indexers |-> {}]

(* Repo.Update in Mutate, and elsewhere. *)
Commit(w, es) ==
  /\ version[w] = 0
  /\ docs' = Append(docs, es)
  /\ version' = [version EXCEPT ![w] = Len(docs) + 1]
  /\ UNCHANGED <<other, index, txn, scan, del, rows, ins>>

CommitOther(es) ==
  /\ other < MaxOther
  /\ docs' = Append(docs, es)
  /\ other' = other + 1
  /\ UNCHANGED <<version, index, txn, scan, del, rows, ins>>

(* buildRows: the rows of the entities a version of the document shows. *)
buildRows(es, v) == {[entity |-> x, ver |-> v] : x \in es}

(* The DELETE statement takes its snapshot. *)
BeginReindex(w) ==
  /\ version[w] # 0 /\ txn[w] = "none"
  /\ txn' = [txn EXCEPT ![w] = "delete"]
  /\ scan' = [scan EXCEPT ![w] = index]
  /\ rows' = [rows EXCEPT ![w] = buildRows(docs[version[w]], version[w])]
  /\ UNCHANGED <<docVars, index, del, ins>>

(* It visits one row: not while another transaction has it deleted; a row
   that is no longer there is skipped. *)
DeleteRow(w, r) ==
  /\ txn[w] = "delete" /\ r \in scan[w]
  /\ \A o \in Indexers \ {w} : r \notin del[o]
  /\ scan' = [scan EXCEPT ![w] = @ \ {r}]
  /\ del' = [del EXCEPT ![w] = IF r \in index THEN @ \cup {r} ELSE @]
  /\ UNCHANGED <<docVars, index, txn, rows, ins>>

DeleteDone(w) ==
  /\ txn[w] = "delete" /\ scan[w] = {}
  /\ txn' = [txn EXCEPT ![w] = "insert"]
  /\ UNCHANGED <<docVars, index, scan, del, rows, ins>>

SameKey(rs, r) == \E s \in rs : s.entity = r.entity

(* Mutant of InsertRow: the table has no UNIQUE key. *)
InsertWithoutUnique(w, r) ==
  /\ txn[w] = "insert" /\ r \in rows[w]
  /\ rows' = [rows EXCEPT ![w] = @ \ {r}]
  /\ ins' = [ins EXCEPT ![w] = @ \cup {r}]
  /\ UNCHANGED <<docVars, index, txn, scan, del>>

(* One INSERT, once no open transaction may still decide about the key and
   no committed row has it. *)
InsertRow(w, r) ==
  /\ txn[w] = "insert" /\ r \in rows[w]
  /\ \A o \in Indexers \ {w} : ~SameKey(ins[o] \cup del[o], r)
  /\ ~SameKey(index \ del[w], r)
  /\ rows' = [rows EXCEPT ![w] = @ \ {r}]
  /\ ins' = [ins EXCEPT ![w] = @ \cup {r}]
  /\ UNCHANGED <<docVars, index, txn, scan, del>>

CommitReindex(w) ==
  /\ txn[w] = "insert" /\ rows[w] = {}
  /\ index' = (index \ del[w]) \cup ins[w]
  /\ txn' = [txn EXCEPT ![w] = "committed"]
  /\ del' = [del EXCEPT ![w] = {}] /\ ins' = [ins EXCEPT ![w] = {}]
  /\ UNCHANGED <<docVars, scan, rows>>

(* A statement fails (UNIQUE, a deadlock, the request's context) and the
   deferred Rollback runs; Mutate only logs it. *)
ReindexFails(w) ==
  /\ txn[w] \in {"delete", "insert"}
  /\ txn' = [txn EXCEPT ![w] = "failed"]
  /\ scan' = [scan EXCEPT ![w] = {}] /\ rows' = [rows EXCEPT ![w] = {}]
  /\ del' = [del EXCEPT ![w] = {}] /\ ins' = [ins EXCEPT ![w] = {}]
  /\ UNCHANGED <<docVars, index>>

SearchNext ==
  \/ \E es \in SUBSET Entities : CommitOther(es) \/ \E w \in Indexers : Commit(w, es)
  \/ \E w \in Indexers :
       \/ BeginReindex(w) \/ DeleteDone(w) \/ CommitReindex(w) \/ ReindexFails(w)
       \/ \E r \in scan[w] : DeleteRow(w, r)
       \/ \E r \in rows[w] : InsertRow(w, r)

SearchSpec == SearchInit /\ [][SearchNext]_searchVars

-----------------------------------------------------------------------------
Row == [entity : Entities, ver : Nat]

(* Types of the state. *)
SearchTypeOK ==
  /\ docs \in Seq(SUBSET Entities)
  /\ version \in [Indexers -> 0..Len(docs)]
  /\ other \in 0..MaxOther
  /\ index \subseteq Row
  /\ txn \in [Indexers -> {"none", "delete", "insert", "committed", "failed"}]
  /\ scan \in [Indexers -> SUBSET Row] /\ del \in [Indexers -> SUBSET Row]
  /\ rows \in [Indexers -> SUBSET Row] /\ ins \in [Indexers -> SUBSET Row]

(* The rows of version v. *)
RowsOf(v) == buildRows(docs[v], v)

(* However many reindexes overlap, and whichever of them fail, the index holds
   whole versions of the document, none of it cut by a rebuild that came in
   between, and no entity twice.  Two rebuilds of versions with an entity in
   common cannot both stay: the UNIQUE key of that entity makes one of them
   fail as a whole. *)
IndexIsWholeVersions ==
  \A r \in index :
    /\ RowsOf(r.ver) \subseteq index
    /\ \A s \in index : s.ver # r.ver => docs[r.ver] \cap docs[s.ver] = {}

(* "The indexer is called from the workspace service after every successful
   mutation", so that the rows are those of one version.  It does not hold:
   README.md, Findings. *)
IndexIsOneVersion ==
  index = {} \/ \E v \in DOMAIN docs : index = RowsOf(v)

(* Why it holds.  Each indexer has a version of its own. *)
VersionsApart ==
  \A w, o \in Indexers : version[w] # 0 /\ version[w] = version[o] => w = o

(* Where a transaction is. *)
InTransaction(w) ==
  /\ txn[w] # "none" => version[w] \in DOMAIN docs
  /\ txn[w] \in {"delete", "insert"} => rows[w] \cup ins[w] = RowsOf(version[w])
  /\ txn[w] # "insert" => ins[w] = {}
  /\ txn[w] # "delete" => scan[w] = {}
  /\ txn[w] \notin {"delete", "insert"} => del[w] = {}

(* What has been committed, or was when a DELETE began, is a row of a version
   whose transaction has committed. *)
Committed(r) ==
  /\ \E o \in Indexers : txn[o] = "committed" /\ r.ver = version[o]
  /\ r.ver \in DOMAIN docs /\ r \in RowsOf(r.ver)

RowsAreCommitted ==
  /\ \A r \in index : Committed(r)
  /\ \A w \in Indexers : \A r \in scan[w] \cup del[w] : Committed(r)

(* A version is in the index as a whole, and a DELETE meets all of it or,
   when it was committed after the DELETE began, nothing. *)
IndexIsWhole == \A r \in index : RowsOf(r.ver) \subseteq index

MeetsWholeVersions(w) ==
  \A r \in index \cap (scan[w] \cup del[w]) : RowsOf(r.ver) \subseteq scan[w] \cup del[w]

(* A deleted row is there until its transaction commits. *)
DeletesApart ==
  /\ \A w \in Indexers : del[w] \subseteq index
  /\ \A w, o \in Indexers : w # o => del[w] \cap del[o] = {}

(* The keys of committed and of inserted rows differ, except from those the
   inserting transaction has deleted. *)
KeysDiffer ==
  /\ \A r, s \in index : r.entity = s.entity => r = s
  /\ \A w \in Indexers : \A r \in ins[w] :
       /\ ~SameKey(index \ del[w], r)
       /\ \A o \in Indexers \ {w} : ~SameKey(ins[o], r)

(* The inductive invariant. *)
SearchInv ==
  /\ SearchTypeOK /\ VersionsApart /\ RowsAreCommitted /\ IndexIsWhole
  /\ DeletesApart /\ KeysDiffer
  /\ \A w \in Indexers : InTransaction(w) /\ MeetsWholeVersions(w)
=============================================================================
