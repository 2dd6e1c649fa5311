# A TLA+ model of the IAG project-management backend

This directory holds TLA+ modules that model the Go backend in `src/`, the TLC
configurations that check them on small instances, and TLAPS proofs of their
main properties for every value of the constants. `PROJECT.json` lists the
components, the runs, the map from every definition to the lines it models, the
hazards and the theorems.

## The system

A workspace is one JSON document in one row of Postgres (`pm_workspaces`:
owner, document, version). Nearly everything the backend does is a change of
such a document; replicas share nothing but Postgres, Kafka and, optionally,
Redis. The parts:

| part | state | operations | talks to |
|---|---|---|---|
| workspace store (`internal/store`) | rows `(owner, document, version, updated_at, org)`, memberships | get, create on first use, resolve for a user (own, most recently updated shared, else create), compare-and-swap update, list | everybody |
| workspace service (`internal/workspace`) | none | `Mutate`: resolve, run a closure on the document, run the automation rules, update; one retry on a version conflict; then broadcast, reindex, notify, webhooks | store, hub, search, rules, webhooks |
| full document endpoint (`handlers/workspace.go`) | none | GET (filtered for shared members), PUT with `If-Match`, a body version or neither; websocket | store, hub |
| entity endpoints (`handlers/*.go`) | none; one closure each over the document | projects, tasks, sections, subtasks, dependencies, sprints, WBS, timers, approvals, procurement, templates, forms, goals, rules, custom fields, comments | `Mutate`, event bus, chat |
| jobs (`internal/jobs`) | reminder marks; recurrence cursors inside the document | archive sweep, recurrence, reminders | store, bus |
| event bus and outbox (`internal/events`, `internal/outbox`) | `pm_event_outbox` rows, their leases | publish after a commit, claim, dispatch, mark, back off | Kafka |
| webhooks (`internal/webhooks`) | subscriptions in the document, a delivery queue | enqueue, claim, deliver, back off | HTTP endpoints |
| consumer (`internal/consumer`, `third_party/platform-go/events`) | Kafka offsets, `pm_processed_events` | fetch, dedupe, handle with retries, mark, dead-letter, commit | `Mutate`, finance |
| requisitions | in the document; accounts-payable items in finance | create, withdraw, apply procurement's decision, book in finance | bus, consumer, finance |
| realtime hub (`internal/realtime`) | connections per workspace | register, broadcast, Redis bridge | service |
| search index (`internal/search`) | one set of rows per workspace | reindex, query | service |
| request audit (`internal/audit`) | bounded queue, drain goroutine | record, flush, close | Postgres |
| migrations (`internal/migrate`) | ledger of applied files | apply at start | Postgres |
| members (`handlers/entities.go`, `internal/consumer`) | `pm_workspace_members`, and `Members` of the document | add by hand, link an organisation and sync it, apply the events of users and organisations | users service, auth |
| sharing (`handlers/share.go`) | caches of auth's keys and of the status of links | show one task or project | auth |
| authentication, clients, configuration | tokens | permission checks, HTTP calls | other services |

What is hard in it:

* **Concurrency.** Every write is a read, a computation in memory and a
  conditional update, with any other request, job or replica in between. The
  version comparison is the only lock in the system.
* **Retries of impure closures.** `Mutate` runs its closure twice after a
  conflict. A closure that keeps something outside the document carries the
  first attempt's data into the second.
* **Work after the commit.** Events, chat threads, broadcasts and reindexing
  follow the commit without a transaction: a crash loses them, a race reorders
  them.
* **Duplicate delivery.** Leases of one second, several publishers, redelivered
  Kafka messages, a mark that fails: everything may be done twice.
* **Identity.** Requisition numbers are unique only among the live requisitions
  of one workspace, and are used as keys in other services; the ids of tasks,
  sections and sprints are given out again.
* **Two copies of one fact.** A member is a row and a record of the document; a
  task's home is in two fields; the index, the ledger of migrations and the
  caches of the share links each repeat something that changes elsewhere.

What makes each part correct: an acknowledged edit is in the document once and
stays there; access control holds against what is stored at the moment of the
write; an event that reached the outbox is delivered and its duplicates can be
told; a processed decision is in the document and in finance, and what is in
finance is not removed; no message blocks the topic. Clients that stay connected
learn of every announced version; the index holds whole versions; every
migration runs once, in order, before anybody serves; whoever joins an
organisation gets into its workspaces and whoever is removed stays out; a link
that was withdrawn is refused soon.

## The modules

| module | models | notes |
|---|---|---|
| `VersionedRegister` | what the store promises | abstract: edits and replacements of a versioned document, each atomic |
| `Workspace` | store, `Mutate`, full PUT, archive and recurrence jobs, memberships | implements `VersionedRegister` |
| `Outbox` | `events.Bus`, `pm_event_outbox`, `outbox.Publisher` | |
| `Requisitions` | requisition endpoints, consumer loop, dedupe, finance booking | a `Mutate` is one step, which `Workspace` justifies |
| `Projects` | `putProject` under `Mutate`'s retry, status posts, contract links, chat thread | |
| `NextIds` | `NextTaskID` and its relatives: how ids are generated | extended by the next three |
| `Tasks` | tasks, subtasks, comments, dependencies, timers, what rules attach to tasks | a `Mutate` is one step |
| `Breakdown` | phases, activities, work programs, with creates under `Mutate`'s retry | |
| `Planning` | homes of a task (projects, sections, sprints), approvals | a `Mutate` is one step |
| `Hub` | `realtime.Hub`: connections, their write mutexes, frames | a component, without a specification of its own |
| `Realtime` | broadcasts after a commit, Redis bridge, websocket handler | composes `Hub` with the writers and the bridge |
| `SearchIndex` | `search.Service.Reindex` as overlapping transactions | |
| `Migrate` | `migrate.Up` on several replicas and releases | |
| `Members` | rows and records of members, organisation and user events, setOrg's sync | a `Mutate` is one step |
| `ShareLink` | `PublicShare`: a link, its two caches, auth, the documents | |
| `MC...` | constants and symmetry of the runs | `Projects`, `Tasks` and `Planning` need none |
| `WorkspaceProofs`, `OutboxProofs`, `RequisitionsProofs`, `ProjectsProofs`, `TasksProofs`, `RealtimeProofs` | proofs | each extends its module and TLAPS |
| `BreakdownProofs` | proofs about the plan of a document | extends `Breakdown` and `Planning` |
| `PeripheryProofs` | proofs about what stands around the document | extends `Migrate`, `SearchIndex`, `ShareLink` and `Members` |

Definitions named "Mutant of ..." are not part of a specification: each is a
plausible bug in the code a definition models, used to see that a property
notices it. `PROJECT.json` says which property each one breaks.

### Workspace

Each SQL statement is a step. A document is the *set of edits it reflects*: the
request, PUT or job `r` that is written adds the element `r`. That is enough to
say that an update was lost, that an old document was written, or that somebody
wrote twice. `rows`, `doc`, `ver`, `newer` (the order of `updated_at`) and
`member` are the tables; `snapOwner`, `snapDoc`, `snapVer` are the
`store.Workspace` a request resolved; `body`, `expected` and `blind` belong to
PUT /workspace (blind: neither `If-Match` nor a version, so the current version
is adopted). `ResolveForUser` is taken apart into its queries (`Get`,
`GetShared`, `GetAgain`, `Insert...`). `CommitEdit` and `RetryEdit` are the two
outcomes of `Mutate`'s update, `CommitPut`, `ConflictPut` and `RefusePut` those
of PUT. The jobs list all workspaces (`ListWorkspaces`) and then write them one
by one (`JobCommit`); archive reads a workspace again after a conflict
(`JobRefresh`), recurrence logs it. A shared member sees and sends a filtered
document (`Private`). Roles are part of the document (`RoleEdits`). A client may
send any version (`Sendable`) and any roles, given to it or not; the PUTs that
make use of that are `odd`. `by`, `commits`, `lost`, `odd` and `hadRoles` (the
roles a workspace has had) are history and no action reads them.

### Outbox

Each SQL statement and each Kafka write is a step. Time is reduced to `due`:
a lease or a backoff makes a row not due and `Elapse` makes it due again at any
moment, because nothing bounds a Kafka write against the one-second lease.
`Enqueue` follows `Commit` in a statement of its own, as in the code, and may
fail (`PublishFails`); `PublishDirect` is the bus without an outbox. Claims may
be lost, dispatches may fail before or after Kafka has the message, marks may
fail, publishers may crash.

### Requisitions

`status`, `num` and `ref` are fields of the requisitions in the documents;
`processed` is `pm_processed_events`; `ledger` is finance, which is external and
holds one item per document reference; `decision` is what procurement, external
too, published. A consumer `c` is at a label `at[c]` of its loop: `fetched`,
then the handler (`apply`, `load`, `create`, `persist`), then `mark` or `dlq`,
then `commit`. Every call may fail (`HandlerFails`, `SeenFails`, `MarkFails`,
`DeadLetterFails`), the process may die anywhere (`Abandon`), and an uncommitted
message may be fetched again while another replica still handles it. A message
names its requisition the way the code does, by the submitter and a number; each
`Mutate` and `GetByOwner` on the way resolves the submitter to a workspace of its
own (`Resolution`: the user's own, else any that is shared with the user at the
moment, else a new one), so the decision on a member's requisition may be applied
in another workspace than the one it was made in. `Target(c, w)` is whatever
requisition of workspace `w` has that number *now*. Numbers are one more than the
largest in use, so a number is given out again after a removal. `Load` needs a
workspace of the submitter's own, else it fails every time (`LoadFails`); without
a finance client nothing is booked (`NoFinance`). A client may post a requisition
as approved, or with a finance reference (`Preapproved`, `Prebooked`).

### Projects

One project and its writers. `putProject`'s closure writes into the struct bound
from the request, which lives across the attempts; so a PUT is split into `Read`
(the resolve) and `Commit`, `Retry`, `Conflict` or `QueryFails`, with the struct
in `p`. `Merged` is the closure on an existing project, `Fresh` on a new one.
Whatever `mutate` answered, a PUT that found no project starts
`ensureProjectThread` (`Answer`, `SaveThread`, `ThreadFails`). The lists
`statusHistory` and `linkedContracts` are sets of what was appended; a nil list,
an empty list and a list are distinguished as Go and `omitempty` distinguish
them. A full PUT /workspace is not part of this module.

### Tasks

`tasks` maps ids to tasks; `subtasks`, `comments`, `deps` and `entries` are the
lists of the document that name a task by id. Ids are one more than the largest
in use (`NextIntID`), so the id of a task that was removed for good is given out
again. A record left behind would then belong to a stranger: to see this, each
task carries a `serial`, and each record the serial of the task it was made for
(`of`). Both are history; no action reads them. The ways into the list are
creation, bulk creation, forms, templates and clones; the ways out are
deletion (soft, or for good: `cascadeRemoveTasks`), singly or in a batch.
`Automate` is the automation engine on the events of a step: which rules exist
and match is open, so any of the effects they could have may happen, and
`create_subtask` needs the task of its event while `post_comment` does not.
Time entries outlive their task, as in the code.

### Breakdown

The three levels of rows with the parents they name. A create's closure writes
the generated id into the request's own struct, so a create is `Start`, then
`Closure` on the document just read, then `Write` or `Conflict`. Its second
attempt keeps the id of the first, which another request may have been given
meanwhile; so ids are not unique, and rows are told apart by the request `by`
that made them. Deletes detach the children they find.

### Planning

Every action is a whole closure; a patch of several keys is the patches of each
of them in the order of `applyTaskPatch`. A task starts as an old document has it
(only `Project`) or empty. `normalizeTaskProjects` and `dedupeNonEmpty` are the
functions of that name; a loop that copies some entries of a list is `Kept`, the
list at a set of positions, which unlike a fold can be reasoned about for lists
of any length. Sections and sprints are numbered, removed and referred
to alike, so a behaviour follows one of the kinds as `groups`; a group has a
serial that is never used twice, and a task remembers (`of`) the serial of the
group it was put into, which no action reads. `ApproveTask`, `RejectTask` and
`SetApprovers` are the three approval endpoints; `PatchTypeDone` is the patch
that can set `done` or change the type at any time.

### Hub and Realtime

`writeFrame` is three steps, because the hub's lock is held only while the
connection's mutex is looked up: `LookUp` (no mutex any more: write at once),
`Lock`, `WriteMessage`. A frame is the version it carries. `Realtime` adds the
writers, which commit a version and then push it to the users that
`WorkspaceAudience` answered (the owner alone if that query fails), locally or
by Redis; the subscribers; and a connection's handler: register (`Join`), load
(`LoadSnapshot`), send, serve with pings, leave. There is one workspace: a member
of several, whose snapshot may be that of another one, is not followed. Whether a replica has Redis
(`bridged`) and which writers are jobs, which announce nothing (`silent`), is
chosen at the start. Redis may lose messages (`MessageLost`) and a publication
may fail; both are recorded in `lost`.

### SearchIndex

A reindexing is a transaction that deletes all rows of the workspace and inserts
those of one version, row by row, as Postgres runs it under READ COMMITTED: the
DELETE visits the rows that were committed when it began (`scan`), waits for
another transaction that has deleted one and skips it after that one's commit;
an INSERT waits for an uncommitted row of the same key and fails if one is
committed. A version may show any of the entities, and the index starts empty.
`CommitOther` is a PUT, a job or the consumer, which write the
document and do not reindex.

### Migrate

A migration is its number and a release ships the files `1..n`. `runs` counts how
often a body committed in schema `iag_pm`; `public` are the files whose tables an
earlier deployment left in the other schema of the search path; `ledger` is the
service's own ledger and `legacy` the names in the shared one that are names of
our files, ours or another service's. `Init` has every combination that follows
from three histories: files run under the shared ledger, files run under our own,
and rows of other services; 0001 may be recorded without its table, as the
comment of 0002 tells. `hasOwnTables` looks at `iag_pm` only, as the query does.
A replica is at a label of `Up`: `SeedCheck` and `Seed` (seeding from the shared
ledger), `LoadApplied`, then the loop with `Skip`, `Restamp` (another checksum),
`ExecBody` and `Apply` or, when another replica has inserted the ledger row
first, `ApplyConflicts`: its transaction is rolled back, it exits and is
restarted. A transaction's body and row take effect in one step; what is
interleaved is everything between the load and it.

### Members

`sql` are the rows of `pm_workspace_members`, `members` the records of the
document, `open` and `closed` whom an open and a done task of a workspace name.
The organisation's events are one partition, `log`, with an `owner`, the position
`next` it fetches and the committed `offset`. A consumer fetches an event and
lists the workspaces (`Receive`), skips it (`Seen`) or, when the list fails every
time, gives it to the dead letters (`DeadLetter`); then in each workspace it
writes the row (`Visit`) and the document (`ApplyEvent`), either of which may
fail and is then only logged. After a `Rebalance` the event is fetched again by
the new owner while the old one goes on with it; `Stop` is the end of a replica.
`SetOrg` writes `org_id` and then syncs: `ListOrgMembers` asks the users service,
and each member listed is written in two steps. `AddMember` is POST
/workspace/members, whose record replaces the first one with the same initials;
the document is that of a second resolve and the record's user may be the
client's. `Assign`, `Complete`, `Reopen` and `Recur` (the recurrence job) move
tasks. History variables say where a joining was lost (`excused`: one of its own
writes or lists failed, its event was dead-lettered, the record was replaced, or
an older removal came late), which rows a failed RemoveMember left (`stuck`), who
was removed and has been granted nothing since (`out`), which of them was given a
task since (`tasked`), and which events came to an end (`handled`). The users and
auth services are external. An e-mail is taken to be that of its user.

### ShareLink

One link. Auth knows two facts about it, each of which may cease to hold: the key
that signed it is published, and it is active. The two caches have the same
protocol (read under a lock, ask without one, store on arrival), so `Ask`,
`Answer`, `ReceiveAnswer`, `AskFails` and `Hit` serve both; then `Verify` uses the keys
that are cached by then, `Find` takes the first document in which the record
lives, and `Serves` decides on that document after the status was asked. Being in
the workspace, which `canSee` asks of the link's creator, includes inactive
records, as in the code; it is part of a document being public.

## The runs

| run | states | question |
|---|---|---|
| `workspace` | 752,180 | Is any acknowledged edit lost, any answer false, any role brought in without pm.admin, any write not atomic? |
| `outbox` | 11,479 | Is every row delivered, and can duplicates be told? |
| `requisitions` | 1,101,094 | Is an owner's processed decision applied and booked, is what is booked kept, does any message block the topic? |
| `projects` | 1,408,510 | Do access and conversation survive PUTs, retries and background work? |
| `tasks` | 247,852 | Does any subtask, comment or dependency end up on another task; can a user have two timers on one? |
| `breakdown` | 3,322,625 | Does every parent exist, and every answered row? |
| `planning` | 287,760 | Do the two fields of a task's home agree; is a deleted project empty; does a task fall into a section that got an old id; does a task pass with approvers missing? |
| `realtime` | 97,055 | Do two goroutines ever write to one registered socket; does a connected client miss a version; does a push wait for ever? |
| `search` | 847,809 | What can overlapping reindexings leave in the index? |
| `migrate` | 643,082 | Does a body run twice or out of order in `iag_pm`; which tables may a serving replica lack; does every replica come up? |
| `members` | 2,955,469 | Does whoever joins get in, with two replicas of the consumer and a sync; does whoever is removed stay out, whatever is added by hand, assigned, reopened or copied? |
| `share` | 2,441,934 | How long is a withdrawn link served; is anything served that was not to be seen? |

Every run passes.

**Bounds.** `workspace`: an owner with a workspace and a shared member without,
one entity request, one PUT and one job at a time, every assignment of the two
requests to the two users, versions 0 to 3 in a PUT (that is, none, the present
and later ones). Two writers suffice for a lost update and the third
forces `Mutate` into its second attempt; the version rises by at most four.
`outbox`: two events and two publishers with batches of one; two publishers are
what it takes for a row to be claimed twice, two events for ids to be confused.
`requisitions`: an owner's requisition and one of a shared member, who may get a
workspace of her own at any time; a number is reused, the member's is posted as
approved and perhaps with a reference;
two consumers; `MaxRetries` 1
instead of 3, so that one failure is retried and two exhaust it; `MaxFaults` 2
bounds failed calls, crashes and redeliveries together. `projects`: an admin's PUT and a
writer's, one status post, one contract, two conversation ids, `MaxVersion` 2
bounding deletions, templates and edits elsewhere. Every PUT may send or omit
each field. `tasks`: two users, three tasks ever made, requests of at most two
and three records at a time. A removal, the reuse of the id and a bystander are
three tasks; a batch of two is what can name one task twice or remove both ends
of a dependency. `breakdown`: three creates, each of any level, so that all
three levels can be there at once, or two creates of one level race for an id
under the third; the version rises to six, three writes and two deletes or
patches between them; ids up to 2, of which clients may choose 1. The creates
are interchangeable and the run uses that symmetry. `planning`: one task, since
no action relates two, two projects and two approvers (lists of them may repeat
one or hold a blank), three sections or sprints ever made, so that an id is
given out again beside another that stays. `realtime`: two commits on two
replicas and one connection, on the replica of one of them: a push that comes
locally, one that comes by Redis and a ping are three writers on one socket, and
either push may overtake the snapshot. `search`: three transactions, so that one
waits for the second while the third commits; two entities, so that versions may
share one or none. `migrate`: a replica with two files and one with three, two
crashes, and every initial state described above. `members`: one workspace
(listing and visiting are separate steps, so a second would repeat what the first
shows), two consumers, two users whose initials are equal, one rebalance or other
fault, one setOrg; and (`Scenario`) two events, or one beside a member added by
hand, or one beside two steps that give a task. A removal and a re-adding of one
user, or events of two, on two replicas beside a sync are there, and so are a
removal, a grant and a task that is done and comes back.
`share`: two views, a clock
of four moments, a status that is kept for two and asked for one (so that a late
answer outlives a newer one), keys kept for one; one document.
Proofs remove the bounds for the invariants and action properties of every run.

Deadlock is checked in `share`, where something is always possible. The other runs
have finitely many requests, after which the system is at rest.

**Fairness.** `Outbox!Fairness`: handlers that have committed go on (they are
running goroutines; a crash is `PublishFails`), timers fire, a publisher that
polls keeps polling (`drain` runs on a ticker for the life of the process), and
what is tried again and again succeeds in the end (strong fairness of claim,
Kafka write and mark: neither Postgres nor Kafka is down for ever). Without the
last assumption nothing can be delivered. `Requisitions!FairSpec`: a replica
that runs takes its next step (`Consumer.Run` is a loop without conditions);
nobody has to create, delete, decide or fail. `Realtime!FairSpec`: goroutines go
on, the subscribers of Redis read, and a goroutine that waits for a write mutex
which is released again and again gets it (strong fairness: Go's `sync.Mutex`
hands over to a starving waiter); nobody has to commit, connect, ping or leave,
and Redis need not deliver. `Migrate!FairSpec`: `Up` goes on, and a replica that
exited is started again, which is the platform's restart policy; crashes are
bounded, errors are not.

## Findings

Disagreements between the code and what it says about itself, each a behaviour
of a module here. The first nine are stated by a definition that does not hold
and is in no run; TLC finds the counterexample on the instance named, or on that
of the module's run.

1. `Workspace!CommittedEditSurvivesCreation` (two requests of one user who has no
   workspace: `Assignments <- BothCal`, `Mutations = {m1, m2}`, `Puts = {}`,
   `Schedules <- NoJob`). `GetOrCreate`'s `ON CONFLICT DO UPDATE ... RETURNING id,
   version` gives the loser the winner's current version together with the default
   document; the loser's update then matches and overwrites the winner's committed
   edit, where the docs promise 409.
2. `Outbox!CommittedIsDelivered`: the event row is not written in the transaction
   of the document update, as the package comment says, but after it. A failure or
   a crash in between loses the event.
3. `Requisitions!RefNamesOwnItem`: `PM-REQ-<number>` is not unique across
   workspaces, and finance's 409 is taken for the requisition's own booking.
4. `Requisitions!ProcessedFindsOrigin`: the submitter's id does not let the
   consumer "find the originating workspace". A member's requisition may be looked
   for in another workspace, not be found, or another one with its number be
   decided, and the event is marked processed. This is why `ProcessedIsApplied` is
   about requisitions in a workspace of their submitter's own.
5. `Projects!ListsAreKept` (`Updates = {u1, u2}`): a status post or contract link
   that commits between the two attempts of a partial PUT is wiped by the second
   attempt, if the first found a list that was not empty.
6. `Tasks!ConflictMeansThisTask`: a task removed for good leaves its time entries;
   the next task gets its id and with it the time and the running timer, so
   starting a timer on it is refused.
7. `SearchIndex!IndexIsOneVersion`: two rebuilds that both find an index without
   committed rows, of versions that share no entity, both succeed and leave a
   mixture. `IndexIsWholeVersions` says what holds.
8. `Migrate!NothingReruns`: tables that a deployment without `search_path` left in
   `public` are not seen by the look at `iag_pm`, so nothing is seeded and every
   body runs again, into empty tables that hide the old ones. A restart midway
   finds tables in `iag_pm`, seeds the rest and leaves the schema split.
9. `Migrate!ServedTablesExist`: once `iag_pm` has tables, a later file of ours
   whose name another service left in the shared ledger is stamped and never runs,
   which the comment there says is prevented.
10. The roles a PUT sends are compared with the document read then, but the update
    is conditional on the version the client sent. A client without pm.admin that
    sends a version one ahead can undo an admin's change of roles that commits in
    between. `RolesNeedAdmin` states what holds.
11. `backoffFor`: from the 34th failure on the product overflows int64; the delay
    is negative or zero and the row is retried at once. `Outbox!MarkFailed` allows
    both.
12. `patchWorkProgram` writes `phaseId` unchecked, where every other create and
    patch checks the parent. This is why `ParentsResolve` says nothing of the
    phase of a work program.
13. A broadcast that collected a connection before `UnregisterAll` deleted its
    mutex writes without one, beside a writer that still holds it. This is why
    `OneWriterWhileJoined` speaks of registered connections.
14. The index is not rebuilt by PUT /workspace, the jobs and the consumer, and an
    older rebuild may commit last or a newer one fail: it stays behind until the
    next mutation. This is why `IndexIsWholeVersions` does not say which version.
15. The jobs announce nothing to the websockets, although "every successful
    mutation" is to be broadcast (`silent` in `Realtime`).
16. An approval task can be finished by a patch of `done`, without its approvers.
    `SignOffNeedsEveryone` is about steps that record an approval.
17. A deactivated user's open tasks are found by id, e-mail and name but not by
    initials, and the name also matches records of other users that have a user
    id. This is why `LeaversStayOut` makes an exception for grants to namesakes.
18. A done task keeps the removed user as its assignee; opened again, or copied by
    the recurrence job, it is an open task of theirs. `LeaversStayOut` tells these
    tasks apart (`tasked`).
19. A revoked link may be served for the cache's minute and the timeout of a
    request; `statusTTL` alone is not the bound. `WithdrawnIsRefused` states the
    one that holds.

Seen in `Members` and promised nowhere: a joining whose workspaces cannot be
listed is dead-lettered and lost; a replica that lost its partition in the middle
of a removal can delete the row after another one has handled the re-adding; a
row that RemoveMember failed to delete stays, although the record is inactive; a
member who is removed from the organisation and added again stays inactive in the
document, because `applyOrgMemberAdded` leaves an existing record as it is; a sync
that listed the members before a removal adds the removed one again; a reactivated
user becomes active again in workspaces they were removed from; POST
/workspace/members resolves twice, so row and record may be of two workspaces, and
of two users.

## What is proved

For every value of the constants that satisfies the named assumptions. These type
the constants and keep marker values apart from real ones; beyond that, `Migrate`
assumes that every release ships at least the first two files (the second is the
one that repairs the first; the repository ships more), `Workspace` that mutations,
PUTs and jobs are different writers, and `ShareLink` that what is cached is kept
for some time. The bounds on counters (`Max...`) are arbitrary numbers.

| module | theorems |
|---|---|
| `WorkspaceProofs` | `TypeCorrect`, `NoLostUpdate`, `IfMatchIsSafe`, `AnswersAreTrue`, `RolesAreGuarded`, `StoreIsRegister` (refinement) |
| `OutboxProofs` | `TypeCorrect`, `NothingGivenUp`, `DuplicatesAreRecognisable`, `DispatchedStays` |
| `RequisitionsProofs` | `TypeCorrect`, `ProcessedApplied`, `BookedStaysInPlace` |
| `ProjectsProofs` | `TypeCorrect`, `ClientsSetNoConversation`, `ConversationStays`, `AccessIsGuarded` |
| `TasksProofs` | `TypeCorrect`, `RecordsStay`, `TimersSingle` |
| `BreakdownProofs` | of `Breakdown`: `TypeCorrect`, `NoDanglingParents`, `AnswersAreTrue`; of `Planning`: `HomesAgree`, `PlacementsHold`, `DeletionEmpties`, `EveryoneSignedOff` |
| `RealtimeProofs` | `TypeCorrect`, `OneWriter`, `ClientsCatchUp` |
| `PeripheryProofs` | of `Migrate`: `TypeCorrect`, `RunOnceInOrder`, `ServesMigrated`; of `SearchIndex`: `IndexStaysWhole`; of `ShareLink`: `WithdrawalTakesEffect`, `ServesWhatWasPublic`; of `Members`: `NewcomersGetIn`, `RemovedStayOut` |

Each rests on an inductive invariant (`IndInv`, in `TasksProofs` `IInv`, and
`PlanInv`, `SearchInv`, `ShareInv`, `MembersInv` in the modules that are extended
together), a conjunction of named parts that TLC checked first.

* *Workspace.* The heart is `SnapshotsCoherent`: a (document, version) pair that
  somebody read is never newer than the row, and while the versions agree the
  documents do; so an update that matches the version replaces exactly what its
  writer read. It holds because every statement takes document and version from
  one row, and fails for the `INSERT` of `GetOrCreate`, which is why the
  properties speak of provisioned workspaces (`RowsStay`). `ExpectedCoherent`
  and `LoadedAfterExpected` carry the same argument over the two reads of PUT of a
  client that sends the version it was given or none: the roles are compared with
  a document that is not older than the expected version, hence, if the update
  matches, with the one it replaces. For any other client `RolesOnRecord` says
  that whatever was read, now or earlier, has roles the workspace has had.
* *Outbox.* `RowsStamped`, `WorkIsRows` and `MessagesStamped`: an id is given
  before the row is visible, publishers handle only rows, and a dispatch that
  returned no error has written the row's own id.
* *Requisitions.* Safety is stated for requisitions whose number no other decision
  that may be applied in their workspace has (`Unshared`, by way of `MayLand`). A
  step never makes a number unshared again (`UnsharedBefore`), so under that
  hypothesis whatever lands in the workspace under the number is its own decision
  (`TargetIsOwn`), an approval is never overwritten or removed (`ApprovedStays`)
  and a settled decision stays settled (`SettledStays`), however often it is
  delivered. A requisition in its submitter's own workspace (`Own`)
  is found again, since that workspace exists for good and is resolved first.
  `SoundWork` says what a consumer knows at each label; `Undisturbed` is that
  another consumer's step leaves it true.
* *Projects.* `SnapshotsCoherent` again: what the closure copies from the
  resolved project at its last run is current when the update succeeds. That
  covers the fields it copies unconditionally (conversation, and access without
  pm.admin), and is exactly what fails for the fields it copies only when empty.
* *Tasks.* What needs an argument is that a record and the task with the id it
  names are of one serial although ids are reused. A record made for a task
  names an id in use, because a removal takes its records along; a new id is
  larger than every id in use (`MaxIsBound`: a bounded set of numbers has its
  maximum; `IdsBounded` supplies the bound), so a task is never put under a
  record. Comments and dependencies may be made for an id that no task has
  (serial `Nobody`), about which nothing is claimed. One lemma per kind of
  change (`CreateKeeps`, `CloneKeeps`, `RemoveKeeps`, `HideKeeps`, `RecordsKeep`,
  `StartKeeps`, `StopKeeps`) covers the actions that share it.
* *Breakdown.* `ChecksAreCurrent`: the parents a closure found are there for as
  long as the version it read is the document's, because every change of the rows
  makes a new version. So the conditional write adds a row under parents that
  exist; a create that conflicts runs its check again. Deletes detach what they
  find in the same write. For `RowsMatchAnswers`, `OwnRows` says that a request's
  struct keeps naming it through both attempts, and `IdsBounded` that there is
  always a next id.
* *Planning.* The lists come first. `NthExists` and `KeptEntries` say what `Kept`
  returns, by a least counterexample over the positions; `DedupeSpec` and
  `DroppingSpec` follow, and from them what `normalizeTaskProjects` does
  (`Normalized`): it brings the two fields into line, leaves the others alone and
  adds no home. For `PlacementIsMeant` the invariant has to say more than the
  property: a task that remembers a group is in one that is there
  (`PlacementIsKept`), and no two groups have one id (`GroupsAreTold`, which needs
  that the next id is none of those in use). For `SignOffNeedsEveryone`,
  `ApproversApprove` says that neither list repeats anybody and that only
  approvers have approved; then equal lengths mean equal sets (`AllAreThere`, by
  cardinality).
* *Realtime.* `WritersHoldMutex`: whoever writes to a registered connection holds
  its mutex. It is inductive only with `FramesAreForJoiners`: no frame is for a
  connection that has still to register, so nobody is writing to it without a
  mutex when it does. `NothingMissed` says where the push of a version to a
  connection is at each moment, from the commit by way of Redis and the
  goroutines to the socket; at rest only the last place is left. Registering
  before the snapshot is read is what lets it hold from the start
  (`HandlersInStep`).
* *Migrate.* `LedgerExplained`: a row stands for tables that are there, a name in
  the shared ledger or the first file; tables in `iag_pm` without a row are of a
  name in the shared ledger; and once anything ran in `iag_pm`, or the second file
  has its row, the first table is there. `UpKnows` says what a replica's `Up` has
  established at each label; no other replica undoes it, because rows come in with
  their bodies and never go. Hence a body whose row a replica misses in its own
  transaction never ran in `iag_pm`, and its predecessors have rows
  (`SeededBelow`).
* *SearchIndex.* `MeetsWholeVersions`: a DELETE meets all rows of a version or none
  of them, because a version's rows are committed together (`IndexIsWhole`) and
  deleted rows stay until the deleter commits (`DeletesApart`). `KeysDiffer` is
  what the unique key gives: a rebuild that left a committed version in place has
  no entity in common with it, or fails as a whole. Nothing is assumed of the
  entities.
* *ShareLink.* `GoodNewsIsOld`: after a withdrawal a good answer on its way was
  asked for before it, so a good one in the cache came at most a timeout after
  it, whatever overwrote what. `ChecksPassed` carries that past the two checks.
  `FoundWasShown` does the same for the record.
* *Members.* `JoinersGetIn` speaks of moments of rest and is not inductive at all.
  `MembersAreOnTheWay` says for every other moment where what a member of the
  organisation lacks is to come from: a sync that has still to list or add them,
  a request's second write, or an event that nobody has handled and whoever has it
  has still to take to the workspace. A removal takes a row away while the user
  may already have joined again: then the newest of their events says so
  (`DirectoryIsAnnounced`) and is either not handled yet, and will come, or the
  removal was overtaken. That a committed event was handled, and that events are
  begun in order whoever has the partition, is `HandledInOrder`. `SingleRecords`
  covers the records by hand. `LeaversStayOut` is inductive by itself, given the
  types.

**Only model-checked:** liveness (`EnqueuedIsDelivered`, `DecisionIsCommitted`,
`PushArrives`, `ReplicasStart`), which is outside the prover's reach, and the
counterexamples of the findings.

## What is not modelled

* Of the document: the names mirrored in `Task.Subtasks`, goals, rules, custom
  fields, portfolios, files, procurement documents and the other planning lists:
  edits of a single entity under `Mutate`. A full PUT /workspace is an action of
  `Workspace` only: it may replace every list, so the integrity that `Tasks`,
  `Planning`, `Breakdown`, `Projects` and `Requisitions` show is that of the
  entity endpoints.
* Webhook deliveries have the outbox's protocol. Reminders and the request audit
  are best effort by their own comments: duplicates and dropped rows are allowed,
  so little is left to state.
* Consumed events that only append notifications or audit entries, profile
  updates, and the decisions on purchase requisitions.
* Chains of automation rules and their depth limit; recurrence cursors and
  retention cut-offs of the jobs.
* Permission checks and authentication keep no state; `pm.admin` appears as a
  set. Reports, workload, paging and other views change nothing. File storage,
  configuration, logging and HTTP clients are input and output.
* Contents: names, texts, dates, amounts. A payload appears only where a
  property tells two of them apart.

## Plan

Done: every module above with its runs, and the proofs of the invariants and
action properties the runs check. Next, in this order:

1. Step simulations along finer lines: that the requests `Requisitions`, `Tasks`,
   `Planning` and `Members` take as one step are `Mutate`s of `Workspace`.
2. `Jobs`: recurrence cursors, each due instance once, also after a conflict.
3. Webhook deliveries as a second instance of the argument of `Outbox`.
