# Junban in TLA+

This directory is a verification development of Junban, a local-first task
manager: a Rust server (`crates/`) that owns one SQLite profile, and a React
client (`src/ui/`) that shows views of it and stays current over server-sent
events. The modules are translated from the code; every definition that models
code is listed with its lines in `PROJECT.json` under `map`.

## 1. The system

| Part | Code | State it keeps | Operations |
| --- | --- | --- | --- |
| Storage thread | `junban-storage/src/lib.rs` | one SQLite connection, a command queue | executes commands one at a time |
| Mutation transaction | `tx.rs` | global revision, `events`, `operation_receipts`, `operation_undo`, activity | `mutate`, receipt cleanup, replay, pruning |
| Undo | `undo_ops.rs` | inverses and post-images in `operation_undo` | validate the post-image, apply the inverse, store the redo |
| Task operations | `task_ops.rs`, `detail_ops.rs`, `rows.rs` | tasks (a forest), comments, `blocks` relations | create, patch, complete, move, reorder, delete, bulk, relations |
| Catalog | `catalog_ops.rs` | projects, sections, tags, templates, filters | create, patch, delete |
| Time blocking | `timeblock_ops.rs` | slots with ordered members, blocks | create, patch, link, replan |
| Reminders | `reminder_ops.rs` | occurrences, one delivery lease | reconcile with the task, lease, claim, settle, sweep, compact |
| Service | `junban-app/src/service.rs` | none | stamps requests, publishes what was newly committed, assembles answers from several storage calls |
| Read models | `query_ops.rs`, `planning.rs`, `recurrence.rs`, `cursor.rs` | none | lists and pages, calendar, weekly review, statistics, nudges, series |
| HTTP layer | `junban-server/src/routes.rs`, `lib.rs` | refused tokens of the last minute | guard, demand ids and bodies, call, publish, answer |
| Profile | `storage/src/lib.rs`, `migration.rs`, `server/src/main.rs` | the lock, the schema version, backups, token and runtime files | lock, migrate, back up, serve, stop |
| Event streams | `junban-server/src/sse.rs`, `routes.rs` | broadcast, per-stream queue and channel, permits | subscribe, catch up, forward, recover from lag |
| Reminder wakes | `reminder_wake.rs` | a notify permit, a wake broadcast | sleep until the next due instant, wake, throttle |
| Browser stream | `src/ui/api/client.ts` | last revision, back-off | connect, deliver, resync, reconnect |
| Browser views | `useTaskQuery.ts`, `liveQuery.ts`, `WorkspaceContext.tsx` | rows, applied revision, cursor | snapshot, append a page, apply an event |
| Browser reminders | `useReminderDelivery.ts` | fence term, in-flight claim | acquire, sweep, claim, present, settle |

How they interact. A browser sends a mutation with an operation id it chose and
retries it under the same id. The service stamps the request with the wall
clock, queues a command and awaits the reply; the single storage thread executes
commands in queue order, which need not be the order of the stamps. After the
commit the request's handler publishes the event to an in-process broadcast, when
the runtime next polls it. Every event stream subscribes to the broadcast, reads
the durable log, and then forwards the broadcast. Views combine snapshots, event
patches and the answers to their own mutations, three sources that overtake one
another. Reminder delivery goes the other way: browsers compete for one lease in
the database and claim due occurrences under it.

What is hard here:

* retries, duplicates and crashes around the commit, and receipts that expire;
* undo of undo of undo, with other writers in between;
* stamps taken before the queue and compared after it;
* publications overtaking one another, catch-up racing with commits and with
  retention, queues that overflow, streams that break;
* a claim that outlives its lease, its task's schedule, or its browser;
* snapshots, patches and pages of a list applied out of order;
* an answer that needs several storage calls while others commit;
* deletions and undos that reach into five other tables;
* a coordinator that must neither miss a change nor sleep through a due instant;
* a process that is killed while it migrates, starts or stops.

What makes each part correct is stated by the properties of its module (section 3).

## 2. Modules

* **EventLog** is the abstract specification of the durable log: a revision that
  grows by one with every commit, and the window of revisions that still have a
  row in `events`, of which only the oldest is ever dropped. It also holds the
  catch-up query `list_events` (`ResyncRequired`, `Pages`) and what a page
  promises (`CatchUpGapFree`).
* **Receipts** extends EventLog with the mutation transaction. `inbox` holds
  stamped commands that the storage thread takes in any order (`Clean`), `stage`
  says which of the transactions of `mutate` has committed, and `Crash` may
  interrupt between any two. `Replay`, `Mismatch`, `Refuse`, `ApplyWrite` and
  `ApplyUndo` are the five ways out of the mutation transaction, `Prune` is one
  round of retention. A resource is a value, 0 for no row, and the revision that
  wrote it; a task's post-image pins both, a link's only its presence, and the other
  resources store no inverse. An undo stamps what it writes, except that the undo of
  a deletion puts the row back with the revision it had (`Restored`), and a deleted
  task's id is not used again (`Writable`). Time runs in half seconds because timestamps are compared as
  text, where a whole second sorts after the following half. `activity` is the
  activity log with three history fields the properties use.
* **LiveEvents** extends EventLog with the way from a commit to the browser:
  `unpublished` commits whose handler has not run on, the broadcast queue of each
  stream with its overflow (`Enqueue`), the stream's phases (opening, paging,
  live), the bounded channel to the response, and the browser's `seen` revision.
  `overtaken` is history: revisions that had not been published when a later one
  was.
* **ReminderDelivery** models `reminder_ops.rs`: tasks with a status and a
  `remindAt`, one occurrence row per instant, the lease with its fence term, and
  the claims granted so far. A granted claim can be settled at any later time, so
  late, repeated and crossing answers are all there. `Change` is the common shape
  of a user mutation: compact the audit, reconcile the rows, compact again, and
  store both snapshots for undo.
* **TaskGraph** models the task operations and their undo (`task_ops.rs`,
  `detail_ops.rs`, `undo_ops.rs`): rows with a parent and a recurrence lineage,
  comments, `blocks` relations, and per operation the inverse and post-image that
  `operation_undo` keeps. Each action is a whole committed transaction; a refused
  one is disabled. `RefsOk` is the program's walk up the ancestors, stated over sets
  closed under parents; `DeleteTask` and `DeleteRows` take the closure of a deletion
  with its cascades; `Undo` has one disjunct for each kind of inverse. `before` is history:
  the content the latest operation started from.
* **TimeBlocks** models `timeblock_ops.rs`: blocks that may link a task and a slot,
  slots with an ordered membership, ranges, the preview a client holds and the
  replan it confirms, and the planning links a deleted task leaves and takes back
  (`Detached`, `Reinsert`). **Catalog** extends it with projects, sections, tags,
  templates and filters (`catalog_ops.rs`), the cascades of their deletions, the
  task operations that refer to them, and undo and redo over all of these tables. A
  task has a parent and a source: deleting it deletes what is below it (`Below`), and
  the foreign keys clear the references to it in the rows that stay (`DeleteRows`).
  `event` is what the mutation publishes, `before` the content it started from.
* **Recurrence** (rules, anchors, expansion into a window), **Planning** (nudges,
  calendar, weekly review, statistics, suggestions) and **TaskLists** (filters,
  sorts, keyset pages) are the pure parts as functions of a profile; the calendar
  library is a constant of Recurrence, external to the source. **Reads** is the read
  side of the service over them: one question at a time, each storage call a step,
  other clients committing in between (`CommitElsewhere`), the attempt pinned to one
  revision, retried once after a drift and then refused. It implements
  **SnapshotReads**, the abstract specification of a read: the answer of one instant
  between question and answer.
* **Routes** lists what every handler demands, in its order, and the service method
  it calls. **Server** is the running process over Routes: the guard with its
  limiter, a handler's life from arrival to answer with a possible end at each
  await (`Leave`), the storage thread's queue, its loss (`WorkerDies`: a panic), the
  publication, the `Notify` permit, the coordinator's register, query, register,
  sleep loop, wake streams, and boot, termination and crash. What a command does to
  the next due instant is nondeterministic here; ReminderDelivery says which.
* **Profile** is the life of a profile directory: processes that compete for the
  lock, each version of the schema as one transaction, the backup (begun, complete,
  left half-written by a crash), its pruning by name, the normalisation at every
  start, the token file that is emptied before it is written, the runtime file, and
  the way down in the order of `main` and of `Drop`. The data is one task's row, its
  recorded cancellations and the snapshots its undo rows hold.
* **TaskQuery** is one live list of the browser (`useTaskQuery.ts`,
  `liveQuery.ts`): `shown`, `applied` and `cursor` are its refs, `refresh` the
  coalescer with its request, `page` the further page in flight. `answers` are the own
  answers still to arrive, `unheard` the commits whose event the stream has not
  delivered, `seen` the browser's last revision: the next event may be any that is
  newer, so one that is overtaken, or whose handler is gone before it publishes, stays
  away for good, as in LiveEvents. The rest is history: the query and revision the list
  was last replaced for (`source`, `covered`), the revisions a refresh has been asked
  for (`awaited`) and those told too late or in vain (`missed`), and whether a page was
  added that does not continue the list (`torn`).
* **MC...** modules name the small constants of the runs. **ReceiptsProofs**,
  **LiveEventsProofs**, **ReminderDeliveryProofs**, **ServerProofs**,
  **ProfileProofs**, **TaskQueryProofs**, **CatalogProofs** and **TaskGraphProofs** hold
  the theorems about the module each is named after.

## 3. What the runs check

* `ReceiptsExpiry`: with a clock, retries and crashes, an operation takes effect
  again only after its receipt ran out (`AtMostOncePerReceiptLife`), an answer
  names a revision that committed that very request (`AnswerNamesItsEffect`), and
  no undo row refers to a removed receipt (`UndoRowsFollowReceipts`), which would
  block every later cleanup through the foreign keys.
* `ReceiptsUndo`: four operations on a task and a link. No revision is undone
  twice (`UndoneAtMostOnce`) and an undo of a task commits only when nobody has
  written it since (`UndoOverwritesNobody`), even if the old value is back: what it
  may pass over are deletions that have been taken back, since the undo of a deletion
  returns the row with its old revision and loses nothing. Pruning
  runs between the steps: Receipts implements EventLog (`ImplementsEventLog`) and
  every catch-up page starts where the stream stopped and has no hole
  (`CatchUpGapFree`). The byte budget binds here, the count in `ReceiptsExpiry`.
* `LiveSafety`: queues stay bounded, no revision is repeated or rewound on the
  wire (`WireIsSound`), and a browser misses only revisions that a later one
  overtook between commit and broadcast (`GapsOnlyByOvertaking`).
* `LiveDelivery`: every commit reaches every browser eventually, unless the
  browser was turned away for good or the commit was overtaken or never published
  (`EventuallyInformed`).
* `ReminderSchedule`: a pending row is the current intent of its task or a claim
  that was lost (`ScheduleSound`); a delivered or failed occurrence is never
  revived (`TerminalIsFinal`); two claims of an occurrence never overlap beyond
  the staleness of the stamps (`ClaimsDontOverlap`); an answer counts only inside
  the window of the claim it answers, once (`LateAnswersAreRefused`).
* `TaskUndo`: any three operations on two old tasks (in every hierarchy) and one new
  task. Every reference stays valid through cascades and restores and the
  hierarchy stays a forest (`GraphSound`), the latest operation can always
  be undone, whatever order its rows go back in (`LatestIsUndoable`, except a
  deletion that took an occurrence with its source), its undo gives everything
  back (`UndoRestores`), and reversing a completion destroys no occurrence that
  was written to, nested under or related since (`ReversalSparesNewWork`).
* `TaskBlocks` is a counterexample: remove A->B, add B->A, undo the removal. The
  undo inserts the pair without the cycle check of `add_relation`
  (phase-2-context-map.md:87).
* `Workspace`: any three operations of the catalog and of time blocking on a seeded
  workspace. No reference dangles (`WorkspaceSound`), the projects stay a forest
  (`ProjectsAreForest`); what a mutation changes, however far its cascades reach, is
  named or covered by its event (`EventCoversChanges`) and bears its revision
  (`ChangesAreStamped`), which is what browsers and undo rely on. Both leave out one
  kind of change by name (`OnlyCleared`): a row that stays loses its parent or source
  because that task is deleted. It gets no revision and no mention, but the event
  names the deleted task and has clients reload. Undoing the latest
  operation, an undo included, gives everything back with its parent and its place in every slot
  (`UndoGivesBack`, except that tasks which came under a created one lose their parent when
  the creation is undone and do not get it back when that undo is undone, section 6), a
  restoring undo rewrites nothing that was written since
  (`RestoringSparesLaterWork`), and a replan touches exactly the blocks its preview
  showed, today (`ReplanIsWhatWasPreviewed`).
* `Reads`: `ReadsAreAtomic` is the refinement of SnapshotReads. Walking a list page by
  page visits every task that stays in its place exactly once (`WalkSound`); limits
  never cut silently (`NothingCutSilently`); totals equal the sums of their parts and
  agree with the lists (`SummariesReconcile`); a window of a series shows exactly the
  dates of a closed-form definition and of repeated completion (`SeriesIsWindowed`).
* `Server`: every commit is announced exactly once or left to the log by a handler
  that is gone, and an acknowledged key has its receipt after any crash
  (`ServerSound`); the coordinator never sleeps on an outdated instant with nothing
  left to wake it (`NoLostWake`); a due reminder is signalled (`DueIsSignalled`) and a
  shutdown ends (`ShutdownCompletes`), whatever is in flight.
* `Profile`: one process at a time has the database open, and the one that serves is
  the one advertised, with the token on disk and the current schema
  (`OneSoundServer`); the fourth version dates each cancelled row and snapshot by the
  cancellation it stands in, so the newest change stays undoable
  (`CancellationsKeepTheirTime`, over every history of up to five changes); a profile
  of the second version never leaves it without a whole copy of itself on disk
  (`BackedUpBeforeLeaving`).
* `Browser`: in every state the list is right about each task up to its next page,
  unless the last change of that very task is newer than the list's snapshot and its
  event is unheard, came too late, or asked for a refresh that is under way or was in
  vain (`OffOnlyForCause`; section 6 has the causes, and the two more under which it is
  the list of another query or has a hole). No row is replaced by an older one
  (`RowsNeverGoBack`).

## 4. Bounds and fairness

Every bound is a named constant (`MaxClock`, `MaxRevision`, `MaxOps`, `MaxCommits`,
`MaxInbox`, `MaxFailures`, `MaxFaults`, `MaxStarts`, `MaxAbandoned`, `MaxTerm`,
`MaxChanges`, `MaxSkew`, `MaxChain`). The capacities
of the program (broadcast, channel, page, retention) are constants too, set to one
to three so that they overflow within a few steps. Four revisions are enough to
undo, redo and undo again; four half-second ticks pass a two-tick receipt life on
both sides; five commits overflow a queue of two and a retention of three while a
page of two is being sent; three user mutations suffice to schedule, move and
undo, or to close and reopen by the source-only path, while two terms, and a
clock that reaches the deadline of the first claim and passes the back-off, let a
lost claim be claimed again. TaskGraph's Init is a profile with pending tasks whose
undo material has expired (`Seeded`), in every hierarchy, with the first recurring
or not; `MaxOps` operations follow, `MaxTasks` bounds the ids
ever used, and receipts expire the oldest first.
Three operations on three tasks contain every operation, a write of another user
after it, and the undo.
Operation ids are interchangeable and reduced by symmetry in the safety runs.

Workspace starts from a profile with a row of every kind, two projects above one
another, a task that is both the child and the generated occurrence of the other, a
slot both share and a past block linked to task and slot, so that
three operations reach an undo of an undo, a deletion undone after somebody wrote
its neighbours, and a replan confirmed from an outdated preview. That
an undone creation takes the parents of others with it needs a fourth operation;
`UndoGivesRowsAndLinksBack` covers it for any number. Its `VIEW` leaves
out only the event last published, which no action reads. Reads has profiles of a
handful of tasks around a leap day with limits of one to three, and two commits: the
first makes an attempt drift, the second makes the read give up. Server has two
requests (a lost one and its retry, or two that race), a fault, a restart, and a
reminder due at the only instant that leaves time before and after it; for more faults
and restarts its safety rests on the proofs of section 5. Profile has
two processes, three faults, four starts and a retention of two, one less than the
backups that old ones and two aborted starts leave; its fourth-version data are all
histories of up to five changes, dated by a clock that runs backwards so that only
the revision can tell their order. Browser has two tasks at one a page, so
that a list has a further page, and two commits, one of which can be overtaken by the
other or stay away; failures and changes of the query are not bounded.

Fairness is stated in two modules. In LiveEvents (`Fairness`), the runtime polls every ready task, so
a handler that is still there publishes and a forwarder with something to do and
room in its channel goes on; the browser keeps reading and reconnecting (its loop
has no exit but a terminal error). In Server (`FairSpec`), ready handlers are polled,
the storage thread takes every command, the coordinator and the stages of the
shutdown go on, time passes, and a client that was let in sends its body or leaves;
one condition serves all handlers, because a request has finitely many steps. Nothing forces a commit, a failure, a lost
handler or pruning. `CHECK_DEADLOCK FALSE` is set for LiveEvents,
ReminderDelivery, TaskGraph, Catalog, Server and Profile: with all bounds used up nothing has to happen, and
the program itself may be idle for ever.

## 5. What is proved

The theorems hold for every value of the constants that satisfies the assumptions of
the module, so for any number of operations, browsers, requests, processes, tasks and
faults. Each module has its inductive invariant, `IInv` (in CatalogProofs one for each
theorem), which TLC also checked on the module's run; one lemma for each action that
the action keeps it; and the theorems, which read the run's properties off it.

**Receipts** (`PageMaxAssumption`, `ReceiptsAssumption`): `TypeCorrect`,
`AtMostOnce`, `AnswersAreTrue`, `UndoneOnce`, `UndoIsSafe`, `CleanupNeverBlocked`,
`CatchUpIsGapFree`, and `LogRefinement`: Receipts implements EventLog. The
strengthening relates the tables to the activity log, whose row r was written at
revision r: a receipt names an activity row with its own operation and request and
expires one life after its stamp; an operation that has an activity row but no receipt
any more has run out for the clock; an undo row's post-image is the state its revision
wrote; an undo writes the task of what it undoes (`UndoesItsTask`); and an undone row is
the one the undo row's `undoneBy` marks. A task's stored revision is that of the last activity
row that wrote it, not counting deletions and the undos that took them back
(`RowOutlivesPairs`): only the last deletion can stand (`OnlyLastDeletionStands`), its
undo follows it at once (`TakenBackAtOnce`), and the row an undo entry keeps for a
deletion is the one that was there before it (`ClosuresOutlivePairs`).

**LiveEvents** (`PageMaxAssumption`, `LiveAssumption`): `WireNeverRepeats` and
`NothingIsLost`. That nothing is lost depends on five facts about each stream: what is
on its wire ascends from what the browser has seen, and only overtaken revisions are
passed over (`Wire`); a page that is being sent begins right behind the last revision
sent, or is a resync (`Paged`); a queued revision behind a later one is overtaken
(`Queued`); queue and channel keep their capacity (`Bounded`); and a stream that will
not ask the log again has all the rest in its queue, unpublished, or overtaken
(`Covered`). The last is what subscribing before reading the log is for: with the two
swapped, it fails.

**ReminderDelivery** (`ReminderAssumption`, `ShiftAssumption`): `ScheduleStaysSound`,
`OneClaimAtATime`, `AnswersCountOnce` and `DeliveredIsFinal`. Attempts are numbered
uniquely, and every row tells which claims its occurrence has had and which were
answered (`Tells`). The difficulty is undo, which brings an old row back: the material
it keeps must go on telling the truth about claims made since. It does because delivery
only ever moves a row on (`Moved`), and while the row still is as the mutation left it,
nothing was claimed in between, so the snapshot still holds (`SavedSound`).
`ShiftAssumption` says that a power of two is a natural number, which none of the
provers knows; TLC evaluates it.

**Server** (`ServerAssumption`): `CommitsArePublishedOnce` and `NoChangeIsSleptThrough`.
A revision is nowhere, published, left to the log, or held by exactly one handler
(`EachOnce`); an entry of the storage queue is the command of the request that still
waits for it (`QueueSound`); and a handler that has changed the due instants and not told the
coordinator yet is on a route that will (`RequestsSound`, from lemmas about Routes: every
mutation has a key, every route of the reminder plane notifies). `WakeKnown` then follows
the permit: the coordinator's instant is stale only while somebody is on the way to tell
it.

**Profile** (`ProfileAssumption`, `ProfileOriginAssumption`,
`ProfileHistoryAssumption`): `OneServer`, `BackupOutlivesMigration` and
`CancellationsDated`. A process between acquiring and releasing the lock is the
only one, so what the other processes do cannot disturb its progress (`LockHeld`,
`Standing`). A migrating process's own backup is the newest, so pruning never reaches it
before the database has moved on (`SafeCopy`). Until the fourth version commits, the
data are what they were at the beginning, so `CancellationsDated` is about one step: a
row stands in the last cancellation logged up to its revision, and that is the one the
migration's search finds. `ProfileHistoryAssumption` says what earlier versions leave
(`Logged`); TLC evaluates it on every history of up to five changes.

**TaskQuery** (`TaskQueryAssumption`): `ListIsRight` and `RowsAdvance`. An event under
way tells the last state of the task it was the last to change, or asks for a refresh
(`EventsTrue`); no copy is newer than its row (`CopiesOld`); an answer is a page of the
state it was read in (`RepliesTrue`). What a list shows wrongly is of a revision it is
still to hear, awaits of a refresh or has missed (`ListTrue`). What was committed after a
refresh was read is one of the first two, or the list has passed the answer
(`RefreshTrue`); after a page was read, one of the three, or the list has passed it
(`PageTrue`). That an accepted snapshot may forget what was missed and awaited rests on
`NewsType`: those revisions are not newer than a snapshot that can still be accepted,
unless a further refresh is noted. Nothing is assumed of the stream: events may come in
any order that the browser lets through, or never.

**Catalog**, with TimeBlocks (`MaxOpsAssumption`, `NoneAssumption`,
`TaskPatchesAssumption`, `BlockPatchesAssumption`, `SlotPatchesAssumption`,
`MembershipAssumption`, `CalendarAssumption`, `IdsAssumption`, `SeedsAssumption`):
`ProjectsStayForest`, `EventsCoverChanges`, `ChangesCarryTheirRevision`,
`RestoringNeverOverwrites`, `WorkspaceIsSound`, `UndoGivesRowsAndLinksBack` and
`ReplanKeepsToThePreview`. The assumptions say that patches and seeds have the fields and
types of the rows, that a seed refers only to its own rows and has finitely many blocks,
and that days, hours and block ids are numbers. The forest needs only that every chain
of parents in use is without a cycle (`ProjectTree`), the event and stamp theorems that
every undo entry fits its table and was written by its own revision (`Entries`).
`WorkspaceIsSound` adds that all rows are typed, those kept for undo included (`Typed`),
and that references survive the cascades of deletions and the undos that restore them
(`References`).

What a slot's list becomes when tasks are taken out and put back is a recursive
function. No induction theorem without an operator parameter is at hand, so its facts
are proved first-order: the prefix lengths for which one holds include 0 and, with each,
the next (`UpTo`). Selecting the others and reinserting the selected, lowest position
first, gives the old list again; `UndoGivesRowsAndLinksBack` carries this as an
invariant about the latest operation, whose inverse would make of the tables it left
what is to be given back (`LatestReverts`): `before`, or `before` with the cleared
parents if the operation deleted rows without keeping a closure (`Short`). `ReplanKeepsToThePreview` needs that the preview's list names
every eligible block: the ranks of finitely many blocks are all different.

**TaskGraph** (`BoundsAssumption`): `HierarchyStaysForest`, `ReversalSparesWork`,
`UndoGivesEverythingBack` and `LatestCanBeUndone`. A move is checked against the graph it is made in, so a cycle
could only come from undo, which brings back rows with the parents they once had. The invariant therefore says what
the undo material is to the graph, and not only the tables (`UndoMaterial`): a deleted
closure is a forest of its own whose rows are gone while its post-image holds; a
completion left the parents of its tasks alone, so reversing it does too; a row names as
its completion only an operation that completed. Rows restored by `restore_tasks` are
checked and written one at a time, and the argument follows the writes: were there a
cycle, there would be a least id after whose write there was one. The same holds of a
bulk move, where a chain of parents through several moved tasks must be cut at the first
of them. No two retained completions generated the same occurrence (`GeneratedOnce`),
which is why an occurrence that a reversal removes is one of the reversed completion's
own and so was in its post-image, unchanged and unreferenced. For the undo of the latest
operation, `Restorable` carries what its inverse would make of the tables it left
(`Restores`), shown once for each operation that commits and used once for each kind of
inverse; it needs that the closure of a deletion holds everything below its members, that
new task ids are above all old ones, and that a comment id is used once.

`LatestCanBeUndone` is about `UndoAccepted`, the guard of `Undo` spelled out, since
ENABLED is beyond the prover; TLC finds the two equal in every state of `TaskUndo` that
leaves room for an operation. Its invariant (`Reversible`) says that the tables accept
the latest inverse (`Acceptable`), shown for each operation that stores one. The
difficulty is that rows go back one at a time, each checked against a table in which
some rows are back and others are not (`RowsGoBack`). After a bulk move, what is above
the old parent of a row leads away from the row all the same, by old parents or by way
of the new parent, which the move checked (`BackFrom`). The rows of a completion are
completed and the occurrences it generated pending, so none is both.

What stays with TLC:

* liveness under fairness: `EventuallyInformed`, `DueIsSignalled`, `ShutdownCompletes`;
* that `UndoAccepted` is when `Undo` is ENABLED;
* what Reads computes, the sorted lists, pages, sums and series, which are folds and
  sorting operators of the community modules over a calendar that is a constant:
  `SeriesIsWindowed`, `SummariesReconcile`, `WalkSound`, `NothingCutSilently`, and the
  refinement `ReadsAreAtomic`, whose calendar is collected page by page and equals the
  whole list only by an induction over the pages of such a sort.

So every safety property of a run is proved except those of Reads, and `BlocksAcyclic`,
which is false of the code.

## 6. Known deviations

Where a document, a comment or a test says one thing and the code does another. The
first is shown by the run `TaskBlocks`; those with a property in parentheses have
that property defined in the module, and a configuration of the size given finds
its counterexample.

* Undo of a removed relation makes no cycle check (`BlocksAcyclic`).
* Two handlers publish in the opposite order of their commits, and a stream drops
  the older revision as a duplicate for good, because the cursor has passed it
  (docs/architecture.md:57; LiveEvents `NoRevisionSkipped`, two revisions).
* The owner-lost sweep returns a claimed row to pending without looking at its task,
  so an instant the user has rescheduled or completed becomes a second pending
  intent (reminder_ops.rs:432 promises at most one; ReminderDelivery
  `OnePendingIntent`, five clock ticks). It returns rows to pending where
  ports.rs:378 and requests.rs:512 say that it fails them.
* After delete comment and undo, the undo of that undo writes the comment again
  instead of deleting it; an exact bulk uncomplete cannot be redone either
  (phase-2-context-map.md:96; TaskGraph `RedoRestores`, one task, four operations).
* Tasks completed by one operation whose undo row has expired are uncompleted in
  bulk, and only the first is reopened, with success reported
  (phase-2-context-map.md:95; TaskGraph `BulkReopensAll`, two tasks).
* The live list can stay off the server with nothing under way to mend it, for one of
  six causes. Four concern one change, and leave the list wrong about the task it
  changed until the next snapshot: its event never comes, because a later one has been
  published before it or its handler was dropped (client.ts:1272, service.rs:1371; the
  bullets on publication in this section); it comes when a page or an own answer has
  already advanced the list's revision (useTaskQuery.ts:132); the refresh it asks for is
  refused because an event arrived first (useTaskQuery.ts:211); or that refresh fails.
  Two concern the list as a whole: a request of another query is answered, which the
  coalescer itself repeats when the view changes while one is in flight (liveQuery.ts:43,
  although the hook means to reload the current query), and the list is right about that
  query; and a page asked for behind one position is appended after the list was
  replaced (useTaskQuery.ts:227), which leaves a hole.
* The cleanup compares timestamps of different widths as text, so a receipt that
  expires on a whole second still replays for up to a second (tx.rs:47 says it
  cannot).
* A handler that is dropped while it awaits the storage thread never publishes its
  commit (event.rs:1 says every committed mutation is published; `Abandon` in
  LiveEvents, `gone` in Server).
* A rule `every N` with a count beyond the date library's range panics instead of
  failing closed; the storage thread is lost with it, and every later request is
  answered 503 while the process stays up (`WorkerDies` in Server).
* The dominant bucket of the completion times is the last of the largest, where the
  comment asks for the earlier; a weekly streak counts up to 31 days, where its
  constant says at most 30; `has_more` of all nudges is set for a rule behind the
  combined limit that has nothing to show; an expansion whose series passes the last
  civil date fails as a whole (Planning and Recurrence follow the code).
* Backup names carry fractions of varying width, so below one second their order is
  not that of time; and after a crash between the third version and the pruning no
  later start prunes, because it has made no backup.
* A graceful shutdown has no deadline: a client that never finishes its body keeps
  the process. The fairness of Server assumes that it finishes or leaves.

TaskGraph and Catalog also show behaviour that no document promises to be otherwise, and that
a change of the code should know about: undoing a creation takes the comments
written to the task since; `ON DELETE SET NULL` detaches children without giving
them a new revision or naming them in the event, so that only the comparison of
the whole row makes their own earlier undo refuse (Catalog `OnlyCleared`); children
that a task has gained are detached when its creation is undone and stay detached
when that undo is undone (Catalog `CutOff`); an occurrence deleted with
its source comes back without its lineage, and uncompleting the source then
conflicts; after complete, undo, redo the completion can no longer be reversed
exactly; a reopened recurring task cannot be completed again while the
occurrence it generated exists. Compaction forgets an occurrence's attempt number;
the claim properties exclude rows compacted meanwhile, since a collision needs the
retention budgets (90 days or thousands of rows) used up inside one claim window.

## 7. Plan

1. Done: EventLog, Receipts, LiveEvents, ReminderDelivery, TaskGraph.
2. Done: the workspace (TimeBlocks, Catalog), the read side (Recurrence, Planning,
   TaskLists, Reads against SnapshotReads), the running server (Routes, Server), the
   life of a profile (Profile) and the browser's list (TaskQuery).
3. Done: the proofs of section 5.
4. The proofs about Reads, which need its lists defined by ranks (as the replan's list
   in TimeBlocks is) instead of by the library's sort.
5. Server and ReminderDelivery composed: which mutations move the next due instant,
   instead of any of them.

## 8. Not modelled

* The browser's reminder hook (`useReminderDelivery.ts`): what the server accepts
  from any client that is late, repeats itself or has lost its lease is in
  ReminderDelivery; what the hook presents twice or skips is not.
* Parsers of quick entry and imported text (`quick_entry.rs`, `text_import.rs`):
  stateless, covered by unit tests. Free-text search is a predicate of the question.
* The shape of transfer objects, formatting, static files, presentation, generated
  code, scripts and benchmarks.
* What SQLite itself promises is assumed: a transaction is whole or absent after a
  crash. The connection runs with `synchronous=NORMAL`, so a loss of power (not of
  the process) may take the newest commits back; no module models that.
* Two reminder rows of one task whose instants differ only in their text would make
  the normalisation at every start fail on the unique key; no module writes such
  rows, and Profile does not have them in its origins.
