# LaTeX Core: a TLA+ verification project

LaTeX Core is a collaborative LaTeX service: a Rust server (`services/server`), a compile worker
(`services/server/src/bin/worker.rs`), PostgreSQL as the only coordination point between them, a
content-addressed blob store, and a container per compilation, with three browser pages: the Writer's, the Mentor's and the
Admin's. This directory models the parts whose
correctness depends on the order in which handlers, workers, completions, messages, clicks and crashes interleave, checks
them with TLC on small instances, and proves the main safety properties of the compile queue, the build scheduler, the
collaboration rooms, the Writer's session, the Writer's and the Mentor's pages and the institution imports with TLAPS, for every value of their constants that the stated hypotheses allow.

Paths below are relative to the repository root.

## 1. Inventory

| Component | State it keeps | Operations | What is hard | What makes it correct |
|---|---|---|---|---|
| Durable compile queue (`crates/persistence/src/compile_queue.rs`) | `compile_jobs`, `compile_cache`, status of `v2_paper_builds` | enqueue, claim, renew, cancel, four completions, recovery, cache read and evict | leases, retries, cancellation at any time, several workers | bounds on running jobs, final verdicts, bounded attempts, no stale owner, a verdict reaches its build |
| Compile worker (`crates/queue/src/lib.rs`, `bin/worker.rs`) | one `WorkerId` per process, a program counter per loop | claim, cache hit, compile under renewal, complete, shut down, start-up recovery | crash between two transactions, a stall beyond the lease, errors that leave `run_once` | jobs drain, lost rows are taken back, the cache serves only genuine outputs |
| V2 build scheduler (`crates/persistence/src/versions.rs`) | one row per paper: desired hash and sequence, active and current build, one pending request | submit (reuse, coalesce, postpone, enqueue), finalize, invalidate, restore | stale submissions, orphaned builds, a slot written from five places | the last submission is not lost, only exact builds are shown, the pending slot is always driven |
| Exact state capture (`services/server/src/main.rs`, `capture_exact_v2_state`) | a captured state per handler | flush rooms, read epoch, force a snapshot | everything it read may be stale when it is used | a stale capture does no harm |
| Workspace events and snapshots (`crates/workspace`, `workspace.rs`, `v2.rs`) | an event log, a head, snapshots | append with expected version, snapshot, replay | append against snapshot, crash between blob and row | replay equals the plain map of files |
| Collaboration rooms (`services/server/src/collaboration.rs`) | a Yjs document, a batch of unflushed updates, durable sequence | join, apply, flush, leave, epoch change | acknowledgement against durability, failed flushes, old epochs | what was acknowledged survives a restart |
| Restoration and epochs (`governance.rs`) | requests, document epoch | request, reject, apply | concurrent edits and open rooms | nothing of the old epoch enters the new one |
| Templates and policies (`governance.rs`) | pins, file policies | change, finalize | edits between preview, change and finalization | the pin and the files agree |
| Front matter (`front_matter.rs` in both crates) | packs, values, rerender queue | render, remove, enqueue, claim, finish | requeue during a claim, a claim reclaimed after ten minutes | every update is rendered in the end |
| Mentor reviews (`reviews.rs`, `review_api.rs`) | rounds, threads, suggestions | open, comment, resolve, accept, close | decisions that race with a closing round | a closed round stays closed |
| Mentor's page (`frontend/review.js`) | the open paper and file, a read-only session, a selection, the PDF on show | open, select, map between source and PDF, annotate, poll | answers for what was left, two documents loading at once | a comment is recorded where it was selected |
| Writer's session (`frontend/writer.js:315-526`) | a Yjs document, a document per epoch in IndexedDB, unacknowledged numbers, waiting flushes | connect, merge, type, flush, reconnect, preserve, destroy | the browser's database answers between messages; every connection resends | "Saved" is true, an edit is stored in the end, old text is never sent to a new epoch |
| Writer's page (rest of `writer.js`, `auto-build.mjs`, `writer-pdf.mjs`) | one mutable model object, two timers, the PDF frame | navigate, fifteen commands, refresh panels, build when idle, poll | each continuation reads the model of whatever is open by then | a command meets the file it was pressed on, a page that has its answers shows one paper |
| Structural undo (`v2.rs`) | a log of reversible operations | undo, redo, invalidate | later changes of the same files | an undo restores exactly what it names |
| Mail outbox (`mail_outbox.rs`, `mail.rs`) | credential mails with a secret | enqueue, claim, send, mark, expire, retry | crash between sending and marking, late answers | no secret outlives its mail |
| Accounts, roles, teams (`v2.rs`, `app.rs`, `permissions.rs`) | roles, memberships, leadership | assign, change, transfer | a role change against a membership | at most one leader, no duty without its role |
| Institution import (`institution.rs`, `main.rs:1740-2160`, `static/admin.js`) | records, accounts, identity links, batches, Teams, the Admins' pages | validate, apply, materialize Teams, retry, hand over passwords | review long before apply, buttons pressed twice, several transactions per request | a batch takes effect once, each password reaches one Admin, no Team is missed silently |
| Blob store (`crates/blob-store/src/fs.rs`) | files named by their hash | put, get, metadata | two writers of one hash, a crash | a visible blob is whole |
| Compiler (`crates/compiler`) | staging directories, containers | materialize, run, kill, collect | time limits and failed clean-up | one verdict per run |
| Legacy drafts and page, archive, parser, index, core types, productivity helpers, symbol catalogue | none that is shared | pure functions, or retired routes | nothing concurrent | out of scope |

How they interact: an HTTP handler captures the state of a paper (which flushes the rooms and forces a
snapshot), then submits a build in a second transaction. The scheduler inserts a job into the queue, in the
same transaction. A worker loop claims the job, looks into the cache, compiles, and completes the job; the
completion transaction calls `finalize_v2_build`, which writes the build's status, promotes it if it is
exactly what the scheduler desires, and turns the pending request into the next job. Edits, restorations,
front matter and template changes move the head of the workspace; some of them touch the scheduler row. A page holds one socket
per open file to a room of the server and asks for everything else over HTTP; a command that needs the text first sends a flush over the
socket and waits for its answer. An import writes records and accounts in one transaction, and creates Paper Teams in one
transaction each afterwards.

## 2. Modules

| Module | What it is |
|---|---|
| `CompileQueue` | the queue table, the cache, worker processes and their loops |
| `JobLifecycle` | the abstract contract of one job, which the queue implements |
| `CompileQueueProperties` | the properties of the queue and the refinement mapping |
| `CompileQueueProofs` | TLAPS proofs |
| `MCCompileQueue` | instances for TLC |
| `BuildScheduler` | the scheduler row of one paper, the head, captures and builds |
| `BuildSchedulerProperties` | its properties, and four statements of the documents |
| `BuildSchedulerProofs` | TLAPS proofs |
| `MCBuildScheduler` | symmetry for TLC |
| `CollaborationRoom` | the rooms of one file: hub, actors, sockets, browsers, stored log, restorations |
| `CollaborationRoomProperties` | its properties, and four statements of the documents |
| `CollaborationRoomProofs` | TLAPS proofs: the types, the fence between epochs, what a restoration replaces |
| `CollaborationRoomStoreProofs` | TLAPS proofs: what one epoch stores and acknowledges |
| `MCCollaborationRoom` | symmetry for TLC |
| `WriterSession` | the page's end of one file's room: socket, browser database, acknowledgements, flushes |
| `WriterSessionProperties`, `MCWriterSession` | its properties; instance |
| `WriterSessionProofs` | TLAPS proofs |
| `WriterPage` | the Writer's page around the sessions: navigation, commands, panels, PDF, automatic builds |
| `WriterPageProperties`, `MCWriterPage` | its properties; instance |
| `WriterPageProofs` | TLAPS proofs |
| `MentorPage` | the Mentor's page: read-only sessions, anchors, PDF, annotations |
| `MentorPageProperties`, `MCMentorPage` | its properties; files and symmetry for TLC |
| `MentorPageProofs` | TLAPS proofs |
| `AdminImports` | institution imports, from the Admin's clicks to Teams and passwords |
| `AdminImportsProperties` | its properties, and three statements that overlapping requests break |
| `AdminImportsProofs` | TLAPS proofs |
| `MCAdminImports` | uploads and symmetry for TLC |

The modules share an interface, not variables. `CompileQueue` chooses what the scheduler does at a completion, `BuildScheduler` takes the queue as "a claimed build
ends"; `WriterSession` has the room as a server that joins, stores and acknowledges in the orders that `CollaborationRoom` allows; `WriterPage` has a
session reduced to alive, ready and stale.

Definitions whose comment starts with "Wrong on purpose" are not part of a specification. Each is a plausible
bug of the definition that follows it; replacing the one by the other must make a property fail, which shows that the
property can fail at all.

### CompileQueue

One action is one PostgreSQL transaction, or one step of a worker loop between two transactions.

- `job[j]` is the row of `compile_jobs` joined with the status of its V2 build. `lease` abstracts `lease_until`
  to none, live or expired; `source` is `cache_source_job_id`; `build` is `v2_paper_builds.status`.
  The state `claimed` of the schema is never written by the code and does not occur.
- `cache[k]` is the job whose artifacts serve compile key `k`.
- `proc[w]`: a worker is one *incarnation* of the process, because every start draws a fresh `WorkerId`. A crash needs
  a spare incarnation, which bounds the number of crashes.
- `loop[<<w, s>>]` is where loop `s` of process `w` is in `run_once`, with the job, the attempt it claimed and the cache
  row it read. `attempt` is a history variable, read only by `OwnerIsCurrent`.

Transactions and actions: `enqueue` is `Enqueue`, `enqueue_build` is `EnqueueBuild` (without the per-user limit, as
in the code), `claim` is `Claim` (row locks with SKIP LOCKED never hide a row that is still queued afterwards, because
claims exclude each other through the advisory lock and the only other writer of a queued row cancels it), `renew_lease` is what
keeps a held lease live, and its failure is `RenewalLost`. Each completion is split by what `assert_live_lease` finds: `Refused` and
`HitRefused` (lost), `CompleteCancelled` (a request was recorded), `Settle` (a verdict, with `finish` and `finalize_v2_build`).
`Start` is start-up recovery. `Abandon` is an error that leaves `run_once` by `?`; `CacheError` is an error in the cache path, which
`run_once` handles as an infrastructure failure.

What `finalize_v2_build` does to the scheduler belongs to `BuildScheduler`. Here the pending slot is a choice: finalizing a
job inserts at most one new job of the same paper (`Activations`).

### BuildScheduler

One paper. `head` is the durable sequence and hash of the source; `sched` is the row of `v2_paper_build_state`; `builds` are the
rows of `v2_paper_builds`, by insertion; `captured[c]` is what a handler captured and has not used yet; `versions` are the
hashes a restoration may go back to. Capture and use are separate actions, so anything may happen in
between. `Edit` is `append_workspace_operations`; `Materialize` is a front matter render or removal or a template change, which append
their own event; `Restore` is `apply_restore`. `Submit` has one disjunct per outcome of `submit_v2_build`. `Claim` and `Finish` are the
queue as the scheduler sees it: a retry leaves the build `running`, and every claimed build ends.

### CollaborationRoom

One file of one paper. A Yjs document is the set of edits it holds, an update carries a set of edits, and applying one is a
union; that is what the code relies on (updates commute, and a repeated one changes nothing). The initial text is the empty set.

- `epoch`, `file`, `log` and `snaps` are in PostgreSQL: `paper_collaboration_state`, the canonical content, `collaboration_updates`
  and `collaboration_snapshots`. They survive `Crash`. The log holds the rows of this file only, so its length stands for the workspace's head.
- `hub` is the map of rooms: its entry for this file, and who holds its lock while a room is opened. `rooms[r]` is an actor. It is
  not stopped when it leaves the map, only when no handle is left (`Held`).
- `sock[c]` is where `serve_socket` is: the handler has read the epoch (`access`), opens a room (`open`), has a handle (`room`),
  the actor's reply (`reply`), or serves events (`joined`). `hand` is an update that was authorized and not yet applied.
- `local[c]` is the browser: one stored document per epoch, and the epoch its page shows. `synced` and `born` are history variables, read only
  by properties, except that an edit is made once (`Type`).
- `restore` is a restoration between its four steps: the flush barrier, the capture, the transaction, the notice to the rooms.

A command of the actor may flush a batch, then save a snapshot. Those operations (`Flushed`, `Checked`, `Snapped`) take a *work*, all that
an actor's command may change, to the set of its outcomes, and `Commit` makes one of them the next state. `Leave` is always taken by the
socket that ends, as the last line of `serve_socket` does. A batch is full (`BATCH_BYTES`) at any update. The commands a socket queues
are taken in its order; a queue that is full, and one that is still unread when its socket is replaced, are left out.

### WriterSession

One browser, one file, one Writer; a document is again the set of edits it holds. `session` holds the fields of the class
`CollaborationSession`, `page` the label and what survives the session, `flushes` the promises that `flush` gave out, `idb` the documents that
y-indexeddb keeps, one per epoch, and `wire` one socket with its frames in both directions. `server` is the room as a browser sees it, and external.
`made` is a history variable, except that an edit is made once.

- Each branch of `receive` is an action on the first message under way; what interleaves with them is what the page waits for: `Loaded` is the
  answer of the browser's database, `Connect` and the reload of `Reopen` are timers, `FlushTimeout` is the ten seconds of a flush.
- `InitializeOrMerge` has the two ways of the code: the first connection waits for the database, a later one merges at once. Both end in `Announced`, which
  sends the whole document. A socket that closes during the wait leaves `initialState` at null; the handler then throws and the editor is never mounted,
  and the model does the same.
- The server's answers take two channels, the actor's reply and the broadcast, so `Notices` gives both orders. `FLUSHED` names no call and resolves all waiters,
  also one that timed out (`Settled`).

### WriterPage

The page is one mutable object and a set of calls under way. Every handler runs to its next `await`, so an action is what a handler does between two
awaits: `calls` holds a record per await with exactly what the continuation kept in its closure (`paper`, `file`, `version`, `slot`), and
everything else the continuation reads, it reads from `page` when the answer is there. This is where the behaviours come from: `openPaper`
is `Opening`, `GotDetail`, `GotFiles`, `GotFile`, `Mount` and the panels' answers, and others run in between.

- The fifteen commands differ in three ways, which `Command` names: what they wait for first (nothing, a flush, or a flush and the detail again), whether they
  send the model's version, and how they go on. `How` is the table; `Click`, `GotFlush`, `Rechecked`, `Execute`, `Refuse` and `Succeeded`
  are the handlers of all of them. Accepting a suggestion opens a file and makes an edit, and has actions of its own (`Accept`, `GotReady`).
- `sessions` keeps every session that may still be alive, so that a forgotten one shows (`OneEditor`). `edits` tells where each edit was
  typed and whether the server has it.
- `page.timer` is the automatic build of `auto-build.mjs`: the paper whose text became durable (a history of the timer; the code keeps no paper with it and the request names the one
  open when it fires). `Poll` is the interval of 1.5 s.
- The server is external: `Accepts` and `Outcomes` say what it takes and makes of a command, from how the page uses the answers.
- `Idle` is a restriction of the user, not of the code: unless `Faults` has `"overlap"`, a Writer starts nothing while an answer of a click is outstanding. Polls,
  timers, automatic builds, notices and other Writers go on.

### MentorPage

The same form for `review.js`. A `ReadOnlySession` is ready once and never reconnects; one that is disposed before it was ready never resolves, so whoever awaits it waits
for ever, and its call leaves `calls` (`Waiting`). An `Anchor` keeps the paper it was selected in, the file it names and, as a history, the file whose *text* its positions were taken from. The
PDF is two fields, as in the code: `pdfId`, the identity last asked for, and `pdf`, the document on the canvas, with an await between them. `Valid` and `Taken` are what `review_api.rs` refuses
and takes.

### AdminImports

Three datasets stand for all thirteen: students, assignments (`paper_teams`), and a row per Team and Writer. The rows of a batch are a set of keys; what a record
*says* is abstracted to the batch that wrote it, which is what the properties tell apart.

- `Validate` stores a reviewed batch, with `todo` as it was then. `Commit` is `apply_batch`: locked status, rows, accounts, links
  and status in one transaction; `Effect` is the `ON CONFLICT DO NOTHING`, `UPDATE` and `DELETE` of each row, `Sound` the foreign keys. `Again` and `Conflict` are its other two ends.
- The server's request goes on after the transaction: `Plans` reads `pending_team_plans`, and each plan is then one of `Materialize`, `Leave`, `Unresolved` (apply) or `Resolved`,
  `Unchanged` (retry), a transaction of its own. A plan keeps what it read, so another request may act on the same assignment meanwhile.
- `calls[i]` is a request until the page has dealt with its answer; its `fresh` is the set of students whose passwords the answer carries. `Shown` is the page's part: it loads the batch and
  downloads the passwords. `Lose` is a restart of the server between two transactions, or a lost answer.
- `page[a]` is the batch an Admin's page shows and the status it was loaded with, which is what enables the buttons; a button stays enabled while its request runs.

## 3. Runs

| Run | Checks | Instance | States |
|---|---|---|---|
| `QueueFaults` | `OwnerIsCurrent`, `VerdictReachesBuild`, `CapsRespected`, `CacheSound`, `RecoveredAtNextStart`, `Lifecycle` | 2 builds of one paper, 2 incarnations, every fault | 137 000 |
| `QueueDrains` | `Drains` | 3 jobs of 2 users, 2 processes, no faults, one running slot | 101 000 |
| `SchedulerSubmit` | `NoLostSubmission`, `Resolved` | 3 hashes, 1 handler, edits and renders | 78 000 |
| `SchedulerRestore` | `PendingIsDriven`, `DesiredIsExact`, `ShownOnlyExact` | 3 hashes, 2 handlers, restorations as well | 544 000 |
| `RoomFaults` | `TypeOK`, `LogRecovered`, `FileHasTheLog`, `ToldIsKept` | 2 edits, 2 clients, crash, database errors, broken connections | 71 000 |
| `RoomStores` | `EpochFence`, `EditIsStored`, `NothingReplacedUnsaved` | 1 edit, 2 clients, a restoration, 2 actors | 47 000 |
| `RoomOneActor` | `OneActor`, a statement of the documents (violated) | 2 edits, 2 clients, a restoration | |
| `WriterSession` | `TypeOK`, `SavedIsDurable`, `FlushCovers`, `EditStored`, `OldEpochPreserved` | 1 edit, 1 of another Writer, 1 flush, a restoration, 2 sockets, every fault | 338 000 |
| `WriterPage` | `TypeOK`, `OneEditor`, `BuildOfItsPaper`, `SettledPage`, `AsPressed`, `PdfSettles` | 2 papers, 1 edit, 4 of the 15 commands, failed flushes, a restoration or another Writer's command | 593 000 |
| `MentorPage` | `TypeOK`, `OneSource`, `AnchorOfItsText`, `SettledPage`, `RecordedWhereSelected` | 2 papers with 3 files, lost sessions, 1 call behind | 2 110 000 |
| `MentorRefused` | `AnchoredIsTaken`, a statement of the documents (violated) | 2 papers with 2 files | |
| `AdminImports` | `HandedOnce`, `NoSilentTeam`, `Referenced`, `AddKeepsExisting`, `AppliedOnce` | 1 student, 1 assignment, 2 Admins, 2 batches, 2 requests, restarts and lost answers | 2 910 000 |

What is proved for every instance and needs no run is not repeated in one: the `TypeOK` of the queue, the scheduler and the imports are theorems.

Why the bounds are enough.

- Queue: two jobs of one user compete for the user's slot, and with one compile key a hit, an eviction and a second success of the key happen;
  `QueueDrains` adds a third job of another user. `MaxAttempts = 2` gives one retry and one exhausted budget; two incarnations let a stalled
  loop and its successor meet at one row, and `RecoveredAtNextStart` needs no more than a process that is still to start. The bounds on running jobs and the soundness of the cache are
  theorems for any number of jobs, keys and loops.
- Scheduler: one handler is enough for a stale capture; `SchedulerRestore` has two, and the theorems any number. Three
  hashes are one shown, one being built and one pending; `MaxSeq = 3` leaves two moves, so a capture can be stale, and a restoration can
  undo; three builds are an orphan, its replacement and a pending one that was activated.
- Rooms: two edits are one in a row or a snapshot and one in the batch; the second client makes duplicates, and a last leave that is
  not the first. `SnapshotEvery = 2` stands for 500 and lets a snapshot fall before and after the last row. `MaxEpoch = 2` is one restoration, and two actors are the room
  of each epoch (opening a third waits for one to end). `LogRecovered` and `FileHasTheLog` hold with three edits as well (2.1 million states).
- Writer's session: two sockets are a connection and its successor, which is where everything is sent again; another epoch and a freeze end both (the last epoch is not frozen). One edit typed here and one from another Writer
  are enough for an acknowledgement that is not about the edit, because the second connection sends the first edit under another number.
- Writer's page: two papers are the one that is left and the one that is opened; the four commands are one of each way a command starts and goes on (a flush with a second read and a version, a flush and
  the paper opened again, a flush and a build, and the one that opens a file and types). `MaxChanges = 1` is one change of a paper or one restoration while the page waits; one of each,
  with two bounds, is 1.3 million states and holds, and so do all fifteen commands together without the liveness property (4.5 million states).
- Mentor's page: two files of one paper for changing the file, a third in another paper for changing that; one call behind is a mapping or poll that comes late.
- Imports: one student and one assignment make all three kinds of keys; two requests are a button pressed twice or by two Admins, two batches are one that was reviewed before the other was applied. `Uploads` holds
  the student alone, and an assignment with its seat, which refers to the student; with all three rows in one file as another choice it is 11.6 million states, and holds.

Every bound is a constant (`MaxAttempts`, `MaxSeq`, `MaxBuilds`, `MaxEpoch`, `MaxRooms`, `SnapshotEvery`, `MaxConnections`, `MaxSessions`, `MaxChanges`, `MaxBehind`, `MaxBatches`, `MaxCalls`,
`Uploads`, the sets); `MaxAttempts` is the program's own, the others bound only the instance.

Deadlock is not checked: when every job is decided and every process has left, or every build is over or every edit made, and every bound reached, the instance
stops, as it should; a page whose user does nothing stops as well.

Symmetry is used only where no liveness is checked: hashes and handlers, edits and browsers, the two files of one paper, the two Admins.

Fairness. `CompileQueue!FairSpec`: each loop keeps going (`run_until_shutdown` claims until it is asked to stop), a worker that is off is
started (`deploy/compose/docker-compose.yml`, `restart: unless-stopped`), time passes (`Expire`). Clients, crashes, stalls and errors are not
fair. Weak fairness is enough: one loop step is enabled until that loop takes it. `Drains` assumes no faults and no shutdown: with a
crash it is false (section 4, `CrashRecovered`). `BuildScheduler!FairSpec`: builds are claimed and end, which is `Drains`
one level down; edits and handlers are not fair. `CollaborationRoom!FairSpec`: a browser reconnects (its timer), a socket's task and an actor's timer
keep running; typing and restoring are not fair. `EditIsStored` is checked without faults: a connection that breaks for ever stores nothing.
`WriterSession!FairSpec`: the reconnection timer and the reload timer fire, messages that are there are handled, the browser's database answers, a socket that the server hung up on closes, and the server
takes frames and stores batches (its flush timer); typing, flushing, breaking connections, freezing and restoring are not fair. `EditStored` and `OldEpochPreserved` except an instance that
has used up its sockets. `WriterPage!FairSpec`: the interval of 1.5 s fires and its answers come; the Writer, the other requests and the builds are not fair.

## 4. What the violated runs show

- `RoomOneActor`. A client that connects between the commit of a restoration and its notice opens the room of the new epoch, and the notice removes it from the
  map. The next client opens another. Each actor writes the file from its own document: with two edits the file loses one that is in the log
  (`FileHasTheLog` fails in this instance). `ADR-002:11`. For this reason `RoomFaults` has one epoch.
- `MentorRefused`. A selection of source that has a place in the PDF, and a PDF region that has a line of source, get both anchors, and `createAnnotation` sends both
  (`review.js:135`, `review.js:222-231`). The server takes exactly one (`review_api.rs:932`) and refuses the comment. `ADR-007:13` says "or both".

More statements of the documents and comments are in the properties modules. No run lists them, because each is another face of a run
above or of a property's limit; TLC finds each of them violated in a small instance:

| Statement | Says | Instance | What happens |
|---|---|---|---|
| `CrashRecovered` | `ARCHITECTURE.md:44` | `QueueFaults`, crash only | expired leases are recovered once, at the start of a worker. A worker that restarts before the lease of its crashed predecessor has run out (120 s by default; Docker restarts it within seconds) recovers nothing and does not look again: the row keeps its slot, and a V2 build the scheduler's active slot, until some later restart |
| `NoStalePromotion` | `V2_COMPILE_STATE_MACHINE.md:37` | `SchedulerSubmit` | a handler captures, an edit clears the desired hash, the handler submits: the old hash is desired again and its build promoted. The row tells: its source sequence is behind the head's (`DesiredIsExact` holds) |
| `PendingIsLatest` | `ADR-005:11` | `SchedulerSubmit` | the stale capture lands in the pending slot instead |
| `OneRunning` | `ADR-005:11` | `SchedulerRestore` | a submission answered from history sets the active build to NULL while that build still runs; the next one starts a second |
| `MoveInvalidates` | `v2.rs:1989` | `SchedulerRestore` | front matter and template changes move the head and leave the desired hash; the handler submits a build afterwards, in another transaction |
| `AckIsDurable` | `S3_REALTIME_COLLABORATION.md:20` | `RoomFaults` | an update that repeats edits of the unflushed batch is acknowledged at once; every client that joins resends the document it was given. Nothing is lost while the process lives (`ToldIsKept`) |
| `SettledIsStored` | the same | `RoomFaults` | the last leave saves a snapshot although its flush failed, and the process dies; the next room knows the edit from the snapshot, takes its resubmission for a duplicate, and stores it neither in the log nor in the file until the next edit |
| `EditIsSeen` | `ADR-002:34` | `RoomFaults`, no faults | a socket subscribes after the actor's reply; an update in between reaches that client only when it reconnects |
| `SyncedOnlyForDurable` | `V2_WEBSOCKET_PROTOCOL.md:40` | `WriterSession` | an edit is typed while the socket is away and the file is locked meanwhile: the next connection is read-only, and `initializeOrMerge` says "Saved" (`writer.js:469`) although the edit can no longer reach the server. `SavedIsDurable` is about connections that may write |
| `SaveStoresAll` | `V2_1_WORKFLOW.md:7` | `WriterPage` with `"save"` and `"overlap"` | a file is opened twice at once: the editor belongs to the first session and the flush goes to the second. Without overlapping navigation it holds |
| `PdfIsShown` | `MENTOR_GUIDE.md:8` | `MentorPage` | `openPaper` clears the canvas (`disposePdf`) and keeps `pdfBuildId`: opening the same paper again finds nothing new, and leaves the canvas blank until the next build |
| `PartialMeansMissing` | `main.rs:2051` | `AdminImports` | two requests materialize one Team; the second fails on the unique key and reports the Team that the first has made as unresolved |
| `TeamFollowsRecord` | `institution.rs:2557` | `AdminImports` | the plan of one Edit, read before another Edit was applied, is merged after it |
| `EditsWhatWasReviewed` | the review step | `AdminImports` | an Edit replaces what another batch wrote after its review |

`CollaborationRoomProperties!FileIsTheLog` (the canonical file is exactly the log) holds without crashes and is not listed either.

## 5. Proofs

`CompileQueueProofs` proves, for every finite set of jobs and every value of the other constants that satisfies
`QueueAssumption`:

| Theorem | States |
|---|---|
| `QueueTypeCorrect` | `Spec => []TypeOK` |
| `VerdictAlwaysReachesBuild` | `Spec => []VerdictReachesBuild` |
| `CapsAlwaysRespected` | `Spec => []CapsRespected` |
| `CacheAlwaysSound` | `Spec => []CacheSound` |
| `OwnerAlwaysCurrent` | `Spec => []OwnerIsCurrent`, when `OneLoop` |
| `QueueImplementsContract` | `Spec => Lifecycle` |

The argument. The table changes row by row, and a row has only seven *moves* (`Inserted`, `Claimed`, `Aged`, `Asked`,
`Stopped`, `Returned`, `Decided`). The central lemmas `RowsMoveQuietly` and `RowsMove` show that every step of the specification moves every row by
one of these or not at all, once per action; everything about single rows then follows from the moves and not from the
actions. The inductive invariant is `QueueInv`: type correctness, `RowsConsistent` (a running row has an owner, a
lease and an attempt; a queued row has attempts left), `LoopsBusy` (a loop that is not idle holds a job) and `VerdictReachesBuild`.
`TypeOK` alone is not inductive, because `attempts + 1 <= MaxAttempts` at a claim needs that a queued row has attempts left, which is in
`RowsConsistent`. The bounds add a counting argument: only `Claim` adds a running row, it adds one, and its
guard leaves room. The cache adds that what a loop read is the key's genuine success for ever (`SourcesGenuine`), since a success is final.

`OwnerIsCurrent` is not inductive: the lease it speaks of may run out and be renewed. `AttemptsFenced` drops the lease: a loop whose process is the owner of a running row works on the row's current attempt. A loop keeps its job
and its attempt from one claim to the end of its cycle (`LoopKeepsAttempt`), no row move but a claim makes a process an owner or counts an attempt (`QuietOwner`), and a claim writes another `WorkerId` over that of every earlier
loop (`ClaimFences`). The last needs `OneLoop` (`Slots` has at most one element, the default of `WORKER_CONCURRENCY`): the loops of a process share its `WorkerId`, and with two of them TLC finds a stalled loop whose row another
incarnation recovers and its sibling claims, after which the first owns the row again.

The refinement maps each initial state to an initial state and each step to a step or a stutter, because every row move is a move of the contract.

`BuildSchedulerProofs` proves, for every value of the constants that satisfies `SchedulerAssumption`:

| Theorem | States |
|---|---|
| `SchedulerInvariant` | `Spec => [](TypeOK /\ PendingIsDriven)` |
| `DesiredIsTheHead` | `Spec => []DesiredIsExact` |
| `ShownIsExact` | `Spec => ShownOnlyExact` |
| `NoSubmissionLost` | `Spec => []NoLostSubmission`, when `"restore" \notin Moves` |

`RowInv` is inductive: the types, `PendingIsDriven`, `ActiveIsNewest` (an active build is the last one inserted) and `RoomForPending`. The
types need the other three, because the end of a build inserts the next one without a guard of its own. `SourceInv` adds what a capture
knows of the head: it is not ahead, and with the head's sequence it has the head's hash. `NoLostSubmission` is not inductive: when the
last build of the desired hash fails, all that is left is an older build. `NewestUnderway` follows the newest build of the hash instead; a submission that
coalesces keeps it, because the build it joins is the active one and so, by `ActiveIsNewest`, the newest. With restoration
`NoLostSubmission` is false, as it should be: a restoration desires a hash that nobody has submitted yet.

`AdminImportsProofs` proves, for every value of the constants that satisfies `ImportAssumption` (any students, assignments and Admins, any rows, any number of batches and requests, any of the two faults):

| Theorem | States |
|---|---|
| `ImportsTypeCorrect` | `Spec => []TypeOK` |
| `PasswordsHandedOnce` | `Spec => []HandedOnce` |
| `ReferencesWhole` | `Spec => []Referenced` |
| `NoTeamMissedSilently` | `Spec => []NoSilentTeam` |
| `ImportsKeepExisting` | `Spec => AddKeepsExisting` |
| `BatchesApplyOnce` | `Spec => AppliedOnce` |

`IInv` is inductive. To the four invariants it adds `Underway` (a request names a batch that is there, carries passwords only after its transaction, and its plans are of assignments that its batch
names, those that say "existing" having their Team), `BatchesReviewed` (what a batch is to do is among its rows; a batch that is not there reports nothing) and `PageKnows` (a status on a page is that of a batch).
Each is needed: without `Underway` the transaction could overwrite passwords under way, and `Leave` could pass over an assignment whose Team is missing; without `PageKnows` a click could name no batch.
The frame lemmas `OnlyCommit`, `BatchWriters` and `TeamWriters` say who writes which table, so that most steps need no case of their own, and `BatchesStay` and `TeamsStay` that rows of a batch and a Team are never taken away.
`HandedOnce` then rests on `Newcomers` choosing students without an account, and `NoSilentTeam` on following one request: `Awaits` says that it is still to materialize the Team or was cut off, `AwaitsUntilTold` that it does so until the Team is there or
reported, and `ReportStays` that a report stays until the Team is there.

`CollaborationRoomProofs` proves, for every value of the constants that satisfies `RoomAssumption` (any edits, clients, rooms and restorations, every fault):

| Theorem | States |
|---|---|
| `RoomTypeCorrect` | `Spec => []TypeOK` |
| `RoomEpochFence` | `Spec => []EpochFence` |
| `RoomNothingReplacedUnsaved` | `Spec => NothingReplacedUnsaved` |

A command of an actor is a sequence of flushes, snapshots and resets of a counter, and its outcome is one of a set. `Outcome` says it once: whatever set of works these three
operations do not leave (`Closed`), no outcome of a command leaves. Each property of a command is then three lemmas, one per operation, for a set of works of its own
(`SoundWorks`, `FencedWorks`, `GrownWorks`), and the steps that call an actor follow from it.

- `Typed` adds to `TypeOK` what its readers rely on: a handle is of a live room of the epoch that its socket read (`HandlesTyped`), and no room or snapshot claims rows that the log does not
  have. Without the first an actor that has ended would accept an update, without the second a reset counter or a recovery would leave the log.
- `Fence` says of every place an edit can be (rows, snapshots, actors, sockets, frames, the browsers' documents) that what claims to be of the current epoch was made in it, and that nothing
  claims a later one. It says nothing of an epoch that is over: the actor of an old epoch may have been opened over the file of a later one, and holds its text; what keeps that text out is the check of
  `persist_collaboration_batch`. `PagesJoined` (a joined page shows the epoch of its socket) is what makes a typed edit one of that epoch. `OneMore` bounds the epoch of a restoration under way.
- `Capture` says of a captured restoration that the file it read is the file now, unless the log has grown; `Grown` that no command changes the file without a row. The head that `apply_restore` compares is the log's length.

`CollaborationRoomStoreProofs` proves, with the same assumption and the hypothesis `OneEpoch` (no restoration happens; any edits, clients, rooms, crashes, refused batches and broken connections):

| Theorem | States |
|---|---|
| `RoomLogRecovered` | `Spec => []LogRecovered` |
| `RoomFileHasTheLog` | `Spec => []FileHasTheLog` |
| `RoomToldIsKept` | `Spec => ToldIsKept` |

The hypothesis is needed: a restoration may leave two actors for one epoch (run `RoomOneActor`), and with two actors each writes the file from its own document. `One` is inductive on top of `Typed` and `Fence`:

- `OneRoom`: at most one actor is alive, the one in the map, and a room is opened only while there is none; what the opener read is still what a recovery reads.
- `OneKept`: a snapshot that covers a row has its edits, and a later snapshot has what an earlier one has (`SnapsGood`); the file has every row; the actor's document is exactly what is stored or
  pending, and its durable sequence is the log's length (`Agrees`); what is being acknowledged is stored or pending. `Agrees` is what the immediate acknowledgement of a repeated update rests on, and
  `SnapsGood` what makes the snapshot of a last leave whose flush failed harmless to the log: it holds more than the rows it covers, never less.
- `ToldIsBorn` is for the history variable: what was acknowledged was made.

`WriterSessionProofs` proves, for every value of the constants that satisfies `SessionAssumption` (any edits of this page and of others, flushes, epochs and connections, every fault):

| Theorem | States |
|---|---|
| `SessionTypeCorrect` | `Spec => []TypeOK` |
| `SessionSavedIsDurable` | `Spec => []SavedIsDurable` |
| `SessionFlushCovers` | `Spec => []FlushCovers` |
| `SessionOldEpochOffered` | `Spec => OldEpochOffered` |

Neither `SavedIsDurable` nor `FlushCovers` is about one handler: three messages put the label "Saved" on the page, and what makes it true is under way, on the wire or in the server's batch. `Sound` is inductive; its parts build on each other:

- `Base`: the types with what the fields of a session say of each other (`Shape`: an editor that is mounted has a document, which has an epoch), `Linked` (a destroyed session has no socket, only an open one has frames and messages
  under way, and an open one is of the server's epoch), `Greeted` (a connection begins with its epoch and its state, in this order, and "Saved" is not said before the state was merged) and `Mirrored` (the document on the screen is the browser's of that epoch).
- `Numbers`: updates are numbered in the order they are sent, and no acknowledgement that is under way has the number of an update that is still to be taken in or stored. An edit that was typed after an
  acknowledgement was sent is therefore not struck off by it; and what a connection that is over had sent carries another `from`.
- `Cover`: while a merged editor may write, every edit that is in the browser and not stored is in an update whose number is in `pending`, is not being acknowledged, and is on its way or in the batch. With it "Saved" is
  true at the moment `pending` becomes empty, and stays so until something is typed. It needs `Greeted` and `Mirrored`, because a merge sends the whole document under one new number.
- `Calls`: a flush that waits is of a connection that is open, and as long as its answer is not under way each edit it is to cover is stored, in the batch, or in an update ahead of the flush in the queue of frames.

`OldEpochOffered` needs `Base` alone: what ends an editor is `preserveOldEpoch`, a lock or a new session (`EditorKeepsEpoch`, one case per handler), and by `Mirrored` the text on the screen, which is what `preserveOldEpoch` keeps,
has everything that is in the browser and not stored.

The page's steps are classified before anything is proved of them (`Off`: the connection is over; `Quiet`: nothing is sent; `Sends`: one update; `Reads`: one message; `Asks`: a call of flush), and the server's into `Stores`, `Accepts`, `Answers`,
`Hears` and `HangsUp`; every invariant is then a case of each kind and not of each handler.

`WriterPageProofs` proves, for every value of the constants that satisfies `PageAssumption` (any papers, names, edits and panels, every one of the fifteen commands, any number of sessions, changes and builds):

| Theorem | States |
|---|---|
| `WriterTypeCorrect` | `Spec => []TypeOK` |
| `WriterOneEditor` | `Spec => []OneEditor`, when `Waits` |
| `WriterBuildOfItsPaper` | `Spec => []BuildOfItsPaper`, when `Waits` |
| `WriterSettledPage` | `Spec => []SettledPage`, when `Waits` |
| `WriterAsPressed` | `Spec => AsPressed`, when `Waits` |

The types hold whatever overlaps. `Typed` adds to `TypeOK` the shape of a call by what it awaits (`Shaped`), that a live session has a file, and a page that is blank until a paper is opened (`Blank`); without the shape the
continuation of a call could open a file that is none. The rest is about a Writer who starts nothing while an answer is outstanding, and a session whose end is not announced meanwhile: `Waits`, neither `"overlap"` nor `"notice"` in `Faults`.
With `"overlap"` TLC finds each of the four properties violated, with `"notice"` it finds `OneEditor` violated (a reload and the reload of a command join a session each). Failed and refused flushes, refused commands, restorations,
other Writers and the answers of polls, panels and automatic builds, which come at any time, remain. `PageInv` is inductive on top of `Typed`; its parts are

- `OneFront`: of what the Writer waits for, only the panels are under way side by side. A navigation that comes alone is what lets `closeEditor` and `openFile` be two steps with an answer in between.
- `CallsFit`: what the model object is by the time each call is answered. The call is of the open paper; while a file is on its way no session is open; until a command is sent, the file open is the one it was
  pressed for; what was typed by then is in the session that is being flushed or is stored, and is stored once the flush has returned (`Fits`). `AsPressed` is this at the moment the server executes the command.
- `Editor`: a live session is the model's, of the file and the paper it names. It is more than `OneEditor`, which says nothing of the paper: the flush of a command is of the session, its request of the paper.
- `BuildOfItsPaper` itself: the timer is cancelled when a paper is left, and only edits of the model's session set it, so it needs `Editor`.
- `Coming`: the detail, the files and the review rounds are of the open paper, or a call is under way that brings them or whose continuation asks for them (`BringsRounds`). `SettledPage` is this when nothing is under way.

Each step is one of a few kinds before anything is proved of the parts (what is asked behind, a panel's answer, a command's step, a session's end), and a part is kept kind by kind.

`MentorPageProofs` proves, for every value of the constants that satisfies `MentorAssumption`:

| Theorem | States |
|---|---|
| `MentorTypeCorrect` | `Spec => []TypeOK` |
| `MentorOneSource` | `Spec => []OneSource`, when `Waits` |
| `MentorAnchorOfItsText` | `Spec => []AnchorOfItsText`, when `Waits` |
| `MentorSettledPage` | `Spec => []SettledPage`, when `Waits` |
| `MentorRecordedWhereSelected` | `Spec => RecordedWhereSelected`, when `Waits` |

`Waits` is the Mentor who starts nothing while an answer is outstanding, and the server that sends no notice meanwhile (neither `"overlap"` nor `"notice"` in `Faults`); with either of them two
navigations run at once, and `OneSource` and `AnchorOfItsText` are false (TLC finds it). Lost sessions, late mappings, new builds and refused comments remain. `Typed` is `TypeOK` with the shape of a call by what it awaits (`Shaped`), and a page that is
blank until a paper is opened (`Blank`); without the shape the continuation of a call could open a file that is none. `PageInv` adds, each for its reason:
`OneNavigation` (at most one call opens something; a second one would join a second session), `CallsLocated` (a call that will write to the page is of the paper that is open), `SourceKnown` (the live session is the page's, and
the text shown is the file's whose session it is), `AnchorPlaced` (an anchor is of the open paper, and the text its positions were taken from is the file it names) and `ReviewsComing` (threads of another paper are only shown while a refresh is under way).

Assumptions: only `QueueAssumption` (`Jobs` finite, the bounds positive, at least one worker and one slot), `SchedulerAssumption`
(`None` is no hash, the bounds are numbers, the first version fits), `ImportAssumption` (uploads are sets of keys, the bounds are numbers, `None` is no batch), `RoomAssumption` (`None` is no client, the faults are known ones,
the bounds are positive), `SessionAssumption` (the edits of this page are not those of others, `None` is no set of edits, the faults are known ones, the bounds are positive), `PageAssumption` (the commands, panels and faults are known ones, `None` is no paper, there is a session) and `MentorAssumption` (every paper has a file, `None` is no paper, file or anchor, the bounds are numbers), and the four hypotheses named above: no restoration in `NoSubmissionLost`,
`OneEpoch`, `OneLoop`, and `Waits` for either page. Every safety property that a passing run checks is a theorem, `OneEditor` to `AsPressed` and `OwnerIsCurrent` included. `OldEpochOffered` is the action part of `OldEpochPreserved`. Only model-checked are the liveness properties and those with a part that is one: `Drains`,
`RecoveredAtNextStart`, `Resolved`, `EditIsStored`, `EditStored`, `OldEpochPreserved` and `PdfSettles` (fairness and ENABLED are out of the prover's reach).

## 6. What is abstracted, and what is left out

- Blobs, artifacts and manifests are abstracted to whether they were all there; equal compile keys mean equal outputs.
- In `BuildScheduler` a hash stands for a state of the source. The epoch in a captured manifest, version numbers and permissions are left out for now.
- `created_at` is the order of admission. In PostgreSQL it is the start of the transaction, so two transactions that waited for a
  lock may be ordered the other way round; no property depends on it.
- A database error aborts a transaction as a whole; for the client-side operations that is the same as not calling them.
- The users of the pages start one navigation or command at a time (`Idle`). With `"overlap"` the code shows two editors and mixed papers, which is a limit of the properties `OneEditor`, `SettledPage` and `OneSource`.
- An import file is one batch; a real one may hold several, whose shared job is `PARTIAL` when one of them is.
- In the pages, what is only shown (search results, outlines, problems, dialogs, palettes, PDF positions) is left out, and so are the Admin's pages other than imports.

Hazards that were met and are not in the list of `PROJECT.json`, because no module reaches them yet or they are variants of one that is listed:

| Where | What |
|---|---|
| `bin/worker.rs:59` | the loops of one process share a `WorkerId`; with more than one loop the fence cannot tell an earlier attempt of a sibling from the current one |
| `compile_queue.rs:286` | cancelling a V2 build's job leaves the scheduler's active slot as it was until the job is finalized |
| `front_matter.rs:588` | front matter moves the head without clearing the desired hash (`MoveInvalidates`) |
| `main.rs:4928`, `crates/workspace/src/service.rs:278` | the epoch is read before the snapshot; a snapshot may be written by two requests at once |
| `blob-store/src/fs.rs:246` | two writers of one blob, and a crash between the temporary file and its name |
| `reviews.rs:1002` | a round is closed while a decision of it is under way |
| `institution.rs:2405`, `main.rs:1864` | a job of several files takes the status of whichever batch ended last; the answer is read after other requests changed the batch |
| `writer.js:462` | frames carry no epoch; the socket's epoch stands for it |
| `writer.js:753`, `writer.js:797` | a manual build cancels the automatic one before it is known to be possible; the history of the paper that was left may be shown |
| `writer.js:1089`, `writer.js:1498` | an accepted suggestion whose record is refused is edited again on retry; a search answers for the paper that was left |
| `admin.js:820`, `admin.js:898`, `admin.js:915` | sections and details are drawn by whichever answer comes last |

### Not modelled

Mentor reviews on the server, structural undo, the mail outbox, accounts and Paper Teams, the blob store and the container are planned. Not planned: legacy drafts and the legacy page (retired), archives, the
parser and index, core types, productivity helpers and the symbol catalogue (pure functions without shared state), and the generated bundles (built from the sources that are modelled). `PROJECT.json` lists each with its reason.

## 7. Plan

Order of the next modules, by what depends on them:

1. `BuildPipeline`: `CompileQueue` and `BuildScheduler` composed through `finalize_v2_build`, with cancellation and recovery, to replace the choice `Activations`
   by the scheduler's pending slot, and the scheduler's `Claim` and `Finish` by the queue's. The queue's view and the scheduler's view become refinements of it.
2. `Reviews`: rounds, threads and suggestions, with the round's end racing decisions, under the Mentor's and the Writer's page.
3. `VersionNumbers`: the locks that submissions, completions, restorations, front matter and template changes take or do not take around
   `max + 1`, with aborts and deadlocks.
4. File deletion, policy changes and read-only
   Mentors in the room, and more than one file under one restoration.
5. `WorkspaceEvents` refining a plain versioned map of files; `Restoration` with its requests and the captured epoch on top.
6. `FrontMatterRerender`, `MailOutbox`: two more claim and finish queues, with weaker fences than the compile queue.
7. `StructuralHistory`, `TeamRoles`, `BlobPublish`, `ContainerRun`: protocols over a few tables, and at the edges.

Theorems planned: that the event log implements the map of files; at most one leader per team.
