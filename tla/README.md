# cloudroom-core in TLA+

Models, model-checking runs and machine-checked proofs for the `cloudroom`
service. Paths are relative to the repository: `src/session/mod.rs` is the
service's own source tree, `docs/` its documentation. `PROJECT.json` maps every
definition to the lines it models and lists runs, mutants, hazards, findings and
theorems.

## The system

`cloudroom` runs coding agents ("harnesses": Codex, Claude, Pi, Cursor) on a
machine in the cloud. A client starts a *session*, sends it prompts, interrupts
it, puts it to sleep or closes it; each command has a request id and gets a
durable *receipt*. Everything the service knows about a session is a fold over a
journal of records on the local disk, which a background task copies to
PostgreSQL. The service may be restarted at any time; the journal decides what
the next process does with each session.

| component | state it keeps | operations | interacts with |
|---|---|---|---|
| Journal (`session/outbox.rs`) | `next`, `saved`, `writable`; record files and a cursor file | `open`, `append`, `read`, `acknowledge`, `write_atomic` | every command appends under the one lock; the uploader reads |
| Uploader (`session/guard.rs`), history (`session/history.rs`) | the batch in flight; rows in PostgreSQL | read a batch, `upload`, `acknowledge` | the journal under the lock, the database without it |
| Session records (`session/state.rs`, `session/prompt.rs`) | state, current request, queue, receipts, pause flags, native id | `apply`, `finish_receipt`, `fail_pending` | written by every handler, replayed by `open` |
| Manager (`session/mod.rs`, `session/sleep.rs`) | `handle`, `ready`, `releasing`, `draining`, `stopping` and the sessions | `start`, `command`, `launch`, `relaunch`, `deliver`, `advance`, `record_native`, `drain`, `shutdown`, `open`, `restore_all` | spawns tasks that call the harness without the lock and record the answer under it |
| Process driver (`runtime/process.rs`, `runtime/linux.rs`, `runtime/mod.rs`) | the harness process, the turn it works on, pending calls and their deadlines, frozen or not | calls, native output, freeze, shutdown, exit | answers calls, sends events to `record_native` over a bounded channel |
| Harness adapters (`runtime/codex.rs`, `claude.rs`, `pi.rs`, `cursor.rs`) | what a native protocol needs remembered: turn id, queued messages, probes, restarts | encode a call, read a message, decide that a turn has ended | the driver; the native program at the other end of two pipes |
| Storage guard (`workspace/storage.rs`, `session/guard.rs`) | the last sample and its level, writers, `was_blocked` | measure, admit, warn, freeze, thaw, clean | `blocks()` is read by commands, launches and `advance`; thawing calls `advance` |
| Teleport (`session/teleport.rs`) | a manifest per transfer, parts of its files, a lock per transfer | prepare, upload, activate, cancel, retry | makes a session out of a local conversation, installs files in its workspace |
| Workspaces (`workspace/mod.rs`) | a registered folder per id | resolve, ensure, list, install, attach | sessions and transfers keep the path it hands out |
| Mac bridge (`mac/mod.rs`, `preview/client.py`) | the helper's stream, jobs with their results | connect, run, report, cancel | agents ask over a socket, a helper on the user's Mac runs and reports |
| Children (`session/children.rs`) | sessions that belong to sessions | start, report | append to several sessions |
| Accounts and logins (`session/accounts.rs`, `runtime/*auth.rs`) | login state | | external programs |
| Secrets, previews (`secrets/`, `preview/`) | open forms, preview generations | | a browser over SSE |
| Settings sync (`sync/`) | a base per file, recovery folder | three-way merge, exchange | a client on the user's machine |
| HTTP and SSE (`api/mod.rs`) | replay cursor of each stream | | reads records |

What is hard here:

- **Concurrency.** Handlers run one at a time under one lock, but every call to
  a harness is made without it, by a task that then takes the lock again: by
  then the turn may be over, the harness gone, another one ready, the session
  closing, the service stopping. A transfer has a lock of its own, held across
  awaits during which the sessions move on. Writers are listed under a lock that
  a measurement does not take.
- **Failure.** A process death or a failed write may fall between any two
  appends of a handler; a machine may lose power between a rename and the sync
  of its directory; a reply may be lost after the harness took the prompt; an
  exit may not be confirmed; a freeze, a thaw or the record of it may fail.
- **Ordering.** The reply to a call and the events it causes arrive in either
  order; records are appended while a batch of older ones is uploaded; the end
  of a turn is inferred from a probe that may have been answered too early.
- **Time.** A handshake that times out is retried, a sample of the disk expires,
  an idle session is put to sleep while a prompt arrives, a deadline stands
  still while the workload is frozen, a job is withdrawn while the Mac begins
  it.

What makes each part correct: an accepted record is never lost or changed and
the remote copy never contradicts it (journal); a prompt reaches a harness at
most once, in order, never after it was dropped, and always eventually, or its
receipt says why not (session); one harness at a time (relaunch), one turn at a
time with one outcome and an answer to every call, whatever the native program
(driver and adapters); no start while a drain holds (sleep); nothing writes
while the cache is cleaned, and what was frozen runs again when space is back
(guard); a conversation has one owner and starts on files that are whole
(Teleport); a path belongs to one workspace for ever (workspaces); a command is
answered with its own result (Mac).

## Modules

| module | what it is | code |
|---|---|---|
| `HistoryStore` | abstract: an append-only history, a replica and a cursor | what `docs/session-lifecycle.md` promises of the journal |
| `Journal` | the journal, uploader and history table, with process deaths and power losses | `session/outbox.rs`, `session/guard.rs`, `session/history.rs` |
| `MCJournal` | `Journal` for TLC | |
| `JournalProofs` | theorems about `Journal` | |
| `PromptLedger` | abstract: prompts wait, are claimed, run once, or are dropped | what the session promises of prompts |
| `SessionRecords` | the fold: one operator per record and per receipt helper | `session/state.rs`, `session/prompt.rs`, predicates of `Session` |
| `Session` | commands, tasks, harness events, restarts, the driver and the guard as the session sees them | `session/mod.rs`, `session/sleep.rs`, `session/guard.rs`, `runtime/process.rs`, `runtime/linux.rs` |
| `MCSession` | `Session` for TLC | |
| `SessionRecordsProofs` | lemmas: what each record preserves of a sound session | |
| `SessionProofs` | theorems about `Session` | |
| `Turns` | abstract: one turn at a time, each with one outcome, silence after the exit | what the driver promises the session |
| `Wire` | calls, frames, messages, events and the progress of a turn | `runtime/mod.rs`, `runtime/process.rs` |
| `Codex`, `Claude`, `Pi`, `Cursor` | an adapter each, as operators, and the native program as the adapter expects it | `runtime/codex.rs`, `claude.rs`, `pi.rs`, `cursor.rs` |
| `Driver` | the driver loop with one adapter, the `Handle`, the pipes, the program and the session that drives it | `runtime/process.rs`, `runtime/linux.rs`, `runtime/mod.rs` |
| `MCDriver` | `Driver` for TLC | |
| `DriverProofs` | theorems about `Driver` with its four adapters | |
| `DriverTurnProofs` | theorems about what the program works on | |
| `DriverRefinementProofs` | that `Driver` implements `Turns` | |
| `StorageGuard` | levels, samples, writers, launches and the guard's loop | `workspace/storage.rs`, `session/guard.rs` |
| `Teleport` | transfers, their files and the sessions they become | `session/teleport.rs`, `workspace/mod.rs` |
| `MacBridge` | streams, jobs, waiting agents and the helper | `mac/mod.rs`, `preview/client.py` |
| `Workspaces` | the registry of folders under failed writes and power losses | `workspace/mod.rs` |
| `MCServices` | the last four for TLC, side by side | |
| `TeleportProofs` | theorems about `Teleport` | |
| `ServicesProofs` | theorems about `StorageGuard`, `MacBridge` and `Workspaces`, and about the four side by side | |

`Journal` instantiates `HistoryStore`, `Session` `PromptLedger` and `Driver`
`Turns`, each with its refinement mapping, so a refinement is the abstract `Spec`
checked as a property.
Operators whose comment begins "Mutant" are not part of the models: each is a
plausible bug, and substituting it for the definition after it must break the
property that `PROJECT.json` pairs it with.

### Journal: correspondence

`dir` is the directory as any process sees it, `versions` every directory a
power loss could leave: a rename adds one, the sync of the directory leaves only
`dir`. The steps of `write_atomic` are `BeginAppend` or `Acknowledge` (the
temporary file is written and synced), `Rename`, and `AppendDone` or
`AcknowledgeDone` (the directory is synced); `write` is the call in progress,
and while it is there the lock is held (`Unlocked`). `WriteFails` may replace
any step and leaves `writable` false, as the code does. `Open` numbers the next
record after the files it finds; a directory it would refuse is what
`NeverRefused` excludes. The uploader is `TakeBatch`, `Commit`/`Conflict` in the
database, `UploadFails` (not sent, still on its way, or only the reply lost),
`Acknowledge`/`AcknowledgeRefused`, and `ReadPendingFails`. `Crash` keeps the
page cache, `LosePower` picks a directory of `versions`. Assumed of the file
system: renames reach the disk in the order they were made. The lock file keeps
a second service away, so one process is enough.

### Session: correspondence

`session` is the persisted `Session`: the value that replaying the journal
gives. One action is one critical section of a handler. Inside it the records
are appended one by one, and `Commit(partial, final, effect)` says so: the
handler ends in `final` with `effect`, or the service stops after a shorter
prefix (`partial`), because the process dies (`ServiceGone`) or because a write
fails and the journal refuses every later one (`mode = "wedged"`).

- Commands: `StartSession`, `Prompt`, `InterruptTurn`, `StopTurn`, `ResumeQueue`
  (with the retry of a failed startup), `Cancel`, `Compact`, `CompactWakes`,
  `Sleep`, `Close`.
- `launch` and `relaunch` are tasks that move through `Admit` (the startup
  permit), `Spawn`, `Handshake` and `LaunchReady`, `LaunchError`,
  `RelaunchReady`, `RelaunchError`, or are dropped where the code checks for a
  stop or a close.
- `deliver`, `interrupt` and `compact` are `SendPrompt`, `SendInterrupt`,
  `SendCompact` without the lock, and `RecordReply` under it. A call can be
  refused, unanswered, or taken with its reply lost.
- `record_native` is `RecordStarted`, `RecordFinished`, `RecordCompacted`,
  `RecordSlept`, `RecordExited`, in the order the harness produced the events.
- `advance` and `wake` are the operators `Advanced` and `AdvanceTasks`, applied
  inside the handler that calls them.
- `harness.jobs` says that the workload has more processes than `awaken` counted
  when the session became ready, the `background` of `can_sleep`; it changes in
  `HarnessForks` and keeps `CanSleep` false. `MayFork` is FALSE where no more are
  ever seen: unprotected runs cannot count.
- The guard: `SampleExpires`, `GuardLooks`, `GuardPauses`, `GuardResumes`.
- `Open`, `OpenUnreadable` and `Restore` are a boot; `Crash`, `Stopped` and
  `Shutdown` the ends of a service.

`sent`, `dropped` and `arrived` are ghosts: prompts in the order a harness took
them, prompts that left the queue without a turn, and prompts in the order of
their acceptance. `orphan` says that a process nobody holds may still run.

Abstractions, chosen so that the properties cannot tell the difference:

- One session. Content, models, workspaces, usage and warnings are left out.
- The service runs protected (cgroups), so a boot can clear old workloads.
- Freezing succeeds and is recorded in one step; `request_shutdown` of a close
  is merged with the critical section after which it is called; the event that a
  turn started is produced with its acceptance.
- A crash inside a loop over control receipts is not told apart from one after
  it: the next boot gives the open ones the same answer.
- A service whose journal refuses writes is followed only in its running calls
  and its end; what its handlers still change in memory is lost with it.

### Driver and adapters: correspondence

An adapter is a module of operators over its own state: `Script` lists the calls
an operation of the `Handle` makes, `Encode` what a call changes, `Receive` what
a message changes and which events it causes, `Reply` or `Responds` which call
it answers, `CloseFrames`, `Closing` and `Closed` how the program is asked to
stop. `Driver` picks the operators by `kind`.

- The loop of `drive` is `AcceptCall`/`DenyCall` (its request branch: the guards
  on the current turn, then the frame), `ReadLine` (one message: `receive`, then
  the answers), `SendEvent` (the bounded channel; while an event waits, nothing
  is read and nothing answered), `Tick` (probes and captures), `Stop`,
  `LoopEnds` and `Leave` (the exit is reported after the last output).
- The `Handle` is `CallStep`, `Settle` (an interrupt of Codex that waits for the
  end of its turn) and `TimeOut`, which is disabled while the workload is
  frozen, except for the settling wait, whose deadline does not stand still in
  the code.
- The session side is what `Session` has in full: `SendPrompt`, `Control`,
  `Compact`, `SessionLearns` (a refusal), `Record` (events in order),
  `Shutdown`.
- The native program is external: `Takes` and `Works` of each adapter offer what
  the adapter's code and tests provide for. Codex may refuse, begin, end or
  compact a turn; Claude queues messages and names each in a result when it
  ends, an interrupt included; Pi may refuse a prompt, handle it without the
  agent, settle and go on, and counts as busy before it answers; Cursor answers
  a prompt when its turn ends, and may be cancelled and prompted again.

Left out of the adapters: rewind and fork, records of items, usage and history,
notices, delegation and permission replies. Of Cursor's two modes the one with a
captured history is modelled; `fx` is that adapter without the capture. The 16
slots of the `Handle`'s own channel never fill, as a session has fewer
operations in flight.

### Teleport: correspondence

`transfer`, `parts` and `disk` are what a restart finds: the manifest, the
`.part` files, the installed files. `request` holds the lock of a transfer at
its await, `entering` are activations between the check of the drain and that
lock. `Prepare`/`Prepared`, `Upload` with its checks (`Pinned`, `Fits`),
`Installed`/`Mismatched`, `Announce`, `CancelTransfer`, `Enter` and `Activate`,
and `Retry`, `RetryResumes`, `RetryPrompts` (two commands under derived ids) are
the handlers cut at their awaits; `AwaitFails` is an await that returns an
error, or a request that is dropped there. The session that an activation makes
is a thread with a queue, a log of accepted ids and the flags that
`transfer_view` reads; `Phase` and `ViewError` are that view. `RestartService`
loses locks and keeps files. A file's content is its version; the digest is
compared where the code compares it.

### StorageGuard: correspondence

`Level` is `Policy::level`, `Blocks` is `Guard::blocks` with its five seconds
(`SampleAges`). `AdmitWriter`/`StartWriter` are the two halves of `spawn_writer`
under the list's lock, `LaunchLooks`/`LaunchSpawns` those of a launch, which
takes none. The loop is one step per workload: `Measure`, `Warn`, `Decide`
(waits for the lock), `FreezeWrites` and `FreezeConfirmed` or `FreezeTimesOut`
for each group, `WritersDone`, `HarnessDone`, `Clean`. The kernel follows
`cgroup.freeze` later (`KernelFollows`). The loop's two orders are kept: handles
are listed before the writers are frozen, and after they are thawed.

### MacBridge: correspondence

`MacConnects` replaces the stream, `StreamClosed` clears the helper once its
receiver is gone. An agent is `Run` or `RunOffline`, `SendJob`, then the loop of
`local_run`: `LookResult`, `AckPasses` (ten seconds), `LookWithdraws`,
`LookUnknown`; `AgentLeaves` and the withdrawal post a cancel. The helper is
`ReadMessage`, `MacStarts`, `CommandEnds`, `MacReports`, and repeats a report
whose reply was lost. `MacRestart` empties the service's memory; ids carry the
pid, and pids are assumed to differ between services.

### Workspaces: correspondence

`resolve` is `ResolveKnown` or `ResolveNew` (the collision check and the long
path) and then the steps of its write: `RegistrationRenamed`,
`RegistrationSynced`, or `ResolveFails` in between. As in the journal,
`versions` are the registries a power loss could leave. `HoldPath` is the synced
record of the session or transfer that took the path. Agents change folders
below the root at will.

## Runs

| run | bounds | what it shows |
|---|---|---|
| `journal_crash` | 3 records of 2 contents, batches of 2, 2 deaths, 2 faults | type, the replica agrees, the uploader catches up, and the refinement of `HistoryStore` |
| `journal_power` | the same with power losses and 1 fault | accepted records survive, the cursor is never ahead of the database, the journal always reopens |
| `journal_visible` | the same | expected violation of `VisibleIsDurable` |
| `session_crash` | 2 prompts, a resume, a sleep, a close (any 2), 3 harnesses, 1 restart, 2 faults, idle time | at most once, in order, a sound queue, one harness, the refinement of `PromptLedger` |
| `session_commands` | 2 prompts, 2 compactions and 1 request of each other kind (any 3), 2 harnesses, 1 fault, stale samples | dropped prompts never run, the handle is there when ready, one turn, receipts end once, a drain holds |
| `session_live` | 2 prompts, an interrupt, a stop, a compaction, a sleep, a close (any 3), background jobs, a disk that may fill up | queued prompts move, requests are answered |
| `session_restart` | 1 prompt and one each of the other five (any 2), background jobs, a crash or planned restart, 1 fault | the same across the restart and a lost reply |
| `session_stall`, `session_replies`, `session_retry` | one stale sample; one prompt, interrupt and lost reply; three resumes | expected violations, see below |
| `harness` | 15 plans over the four harnesses: 1 or 2 prompts with interrupts, steers, compactions, a shutdown, a freeze, at most 1 fault; 1 event and 2 messages of room | a turn the session takes for over is over in the program, an interrupt sees its own turn, history before the end, no prompt denied between turns, the refinement of `Turns`, every turn ends and every call returns |
| `services` | Teleport: 8 plans of 1 or 2 transfers of one conversation, up to 3 kinds of files, 2 versions, 2 retries, 2 faults. Guard: 2 writers, or 1 and a harness, 3 amounts of space, 1 failure. Mac: 2 commands, 3 ids, 1 loss. Workspaces: 2 ids, 2 names that collide, 2 ends | one owner, no id queued twice, starts on whole files, no silent stall; nothing writes while the cache is cleaned, work resumes; results are own, jobs resolve; paths are held |

Why the bounds suffice. Requests are independent but for the queue, the current
turn and the flags, so two prompts give every order of acceptance and dispatch,
and a third command meets each of their phases. Two harnesses are the one that
goes and the one that comes; the third is the recovery of the second. A fault
budget of two allows one failure while another is being handled. Three records
and batches of two make the batch shorter than the journal and the journal
longer than the batch. `MaxRequests` bounds accepted requests, `MaxHarnesses`
spawns, `MaxRestarts` ends of the service, `MaxFaults` failures, `MaxRecords`,
`MaxCrashes` and `BatchSize` the journal. The liveness runs leave `MaxHarnesses`
high enough that no relaunch is stopped by the bound. In `harness`, one event of
room stands for 128, since what matters is that the channel is full, and the
plans let the controls of each harness meet each other, the end of a turn and a
freeze or a shutdown, and let each harness meet one fault. In `services` two transfers of one conversation, two commands,
two colliding ids are the fewest that can be confused; space of 0, 2 and 4 lies
below, between and above thresholds of 1, 2 and 3, the second at the very edge
of recovery. `EventsMax`, `PipeMax`, the plans' `faults` and `freezes`,
`MaxMishaps`, `MaxNext`, `MaxLosses` and `MaxStops` are the bounds. `MCServices`
runs four models that share no state in one run: `part` says which of them moves
in a behaviour. Deadlock is not checked: a bounded model stops when its budgets
are spent.

### Fairness

`FairSpec` of `Session` asks that the service is started again, that its tasks
run and that their calls are answered or time out (`runtime/linux.rs`, `reply`),
that turns, compactions and exits end, that events are recorded, that the
sleeper looks at a session that was asked to sleep, and that the guard acts on
the room it sees. Nothing makes clients send commands, the disk fill up or a
sample expire. The two properties assume `Mended`, what no fairness of the
service brings about: that the disk is not short of space for ever
(`<>[]~blocked`), that no reply was lost in a way that leaves the session in a
turn nobody ends (`Stranded`; what `EventsOwnProgress` shows, and a prompt whose
call failed without arriving, which keeps the session `starting_turn` until the
client interrupts it), and that a service whose journal refuses writes does not
stay up for ever. Premise and conclusion have the form `[]<>`: a reply may be
lost and the session go on, and a request that stays open must not. A prompt may
wait while the client has paused the queue, after a startup that timed out and
after a close that was cut off (`QueueWaits`); no other excuse is given to a
queued prompt. A sleep is promised only if background jobs stay away in the end
(`<>[]~harness.jobs`): a development server keeps its receipt `accepted` for as
long as it runs, and so no fairness is asked of `HarnessForks`. The guard's
fairness is stated for samples that show room only: weak fairness of any look
would force the disk to fill up again and again, and make that premise false.
`FairSpec` of `Journal` asks that a boot, a
started write, the uploader's loop and the database go on; `CatchesUp` assumes
that the service stays up with a writable journal and an uploader that has not
ended.

`Driver` asks that the driver's loop, the session's recording and the steps of
the `Handle` go on, that a frozen workload is thawed in the end, and that the
native program takes its input, works, and exits once its input is closed; no
prompt, control, freeze, timeout or fault is forced. `Teleport` asks that an
await ends, the session's own steps happen, the disk and the machine come back,
and that the client goes on sending the bytes of files that have not changed
(strong fairness, since a restart or a full disk may interrupt it again and
again). `StorageGuard` asks that the guard's loop and the kernel run, and its
property assumes space that is back for good (`<>[](space > Warning)`).
`MacBridge` asks that one of the pending loops, timeouts and reports is taken;
each is done once, so all are.

### What the runs show

Where the code departs from its documentation:

- `VisibleIsDurable`: `Journal::open` serves a record whose directory entry was
  never synced; after a process crash it is replayed, and a power loss may still
  remove it.
- `QueueMoves` with stale samples: a sample older than five seconds counts as a
  full disk in `advance`, but the guard's loop compares only its own fresh
  samples and never calls `advance`; the queue stays until another event.
- `EventsOwnProgress`: an interrupt whose reply is lost after its turn has ended
  leaves the session `interrupting`, and a compaction whose reply is lost leaves
  it `running`, with the queue held: no event is left that would go on.
- `CleanBeforeRetry`: retries of a failed startup overlap. The harness of a
  retry exits during the handshake; its exit clears handle and pid but not the
  startup error, so the next resume is admitted before the handler of the first
  retry has run. That handler fails the receipt of the second and makes the
  session `process_lost` again, so a third is admitted while the second waits in
  `relaunch`, which spawns without a look at the handle. (Two startups run at
  once where there is more than one permit, and there are half as many as
  cores.) While retries overlap the order of prompts and the hold of a drain are
  lost as well; `OneHarness`, `InOrder`, `OneTurn` and `DrainHolds` therefore
  speak of sessions that accepted one resume at most (`RetriedOnce`).

`DrainHolds` also leaves out sessions with a compaction whose reply was lost
(`CompactsAnswered`). `finish_receipt` forgets such a compaction
(`session/state.rs:246-260`) though the harness still runs it; a resume makes
the session idle again, a second compaction is accepted, and the event that ends
the first finishes the second (`session/mod.rs:1904-1921`) before its task has
sent it. A drain then reports `drained`, and the task compacts afterwards
(`session/mod.rs:1390`). `session_commands` with the condition dropped shows it.

Met while modelling and not stated as properties.

Session: the error path of `launch` records `failed` over a session that was
closed meanwhile (`session/mod.rs:867-885`); the drain's comment
(`session/sleep.rs:104`) speaks of closed sessions, but a close whose harness
was lost ends in `process_lost` and keeps the drain refused; `docs/api.md` lists
`unknown` among final receipts while `finish_receipt` may leave it; the receipt
of a sleep, a compaction or a stop stays `accepted` once the session closes,
fails to launch or is lost before it is answered (`Excused`). The comment at
`session/sleep.rs:71` says that an uncertain count of processes means to keep
running, but a count that cannot be read is no `background`, and the harness is
let go. A crash inside `close` just after its receipt leaves a session whose
close nobody carries on: a suspended one keeps its queued prompts `accepted` for
good, where `docs/session-lifecycle.md` says that close marks them `failed`.

Driver and adapters: a message that Claude rejects stays the driver's current
turn, and every later prompt is denied as busy (the comment at
`session/mod.rs:1291` says that after a rejection the queue advances;
`FreeBetweenTurns` leaves Claude out for this). Codex or Pi refusing a prompt
after its call has timed out causes no event that ends the turn. A prompt whose
preparatory call times out is recorded as `unknown` although it was never sent.
The wait of a Codex interrupt for its turn counts frozen time.

Teleport: activation looks at `draining` before it waits for the transfer's
lock, so a drain may begin in between. A transfer may replace the conversation
file that another, activated meanwhile, already owns (the owner is checked
before the awaited install and not after it), and may start on the copy of a
later one. A retry after a startup timeout, or of a paused queue, adds the
handoff's text again while the first is still queued, under another id. A crash
while a session closes leaves it `process_lost` with a close request, and its
conversation in use for ever. A session put to sleep before any output shows
`running` and no error; so does a transfer one of whose files changed while it
was sent, which can never complete.

Guard: a harness that was frozen before it was warned is not thawed again when
its thaw fails; a harness whose launch looked at the disk before the level
changed may start during the cleaning, which is why `RestWhileCleaned` speaks of
those listed.

Mac: an agent can be told that its Mac is unavailable and to try again although
the helper then runs the command: it ignores that its first report is refused,
and a cancel that arrives before the process exists (the comment at
`mac/mod.rs:159` says that the command is stopped). Ids are a pid and a counter;
a service restarted under the same pid could take an old report for its own.

Workspaces: after a sync that failed, `get` serves a registration that a power
loss may remove; the session's or transfer's own synced record, which follows,
makes up for it.

## Proofs

`JournalProofs` proves for all sets of sessions and contents and all bounds,
from `JournalAssumption` (the bounds are naturals, a batch is not empty,
`NoFile` is no record), that `Journal`'s `Spec` implies

- `TypeCorrect`: `[]TypeOK`;
- `AcceptedRecordsSurvive`: `[]AcceptedSurvives`;
- `JournalReopens`: `[]NeverRefused`;
- `SavedRecordsReplicated`: `[]SavedIsReplicated`;
- `ReplicaNeverContradicts`: `[]ReplicaAgrees`;
- `JournalRefinesHistoryStore`: `RefinesHistoryStore`, for a machine that does
  not lose power (with power losses the history itself may shrink to what was
  synced: `VisibleIsDurable`).

The argument is one inductive invariant `IInv`. None of the properties is
inductive: that an accepted record is in every directory a power loss may leave
needs that all of `versions` agree up to the record being written, that a write
in progress is of record `next` and nothing lies beyond it, that every version
is a prefix `1..n` with its cursor inside, and that the batch, the transactions
in flight and the cursor being written only speak of records that are in all of
them. Each action is a step of the proof, and under it each conjunct it can
disturb. The replica agrees because what is in the database or on its way to it
was read from the journal at places it still holds, and records never change
place; the cursor in memory is at most that of the file, and both lie inside the
replica, which is the cursor of `HistoryStore`.

`SessionProofs` proves for all sets of requests and all bounds, from
`RequestsAssumption` (the start, a prompt, a compaction or a resume is no other
command, for a request id carries one, and `None` is no request) and `SessionAssumption` (the bounds are naturals, the options
Booleans), that `Session`'s `Spec` implies

- `SessionTypeCorrect`: `[]TypeOK`;
- `SentAtMostOnce`: `[]AtMostOnce`;
- `CancelledNeverSent`: `[]DroppedNeverRuns`;
- `QueueAlwaysSound`: `[]QueueSound`;
- `ReceiptsStayEnded`: `ReceiptsEnd`;
- `SessionRefinesPromptLedger`: `RefinesPromptLedger`;
- `ReadySessionHasHandle`: `[]ReadyHasHandle`;
- `OneHarnessAtATime`: `[]OneHarness`;
- `OneTurnAtATime`: `[]OneTurn`;
- `PromptsSentInOrder`: `[]InOrder`;
- `DrainsHold`: `DrainHolds`.

None of the invariants is inductive: whether a delivery may send its prompt depends on what was
recorded when it was spawned, perhaps several handlers and a torn write ago. The
invariant `IInv` keeps a ledger (`LedgerOK`): what is sent, dropped or requested
by a delivery was accepted; the queue shares no prompt with any of the three; a
delivery that still waits asks for a prompt that was neither sent, dropped nor
cancelled, and no other waiting delivery asks for it. It also keeps the order of
arrival (`OrderOK`): the queue is in that order, and whatever was sent, or was
claimed and may still be sent, arrived before all of the queue. Beside these
stand the types, the forms of tasks and events, and what holds before the start
request.

The proof follows the model. `SessionRecordsProofs` shows for every record and
receipt helper that a `Sound` session stays sound, that its queue only loses
prompts and that receipts which ended stay (`Follows`), and for the first
receipt of a request and for cancels the weaker `Succeeds`; both compose, so a
handler is a chain of records. `LedgerStep` then keeps the ledger for every
handler whose records succeed the session and which spawns no delivery but that
of the prompt it claims; `TornStep` does the handlers cut short, `CommitStep`
both, and there is one lemma per action. Only `SendPrompt` changes what was sent
(`TakenLedger`). The same lemmas give the refinement of `PromptLedger`: a step
succeeds the session by accepting one prompt, claiming one, or dropping some,
never two of them (`Promised`), however a handler is cut short.

`ReadySessionHasHandle` and `OneHarnessAtATime` rest on a second invariant,
`HInv`. `Owned` says whose the
harness is: the handle names the one spawned last, nothing waits to be recorded
of any other, an exit is the last event, and the record of the pid outlives the
handle. `Alone` says why a spawn finds nothing running: one start is pending at
a time, it waits in a state in which nothing else starts one (`Awaits`), there
is no handle and no orphan while it did not spawn, and a harness whose end was
not confirmed either has that exit still to be recorded or left its pid in a
session that is down, which is what a retry looks at. `Alone` needs that one
failed startup at most was retried; before the first retry it speaks of every
start, afterwards of those that did not spawn, since the handler of an earlier
one may be late. Steps that leave handle and harness alone are `CalmStep`, and
the others have a lemma each (`StartStep`, `ReadyStep`, `SpawnHarness`,
`ExitStep`, `LetGoStep`); the actions are then instances of these.

`OneTurnAtATime` and `PromptsSentInOrder` rest on a third, `TInv`, which relates
the harness's turn to the session's. What is `Due` is the prompt the harness
runs, those its unrecorded events tell of, and those of deliveries on their way
to it. `Told` says that all of it was sent or is being sent, and that nothing is
heard of a turn after its end. `Follow` says that while there is a handle all of
it is the one prompt the session has recorded as current, and that the session
is ready: so nothing else can be claimed before the turn has ended, and a
delivery on its way finds the harness free. A journal that refuses writes ends
that, for the session in memory no longer follows; `Wedged` is what remains of
it, since nothing is claimed any more: one delivery at most is on its way, and
then the harness runs nothing. `Sorted` says that `sent` is in the order of
arrival and that the prompt on its way follows all of it; it rests on `OrderOK`
and on `Follow`, which lets only one prompt at a time be on its way. Most actions
are instances of three steps: one that leaves the turn alone (`KeepsTurn`), one
that ends in an advance (`AdvanceTurn`: the turn has ended or there is none) and
one after which nobody follows it (`OverTurn`).

`DrainsHold` rests on a fourth, `DInv`, which relates three things the code keeps
apart: the `compact` flag of the session, the calls of its tasks, and what the
harness does. `Flight` says that a compaction is on its way, at work, or ended
and not yet recorded, one of them at most, and that the session then knows that
it compacts, so that a drain is refused. `Reported` gives each such call a receipt
of its own, to which its answer goes. `Drained` says what a drain finds and
keeps: the queue is empty, paused or held by a close, and nothing that could
begin a turn or a compaction is on its way to the harness of that time. `Shut`
says that a session closes only once it was asked to, which is what still holds
its queue after its harness has gone. Here the hypotheses of `DrainHolds` are
needed: without `CompactsAnswered` the flag is cleared while the harness
compacts. The records of a session are sorted by what they leave alone (`Trails`,
`Carries`, `Drains`, together `Eases`); handlers made of easing records, which
are most, keep `DInv` by `CommandDrain` and `AdvanceDrain`, and the acceptance, call,
answer and end of a compaction by `CompactDrain`, `SendCompactDrain`,
`SettleDrain` and `CompactedDrain`. All four invariants were model-checked before
they were proved (`DInv` to the end on an instance of 1.25 million states, and on
a larger one for as long as the search was run).

`DriverProofs` proves for all sets of prompts and plans, whichever harness runs,
whatever it answers, and for any size of the channel and of the pipes, from
`NamesAssumption` (prompts have names of their own, and `None` is no prompt and
no call of an operation) and `DriverAssumption` (there are four kinds of harness, and a
channel and a pipe have room for something), that `Driver`'s `Spec` implies

- `TypesHold`: `[]TypeOK`;
- `InterruptsAim`: `[]InterruptSeesItsTurn`;
- `PromptsFindItFree`: `[]FreeBetweenTurns`;
- `HistoriesComplete`: `[]HistoryBeforeEnd`.

The second is what no test of the code reaches: an interrupt of Codex allowed at
its target waits, makes its next call and waits again, and meanwhile the driver
takes calls, reads and may be replaced in its turn. It is safe because the turn
in hand changes only when a prompt is taken, and no prompt can be on its way:
`InterruptInv` says that while an interrupt is open nothing that may still be
accepted has been sent, and that an interrupt past its guard (`Aims`) names the
turn in hand. What may still be accepted (`Coming`) is a prompt not sent, one
whose `Handle` has calls to make, or one whose call is in the channel, also when
its `Handle` gave up on it. `CallsOnce` keeps those calls apart, `ComingInv` says
that neither the driver nor an event on its way knows of such a prompt, and
`SentOnce` and `FreeInv` that it is alone and finds the driver free. That in turn
needs that a turn the driver has not ended has not ended for the session either
(`BusyInv`, by way of the events in the outbox and the channel, `Queue`, and of
the call whose refusal ends a turn), and that turns are lost only with the exit,
the last event there is (`ExitInv`). `CopyInv` follows a copy of Cursor's chat
from the end that asks for it through the worker to its event, which is in the
queue before that end. The types are part of the invariant (`TypeInv`): the
adapters' operators only say what they say of messages and states that are well
formed, and the program is shown to send only such (`TakesOK`, `WorksOK`).

The adapters meet the proof in three lemmas: `ReceiveSpeaks` (a message makes
any adapter tell of the turn in hand only, once, and while it is not over),
`EncodeOK` (a call becomes the prompt of the adapter only when it carries one)
and `AnsweredHears` (an answer moves at most the operation that waits for it).
With them each step of the driver has one lemma that no longer speaks of a
harness, and `Assemble` puts together what the steps have in common.

`DriverTurnProofs` proves from the same assumptions `TurnsSound`
(`[]TurnSound`): once the session takes a prompt for finished or refused, the
program neither runs it nor will. That is a matter of the order in which each
program says things and the driver hears them, which `IInv` leaves open, so it
has an invariant of its own, `SInv` (`WorkInvariant`). `TokenInv` says that the
program holds at most the prompt the driver works on, once: on its way in a
frame or at work. `DoneInv` says that every message by which the driver takes a
prompt for over (`Final`) was written when the program was done with it. The rest
is what each harness needs for those two. Codex runs a compaction as a turn of
its own, which the adapter must not take for the prompt's nor the prompt's for
it: `PackInv` follows the compaction from its one call to its one end and says
that no prompt comes in between (`AskedInv` gives the session's side), and
`CodexInv` that a turn announced is the one the driver works on and not over. A
probe of Pi names the prompt that it asks about and follows it in the pipe
(`PiInv`), so that an idle Pi has done with it. Claude has a queue: `QueueInv` has
each prompt in it once, `ReplyInv` says that a denied one was never queued, and
`OverInv` that no prompt is held that is over for the session, whose driver goes
on with the turn. Of Cursor, `CursorInv` says that one call whose answer ends the
turn is on its way, at work, leaving or answered, and that a steered prompt
follows only when the last was answered. The proof goes by what the steps have in
common: those that leave driver, pipes and program alone (`StepCalm`), those of
the program (`Acts`, `MovesKeep`), those in which the driver writes or reads
(`DrivesKeep`), and the acceptance of a prompt (`AcceptKeeps`); every step is also
`Steady`: it makes no prompt come that was not coming.

`DriverRefinementProofs` proves `RefinementHolds` (`Spec => RefinesTurns`): each
step of `Driver` is one of `Turns` or changes nothing that the session knows of
(`RefStep`). `SendPrompt` maps to `Send`, `Compact` to `Ask`, `SessionLearns` to
`Refuse` or, of a compaction, to `Packed`, and `Record` to `Begin`, `Finish`,
`Packed` or `Exit` by the event at the head of the channel, or to a stutter;
every other step is a stutter. `Turns` has a guard on each of these that the code
does not test when it records an event: the driver has to send only events for
which it holds. `RInv` says that it does (`TellInvariant`). `TellInv` has the
start of a turn told first and only of a prompt that is sent, its end told last
and once, and what the driver has not told, told by nobody. `ExitLast` puts the
exit after every other event and `PackKnown` says that no one knows of a
compaction which the session did not ask for. `QuietInv` is for refusals: of a
prompt that is still coming, on its way to the program, declined or refused
(`Unheard`) no event tells and no message speaks, so that a refusal cannot
follow a start, not even when a `Handle` gave up on its call and the program
declines later. Two facts it needs of the programs: Pi's agent says that it
starts before the turn is over (`AgentInv`) and Claude's adapter knows whose
message it is (`UsersInv`). The driver of Cursor answers a call as it takes it
(`WaitInv`), so nothing of Cursor is declined late. TLC agreed with all of it on
the instance of the run `harness` before it was proved.

The services are each proved for any constants that meet the assumption of
their module, and each with one inductive invariant:

- Teleport, in `TeleportProofs` (`TeleportAssumption`: sizes and numbers of
  faults are naturals, `None` is nothing else, plans list transfers and files):
  `ConversationHasOneOwner` (`[]OneOwner`), `HandoffQueuedOnce`
  (`[]QueuedOnce`), `StartsWhole` (`[]StartedWhole`) and `TeleportTypeCorrect`.
  Beside the types and the form of a session, `IInv` says what a request found
  before its await and may still rely on after it (`LockInv`), since only the
  holder of a transfer's lock changes it, and that an arrived file stays as it
  was installed. `TransferInv` adds, for the types, that the parts written fit
  their file and that what is queued has a receipt.
- The storage guard, in `ServicesProofs` (`StorageAssumption`: thresholds in
  order, writers and harnesses apart): `NothingWritesWhileCleaned`
  (`[]RestWhileCleaned`) and `GuardTypeCorrect`. `GuardInv` follows a pass: the
  level it saw holds until it ends, so nothing is admitted; every live writer,
  and later every listed harness, is still to do or rests with its gate closed,
  unless something failed; programs are started once, so none of the listed ones
  is new.
- The Mac bridge, in `ServicesProofs` (`MacAssumption`, `IdsAssumption`):
  `ResultsAreOwn` (`[]ResultIsOwn`) and `MacTypeCorrect`. `BridgeInv` says that
  whatever names an id (a message, a call, a helper's thread, a result) names the
  same command, and that the next id is named by nothing.
- The workspaces, in `ServicesProofs` (`WorkspacesAssumption`,
  `FoldersAssumption`): `PathsAreHeld` (`[]PathsHeld`) and
  `WorkspacesTypeCorrect`. `WorkspaceInv` says that every registry a power loss
  could leave gives no path to two ids and keeps every path handed out.
- The four side by side, as `MCServices` runs them: `ServicesTypeCorrect`
  (`FairSpec => []TypeOK`). A step of one leaves the invariants of the other three
  as they are.

Left to TLC: liveness (`CatchesUp`, `QueueMoves`, `RequestsSettle`, `TurnsEnd`,
`CallsReturn`, `NoSilentStall`, `WorkResumes`, `JobsResolve`), which the prover
does not reach. Every safety property of a passing run is proved.

## Not modelled

- Whole components: children, accounts and logins, threads, the catalogue, the
  HTTP interface, secrets and previews, settings sync. `PROJECT.json` names each
  with the reason, and the hazards that wait for them. Configuration,
  observability, the installer and the TypeScript client change nothing the
  properties speak of.
- Session: rewind, edit, reorder, steer, attach and children.
- Driver and adapters: rewind and fork, notices, delegation, permission replies,
  records of items, `files.rs` and Cursor's history script.
- Teleport: `teleport_check`; part files lost with the power; a destination that
  changes between two prepares.
- Guard: how the policy is loaded and what the cleaning removes.
- Mac: more than one paired device, `vm_run`, and the CLI's pull and push.
- Workspaces: `checkout`, `attach`, and the child workspaces with a parent of
  older versions.

## Plan

In order of importance:

1. **Journal and HistoryStore**: done, with proofs.
2. **Session and PromptLedger**: done for nine commands.
3. **SessionProofs**: done for types, `AtMostOnce`, `DroppedNeverRuns`,
   `QueueSound`, `ReceiptsEnd`, the refinement of `PromptLedger`,
   `ReadyHasHandle`, `OneHarness`, `OneTurn`, `InOrder` and `DrainHolds`.
4. **Prompts**: edit, reorder, rewind and steer in `Session`: the revision that
   runs is the one its receipt shows.
5. **StorageGuard, Driver and adapters**: done, with proofs, the refinement of
   `Turns` among them.
6. **Teleport**, **Workspaces**, **MacBridge**: done, with proofs.
7. **Family**: several sessions, children, drain and sleep over all of them.
8. **Sync**: the three-way merge with concurrent edits and crashes in the
   exchange; abstractly, no edit of either side is lost unreported.
9. **Bridges and streams**: secret forms, preview generations, the replay cursor
   of the API; nothing skipped or repeated.
