# ModelDial: formal models, model checks and proofs

ModelDial is a macOS app (Swift, `Sources/`) over a Python backend (`scanner/`).
The app starts backend processes to *scan*: every enabled model configuration is
asked every question of a pack, the answers are graded, and a recommendation is
computed from the results. A scan runs for many minutes, spends money, and can be
paused, stopped, killed, resumed by hand, resumed automatically, or dismissed, each
from a process of its own. What can go wrong is therefore mostly in the machinery
that keeps a scan's files consistent, and in the part of the app that starts,
follows and displays scans. That is what these TLA+ modules describe.

Paths below are relative to the repository (`scanner/execution.py` and so on).

## 1. Inventory

### The parts that are modelled

| Part | State | Operations | Hard behaviour |
|---|---|---|---|
| Active-run store, `active_run_store.py` | `active_run.json` (the checkpoint), `active_run.control.json` (a one-slot mailbox) | request, claim and clear a control; replace, update and clear the checkpoint; claim an auto-resume | several processes; read-modify-write; the two files change one after the other |
| Scan process lock, `native_bridge.py` 250-310, `process_lock.py` 13-118 | flock on `scan.lock.guard`; pid and heartbeat in `scan.lock` | acquire, heartbeat, release; read by other commands | crashes, reused pids, a heartbeat that dies, the machine sleeping |
| Scan commands, `application_services.py` 131-433, `maintenance_application.py` | none of their own | scan, forced scan, auto-resume, recover, pause, stop, dismiss | commands that do not take the scan lock; decisions made on a checkpoint loaded earlier |
| Planner, `scan_planner.py` | none | plan a fresh run or the resumption of an old one; infer a run from the history | reads files that the previous process left half way |
| Execution session, `execution.py` 1008-1300, `scan_execution_application.py`, `job_reducers.py`, `scan_outcomes.py` | runtime state, completed steps, circuit, control action, session lock | begin, start/fail/skip/finish a job, obey a control, wrap up | a pool of threads; every step has several writes, each of which may fail |
| Execution engine, `execution.py` 861-982 | queues per connection, counts of active jobs, futures, failure event | submit, collect, drain, raise | fairness between connections, limits, exceptions while draining |
| Finalization, `execution.py` 501-855 | the `finalizing` checkpoint | retain, project, commit, recover | a crash or a failed write between any two of them |
| History, `history_store.py` | `history.jsonl`, `run_metadata.json` | append, load recent, save metadata | the history and the checkpoint are two writes |
| Run journal, `run_journal.py`, `jsonl_store.py` | `events.jsonl` of a run; the cached number of its last event | append an event, load the events, repair a torn tail | a write that fails or is cut off half way; one process after another writes |
| Repair, `repair_planner.py`, `repair_execution*.py`, `repair_outcomes.py`, `job_reducers.py`, `application_services.py` | the `repair_*` fields of the checkpoint | repair a candidate, a cell, or a batch; resume one by hand or automatically | a stored scope older than the history; two transactions per checkpoint; two ways to count what is left |
| App session, `Sources/Model/SelectionStore.swift`, `StartupLoadCoordinator.swift`, the bridge client and gateway | snapshot on display, reload in flight and wishes, active operation, pending control, streaming processes | reload, periodic reload, refresh, start, preview, settings, control, follow up | every call of the backend is an await during which events, timers, answers and the user go on |

How they interact: a scan process takes the lock, recovers a checkpoint left in
`finalizing`, plans, clears stale mail, writes the first checkpoint, and gives the
jobs to the engine. Every worker calls back into the session under one lock: it polls
the mailbox, appends to the history, and rewrites the checkpoint. Pause and stop
requests come from other processes through the mailbox; dismissal rewrites the files
directly after looking at `scan.lock`. Every event is also appended to the journal of the run.
A repair runs in the same session and engine, under the same lock, and takes over the
checkpoint of an interrupted one. The app runs every command as a process: it reads the
events of a scan or a repair from its output, reloads a snapshot when it ends and by a
timer, and starts an automatic resumption when a reload shows an interrupted run.

What makes it correct: progress is never claimed without a durable result; no step is
evaluated (and paid for) twice; an accepted pause or stop takes effect and stays in
effect; a run that has ended is not resumed; a checkpoint can always be recovered;
automatic resumption is bounded and respects the user's pause; one scan at a time;
limits per connection are respected and no connection starves; no event is lost or
numbered twice; a repair forgets no failing cell and pays for no good one; the app never goes
back to an older state, never blocks the next operation for ever, and follows every interruption
up; everything ends.

### The other parts

Every one is listed with its reason under `components` in `PROJECT.json`, and section 8 says
why the model stops where it does. Graders, analytics, advisor, recommendation scoring and
presenters are pure functions of their inputs with no protocol, and views are I/O.

## 2. Plan

Done, in the order in which it was built:

1. `ActiveRunStore`: the transactions on the two files, as operators.
2. `ScanSession` (extends it): the scan process, its workers, the other commands,
   failures and crashes; `RunPromise`: the abstract specification it implements.
3. `ScanLock`: why at most one scan process runs, and what others see of it.
4. `ExecutionEngine`: the pool, over callbacks that return or raise.
5. `ActiveRunStoreProofs`, `ScanSessionProofs`, `ScanLockProofs`, `ExecutionEngineProofs`.
6. `RepairSession` (extends `ActiveRunStore`) and `RepairSessionProofs`.
7. `AppSession` and `AppSessionProofs`.
8. `RunJournal` (extends `ScanLock`: the lock and the journal its holders write, composed) and
   `RunJournalProofs`.
9. `ScanPromiseProofs` (extends `ScanSessionProofs`): the refinement of `RunPromise` and the
   deeper invariants of the scan session.
10. `ScanLockPromise` and `JobPool`: the abstract specifications that `ScanLock` and
    `ExecutionEngine` implement, checked as properties of their runs and proved.

Next, most important first:

1. The read-modify-write of `run_metadata.json`, split into its read and its write, by a scan
   and a dismissal at once.
2. `exclusive_process_lock` (`process_lock.py` 121-198): that its token never refuses for ever.
3. That the workers of `ScanSession` are a `JobPool` of one group (`ExecutionEngine` is one).
4. `RecommendationNotificationEngine` and the last-good caches of pricing and reference data.
5. The retries of one evaluation (`rules.py`, `runner.py`, `bounded_subprocess.py`).
6. Configuration and secrets: the patch, the quiescence check and the keychain write.

## 3. Modules and the code

### ActiveRunStore

`ckpt` is `active_run.json`, `mailbox` is `active_run.control.json`. A checkpoint keeps
the run, the lifecycle, the metadata as far as anyone branches on it (`status`, and
whether `completed_at` is set), the steps its entries show as completed, the claimed stop
(`maintenance.control_action`) and, per app session, the auto-resume record. The file
may be absent (`NoCheckpoint`) or hold `{}` (`EmptyPayload`); the code tells the two apart.

Each operator is one method, atomic because the method runs under the cross-process
transaction lock and replaces files by rename. The two places where a method writes two
files are not taken as atomic under failure: `ClaimControlFails` (the mark is saved, the
mailbox stays) and, in `ScanSession`, `KeptCheckpoint` (the mailbox is gone, the
checkpoint stays).

### ScanSession

| Actions | Code |
|---|---|
| `Start`, `Recover`, `RecoverFails` | `stream_events` up to recovery; `recover_orphaned_finalizing_run` |
| `AutoResumeDecide`, `AutoResumeClaim` | the two transactions of `_claim_if_needed` |
| `PlanFresh`, `PlanResume`, `PlanRejected` | `ScanPlanner.plan`, `load_resume_state`, `infer_active_run_from_history`, the mismatch check |
| `ForcedClear`, `ResetControl`, `FirstCheckpoint`, `BeginFails` | `MonitorService.run_enabled_targets`, `RunControlCoordinator.reset`, the first `persist_active_run` |
| `TakeJob`, `TryStart`, `StartJob`, `NotStarted`, `JobReturns`, `JobRaises`, `FailJob`, `FinishJob`, `AppendRow`, `Commit` | `execute_job` and the session's `try_start`, `skip`, `fail`, `finish` |
| `ControlMetadata`, `PauseCheckpoint`, `PauseLifecycle`, `StopClear` | `RunLifecycleCoordinator.control` |
| `WrapUp`, `SaveCompletedMetadata`, `RetainCheckpoint`, `FinishFails`, `CommitSnapshot` | the end of `execute`, `finish_completed`, the snapshot and `complete_snapshot` |
| `FailMetadata`, `FailCheckpoint`, `FailLifecycle`, `FailureHandlingFails` | `finish_exception` |
| `EntryFails`, `LockedSectionFails`, `Crash` | any write that raises; the process killed |
| `RequestControl` | `RunControlCommand.request` |
| `DismissCheckLock`, `DismissLoad`, `DismissMetadata`, `DismissClear` | the four steps of `dismiss_resumable` |

The session's re-entrant lock is not a variable: a worker whose place is in `Locked` holds
it. Within the lock, each durable write is a step of its own, since other processes and
crashes fall between them. `pc = "idle"` stands for "nobody holds the scan lock", which
`ScanLock` justifies; the dismissal looks at exactly that, once, in its first step.

`asked`, `late`, `autos` and `used` are observations: no action's effect on the other
variables depends on them, except that run ids are not reused (the code draws them from
the clock and a random part).

### RepairSession

The round is one run of `ActiveRunStore`; a cell is a step. The session of a repair is that of a
scan with other callbacks, so the model is coarser where `ScanSession` is already exact (an
automatic resumption is one step, a scan that resumes the round is one step) and exact where a
repair differs: planning, the two transactions of a persist, and what remains.

| Actions | Code |
|---|---|
| `UserRepair`, `AutoRepair`, `ScanResumesRound` | who starts one: the commands; `_claim_if_needed` routed to a repair; a scan on the same checkpoint |
| `Recover`, `Plan`, `PlanRefused` | recovery, `plan_candidate`, `_plan_batch` and their refusals |
| `Begin`, `Persist`, `Mark`, `BeginFails` | the control reset and the first checkpoint; the `repair_*` fields come in a second transaction |
| `TakeJob`, `TryStart`, `JobReturns`, `JobRaises`, `FailJob`, `FinishJob`, `AppendRow`, `WorkerPersists`, `WorkerMarks`, `SectionFails` | the callbacks of candidate and batch repairs, which differ in what they write and when they stop |
| `WrapUp`, `SaveMetadata`, `PauseCheckpoint`, `PauseLifecycle`, `StopClear`, `RetainFinalizing`, `CommitSnapshot` | controls and completion, `recomputed_repair_metadata` |
| `FailMetadata`, `FailClear`, `WrapUpFails`, `FailureHandlingFails`, `Crash` | `finish_exception` of a repair, and what may happen to it |

`Remaining` is what a candidate repair would still retry (tried and failed again counts) or a batch has
not tried; `Resumable` is what the app offers, judged by another count. `owed` is an observation: what
the last candidate repair of the user planned.

### AppSession

`AppSessionStore` is on the main actor, so a step is what happens between two awaits. `reload` holds
the flags of reloading (one in flight, and a merged wish for the next), `op` the active operation,
`procs` the streaming processes with an event that may be on its way, `control` the request that the
pause and stop buttons wait for. Of the backend there is what the app branches on: whether a
run is running, interrupted or paused (`back`), each change with a later `at`, and how many
automatic resumptions it has begun.

| Actions | Code |
|---|---|
| `LoadReads`, `CacheReturns`, `CacheFails`, `LoadReturns`, `LoadReturnsAndResumes`, `StaleLoadReturns`, `LoadFails` | `reloadSnapshotAsync` between its awaits, `startAutomaticResume` |
| `RetryFires`, `ReferenceIsDue`, `Refresh`, `reloadPeriodicSnapshotAsync`, `refreshReferenceSnapshotNow` | the retry of the start-up maintenance, timers, the refresh button |
| `startScan`, `startRepair`, `previewAndStartScan`, `PreviewReturns`, `PreviewStarts`, `dismissResumableRun` | the starts, with and without a preview; dismissal |
| `SettingsAreSaved`, `acceptAuthoritativeSnapshot` | a settings command and the snapshot it answers with |
| `requestScanControl`, `ControlIsAnswered`, `ControlTimesOut` | pause and stop: the request, its answer, and the 20 seconds |
| `ProcessStarts`, `ProcessRefuses`, `ProcessReports`, `ProcessEnds`, `consume`, `Complete` | `startStreamingProcess`, events and completion, late ones of an earlier operation included |

### RunJournal

It extends `ScanLock`: a process appends while it is `inside`, and everything the lock does to it
(leaving, dying) takes its cache along. An append is three steps: repair the tail, take a number, write.
A write that does not return may have left nothing, a torn line, a line without its newline, or all
of it, whether it raised (`AppendFails`) or the process died (`DiesWriting`). A line is its number
(`Torn` when it does not parse). `history.jsonl` is appended to by the same code without numbers, so
`EventsSurvive` is about its rows, too.

### ScanLock, ExecutionEngine, RunPromise, ScanLockPromise, JobPool

`ScanLock` follows `_scan_process_lock` call by call, with the heartbeat as a thread of its
own. Age is counted in heartbeat intervals and saturates one beyond `Stale`.

`ExecutionEngine` follows `execute` in both its forms (with and without groups), as one
calling thread and one thread per job, bounded by the worker count. A queue is known by how
many jobs have left it, because the code only ever appends at planning and pops at the left.

`RunPromise` is what the files promise about each run to everybody else: opened once, every
step committed at most once and only while open, closed for ever. `ScanSession` implements it
under the mapping in its last section: a run is closed when its stored metadata has
`completed_at` and it is not the active run; its committed steps are its history rows.

`ScanLockPromise` is what the lock promises to its users: one process at a time is under it, it enters
when no name is on the file, and the name is not touched while it is inside. This is what `ScanSession`
and `RepairSession` take for granted when they have one process, and a dismissal that looks at the name.
`ScanLock` implements it, with the pid that the file holds as the name. `JobPool` is what a call of the engine promises: each job runs at most once, within the limits
of the pool and its group, and the call ends when no job runs. `ExecutionEngine` implements it: a job is
waiting until its thread calls the callback, and a result that the caller has not collected yet counts.

### Conventions

A definition whose comment begins with "Mutant:" is not part of the model. It is the next
definition with one plausible bug put in, and each property of a passing run is violated
when its mutant takes the place of the real definition: this is how we know the property
depends on that code.

### What is abstracted

In `ScanSession`:

- A step is one (candidate, question) pair; answers are `ok`, a transient error or a hard
  error, the only distinction that discarding, the circuit and the run's status make.
- In `ScanSession` the journal, summaries and progress events are not state (the journal is
  `RunJournal`'s). A failure of one of them is among
  the failures of the section that contains it.
- The `failed` and `partial` statuses of an exception are one: nothing branches on the difference.
- A `completed_at` is a Boolean, leases and timestamps are left out.
- The process group that a pause or stop kills (`terminate_children`) makes a job return an error,
  which a job may do at any time here.
- A fresh run may be planned even though something can be resumed (a different selection).

In `AppSession`, the content of a snapshot is its age and the state of the run; in `RepairSession`,
the groups of several runs that form one round are one run; in `RunJournal`, an event is its number.

Left out, and why: quarantine of a corrupt checkpoint file (the file is replaced by rename and
fsync'ed, so only damage from outside produces one); legacy checkpoints without `runtime`; the
`custom_append` mode, whose resumption also counts steps of other runs of the same comparison group;
`retry_failed_results`, which no command passes; completion that does not retain the checkpoint
(`run_enabled_targets` as called by tests; every command passes `retain_finalizing_state=True`).

## 4. Runs

| Run | Question | Bounds |
|---|---|---|
| `Faults` | Do progress, controls and ended runs stay consistent when writes fail and processes crash? | 2 starts, 1 request, 2 failed writes (so that the handling of a failure can fail too), 1 crash; the circuit opens at the first hard error |
| `Resume` | Over repeated crashes and resumptions, is any step done twice, any pause outrun, any auto-resume limit exceeded? | 3 starts, 1 request, 2 crashes; circuit at 2; attempt limit 1 |
| `Dismiss` | Does dismissal at any moment leave a recoverable state, has a completed run every result, and does every scan end? | 1 start, 1 request, 1 dismissal, 1 failed write; fairness, no symmetry |
| `ScanLock` | Who is under the lock, what does the file say, does a leftover go away; and does the journal that the holders write keep every event? | 3 processes, staleness after 3 beats; either 2 crashes, 1 pid reused, 2 failed writes, 1 suspension and no event, or 2 crashes, 1 pid reused, 1 failed write and 3 events |
| `Engine` | Limits, round robin, termination, honest results | connections with 2, 2 and 1 jobs and limits 1, 2 and 1; 2 workers; all four call forms |
| `Repair` | Does a repair, interrupted and resumed in any way, forget a failing cell, pay for a good one, or call a bad round completed? | 3 cells of 2 candidates, 2 workers; four kinds of request; 2 starts with 1 request and 1 crash, or with 1 failed write and 1 crash; 1 start with 1 request and 1 failed write, or with 2 failed writes |
| `App` | Whatever order answers, events and timers come in: does the display go back, or an operation, an interruption or a button get lost? | 2 ids, 2 attempts at the maintenance (3 in the code), 1 automatic resumption (2 in the code); five budgets that each mix one or two doings of the environment |
| `StopCrash`, `DismissRace`, `EmptyCheckpoint`, `DeadHeartbeat`, `PausedRepair` | The disagreements of section 7 | the smallest that show them |

`Faults` and `Resume` have no dismissal: a dismissal that overlaps a scan breaks several of their
properties, which is what `DismissRace` and `EmptyCheckpoint` show. What survives it is checked by `Dismiss`.

Every session run has two runs, two steps, two workers and one app session. Two steps and two
workers are enough for a job of each kind at the same time as the other, for a partly completed
run, and for a control that meets one worker before its poll and one after it. Two runs
are needed for a checkpoint, mail or metadata of another run. One session and a
request that names it suffice, because sessions interact only through the shared checkpoint. The
budgets are counted in `budget`, so a bound is always spent at a moment TLC chooses. The
resume window (500 rows in the code) is larger than any history here.

Three cells suffice for a repair, because two of them can be with workers while the third is
queued or already done; two candidates because a request names one and leaves the other alone.
`Repair` has no second round, since a repair always takes the latest one. In `App` the number of
doings per budget is small because every reload adds interleavings of its own: the properties
relate one reload or process to one other event, and each budget has the pair of doings that can
overtake each other. With 3 events in `ScanLock` a journal has a first number, a number taken after a
torn tail, and one from a cache; 2 crashes give three writers.

Deadlock is not checked where the budget may run out or the scan may be over: the system
really may stop. `ScanEnds`, `RepairEnds`, `Terminates`, `LeftoverExpires` and the liveness properties of
`App` cover being stuck.

### Properties

- `CheckpointBackedByHistory`: every step that the checkpoint shows as completed has a durable
  history row. Violated when a failed append goes unnoticed.
- `CheckpointIsCurrent`: between two sections under the session lock, the checkpoint shows exactly
  the durable rows of the run, and still belongs to that run.
- `ControlIsRecorded`: an accepted pause is a paused, resumable checkpoint that no later write
  of a worker overwrites; an accepted stop is ended metadata and no checkpoint.
- `CompletedIsWhole`: a run recorded as completed, or left to be finalized, has the durable result of every
  step; no job that was skipped, refused, raised, discarded for a pause or not written is missing.
- `StartIsNeverRefused`: whatever crashes or fails during finalization, recovery can deal with what is left.
- `KeepsPromise`: refinement of `RunPromise`.
- `NoStepCommittedTwice`: over all interruptions and resumptions.
- `AtMostOneLateStart`: after an accepted request, only a job that already passed its poll starts,
  and an auto-resume does not outrun the user's pause. Checked with one request, since a second one may
  displace the first (section 7).
- `AutoResumesAreBounded`: although each attempt may crash at any point.
- `ScanEnds`: no worker waits for ever on the session lock, and no outcome is without a next step.
- `MutualExclusion`, `FileNamesHolder`, `LeftoverExpires`: the scan lock. `KeepsLockPromise`: refinement
  of `ScanLockPromise`; neither a late heartbeat nor a late removal touches the file of the next holder.
- `EventsSurvive`, `NumbersAscend`, `NumbersHaveNoGap`: an event whose append returned stays readable; a
  later one has a higher number, whichever process wrote it; the file has no gap.
- `ScopeIsKept`: the scope in the checkpoint of a candidate repair covers every cell it was asked to
  repair that still fails, although each persist drops the scope first and results change it.
- `CompletedMeansGood`, `GoodResultsKept`, `RepairEnds`: a completed round has a good result in every
  cell; a good result is never evaluated again to a worse one; every repair ends.
- `ReloadNeverGoesBack`: a reload that was overtaken by an event, a settings answer or a start does not
  put what it read on display.
- `OperationIsAlive`: the operation that blocks every other start has a process whose end will be heard of.
- `InterruptionIsFollowed`, `MaintenanceEnds`: the wishes that are merged while a reload is in flight are
  not lost, and the maintenance is tried until it succeeds or its attempts are used up.
- `ButtonsReturn`, `AutoResumesEnd`, `ViewCatchesUp`: no button waits for ever, automatic resumption comes
  to an end, and the display shows how the backend came to rest.
- `LimitsRespected`, `EndsHonestly`, `FewLateStarts`, `NoGroupStarves`, `Terminates`: the engine.
  `KeepsPool`: refinement of `JobPool`; no job runs twice or is forgotten, none moves after the end.

### Fairness

Weak fairness of the scan process and of each worker in `ScanSession`: they are threads of the
operating system; a job returns because its subprocess or request has a timeout; the
transaction lock of the store times out. Users, faults and crashes are not obliged to happen. In
`ScanLock`, weak fairness of the clock, of the holder's own steps and of leaving (`ScanEnds`);
nobody has to ask for the lock. In `ExecutionEngine`, weak fairness of the calling thread and of the
thread of each job. In `RunJournal`, in addition to the lock's, an append that has begun goes on. In
`RepairSession`, weak fairness of the process and of each worker, as for a scan. In `AppSession`, every
await on which a reload, a preview or a settings command depends returns (`NativeBridgeClient.run` has a timeout for
each command), armed timers fire, and a process that was launched gets on. That a control
request is answered is not assumed, only that its 20 seconds pass; and nothing is assumed of the user.

## 5. Proofs

All for every value of the constants that satisfies the `ASSUME`s, and for every budget.

- `ScanSessionProofs!SessionStateTyped`: types. `TypeOK` is not inductive: which values `run`, `base`,
  `job` and `res` have depends on the place of the process (`PlacesTypeOK`).
- `ScanSessionProofs!ProgressIsBacked`: `CheckpointBackedByHistory`. The checkpoint is written from the
  memory of the process, so the invariant `Backed` adds that this memory is backed too, and that a worker
  about to commit has appended its row; the planner's `Recent` is within the history whatever the window.
- `ScanSessionProofs!FinalizingIsRecoverable`: a checkpoint in `finalizing` carries the evidence that recovery
  asks for. `Evident` adds that only the
  place after the retained checkpoint has the lifecycle `finalizing` in memory, and that from recovery
  until then no checkpoint in `finalizing` exists, so no write of a worker can put one under metadata
  that is not closed.
- `ScanPromiseProofs!CompletedRunsAreWhole`: `CompletedIsWhole`, dismissals included and however short the window.
  `Accounted` says that every step of the executing run is counted, queued or with a worker, unless a control ended
  the scan, the circuit opened or a job raised; each excuse keeps the scan from completing. That a control stays
  needs `Mine`: a poll takes the action back under another run's checkpoint, and while a scan executes there is
  only its own or none. Before `exec` nothing has failed yet, and what is counted is durable by `Backed`.
- `ScanSessionProofs!StepsAreCommittedOnce`: `NoStepCommittedTwice`, dismissals included. `Once` says that the steps still
  queued or with a worker are not durable yet and are held once; it starts because the queue is made of what the
  history lacks (`Leading`), which needs that nothing is stored of a run id that was not handed out (`Issued`).
  `ProgressIsNotLost` is an action property from the same invariant: every step either keeps the progress of the
  active run or writes the memory of the process (`ScanWritesProgress`), and that memory is never behind the checkpoint
  of its run. Both need `WindowSuffices`: the history is not longer than the window that a resumption reads (500
  rows), for otherwise it evaluates its oldest steps again, as the code does.
- `ScanLockProofs`: `LockInv` is types, "who is between taking and giving back the guard holds it",
  "a heartbeat beats only inside", and `FileNamesHolder`. Exclusion follows from the guard alone;
  that the file names the holder needs the heartbeat to be joined before the release. With `Cleared` (a file
  that was found is gone before a new one is written) every step is one of `ScanLockPromise` or none, so
  `KeepsLockPromise`. `BeatsAreFresh` (a heartbeat that lives keeps the age of the file at one at most, since the
  clock waits for whoever is due) gives `BeatingScansAreSeen` where the machine does not sleep, and, if no call
  fails either, `RunningScansAreSeen`: a failed heartbeat and sleep are all that hides a scan.
- `ExecutionEngineProofs`: `EngineInv` says where each job is (queue, pool or settled), that the
  count per connection is the number of its futures and within its limit, that every sign of a failure has
  a job behind it, and what the place of the calling thread implies. From it `LimitsRespected`,
  `EndsHonestly`, `NeverStuck`; with `LateBounded` also `FewLateStarts`. `NoGroupStarves` needs a
  measure: each time a group is passed over, the cursor comes nearer to it, so how often it was passed
  over and its distance from the cursor together stay below the number of groups (`RoundRobin`).
  `EngineKeepsPool` is the refinement of `JobPool`: that there is room for a job that starts is a matter of
  counting, since a job whose thread is about to start counts as submitted already (`RoomToStart`).
- `ScanPromiseProofs` (see below): `KeepsPromise`, `StartIsNeverRefused`, `AutoResumesAreBounded`,
  `ControlIsRecorded`, `CheckpointIsCurrent`, `AtMostOneLateStart`.
- `RepairSessionProofs`: `IInv` is types, "a worker at work has a cell" (`Busy`), "a cell is queued or with one
  worker, not both" (`CellsApart`), "until its new result is written its last one is not good"
  (`StillToRepair`) and "outside the pool nothing is queued" (`AtRest`). From it `GoodResultsKept` and, with the
  sources of the metadata, `CompletedMeansGood`. `Scoped` follows the scope of the user's repair from
  the checkpoint into the request of the resumption, its plan and back; from it `ScopeIsKept`.
  `PausedRepairsHaveWork` is what remains true where `PausedRepair` shows a violation: whatever crashed or failed, a
  paused repair has a failing cell left in its stored scope, and a paused batch can be resumed. `PauseInv` follows
  the scope from the memory of the process through the two transactions of a persist (`Persisted`, then
  `Marked`); when a call raised, the two may differ, but then the repair fails and does not pause.
- `AppSessionProofs`: types (no attempt beyond the last, every process and request with an id of its own),
  `OperationIsAlive`, and `ReloadNeverGoesBack`, whose invariant says that what a reload still marked fresh
  has read is at least as new as what is on display.
- `RunJournalProofs`: `JournalInv` adds to `LockInv` that only the holder is in the middle of an append or has a
  number cached (`Apart`), that a number it has cached or taken follows the last readable line and is above all that
  were returned (`Fits`), that only the last line can be torn (`FileOK`), and that an append in the middle has a
  repaired tail before it (`Ready`). From it the three properties of the journal.
  `JournalKeepsTheLock`: what is proved of the lock alone holds of the writers.
- `ActiveRunStoreProofs`: what each transaction does to types and to the parts of the checkpoint
  that recovery relies on; cited by `ScanSessionProofs`.

The theorems of `ScanPromiseProofs` assume `NoDismissal`: the budget has no dismissal, as in the runs `Faults`
and `Resume` which check the same properties. That is needed: `DismissRace` and `EmptyCheckpoint`
show what a dismissal does to two of them, and TLC finds counterexamples to the other invariants when
their runs are given one. The argument goes in layers, each an
inductive invariant over the ones before. `Own` says which run is whose: a scan that executes owns
the active checkpoint or there is none; the run of a checkpoint is known and not ended, unless it is finalizing
or being failed. With `Evident` this gives `StartIsNeverRefused`, and it gives the refinement: a step of
`ScanSession` opens a run, commits a step to an open one, closes one, or changes nothing that the promise
talks about. `Counted` says that the checkpoint counts at least the automatic resumptions there were;
`Purposeful` and `Concluded` add that an automatic resumption begins the run it claimed or none, so that
no checkpoint with a lower count takes the place of the one that was claimed. `Recorded`
says which writes of a control are done, unless a worker is still before them. `Tracked` says that the memory of the
process, the checkpoint and the history agree but for the step being committed; it needs `WindowSuffices`, too.

`FewJobsStartLate` is `AtMostOneLateStart` for any number of requesters, crashes and resumptions. Its invariant
`Sparing` says that one worker at a time is at a place under the session lock (`Exclusive`), that a pause of a session is
remembered in the mailbox or in the checkpoint until the run is over (`Remembered`), that an automatic
resumption of a paused run has the pause in the mailbox until its first poll (`AutoWaits`), and
that a job that has started late has mail behind it that the next poll will find (`Spared`). It needs that no request
displaces a pause that only the mailbox remembers (`NoPauseDisplaced`, about the requests alone): with two requests
there is a behaviour in which more start (section 7). One request in all
cannot do that: `OneRequestStartsFewLate`, the bound of the run.

`ClosedRunsStayClosed` and `ClosedRunsAreFinal` follow from the refinement of `RunPromise`: while nobody
dismisses, a run that has ended is not resumed, and no result is added to it. `StopIsObeyedUnlessItFails`: without a
failed write or a crash, no job starts under a claimed stop, because the mark of a stop exists only while its
process carries it out (`StopCarriedOut`). With `RunningScansAreSeen` and `PausedRepairsHaveWork` these are the
other side of the violations: each says what has to happen before the code can do what the run shows.

Assumptions: the named ones of the modules (distinct "no value" constants, positive limits), all
evaluated by TLC on the runs. The engine's `Limit` is at least 1 because the code raises otherwise.

Only model-checked: liveness (`ScanEnds`, `Terminates`, `LeftoverExpires`, `RepairEnds` and the five of
`App`), which needs fairness and `ENABLED`, beyond the prover. Every invariant, action property and refinement of
the passing runs is a theorem, under the hypotheses named above. The refinements are of safety, which is all
that the three abstract specifications state.
No recursive operator is used; what one computes for every input could not be proved, since
the induction theorems take operators as parameters.

## 6. Running

    tlc -workers 2 -config Faults.cfg MCScanSession.tla      # 2 minutes; Resume and Dismiss about 1
    tlc -workers 2 -config ScanLock.cfg MCRunJournal.tla     # half a minute
    tlc -workers 2 -config Engine.cfg MCExecutionEngine.tla  # half a minute
    tlc -workers 2 -config Repair.cfg MCRepairSession.tla    # a minute
    tlc -workers 2 -config App.cfg MCAppSession.tla          # two minutes
    tlc -workers 2 -config DeadHeartbeat.cfg MCScanLock.tla  # the other violations: see PROJECT.json
    tlapm ScanPromiseProofs.tla                              # and the other *Proofs modules

## 7. Where the code and what it says differ

- `StopCrash`: a scan that claims a stop marks the checkpoint and removes the mail before it ends the
  run. A crash in between leaves the mark. The run can still be resumed, the resumption runs
  jobs under the mark (`replace_checkpoint` carries it along), and a pause of it is answered "stopping"
  and does nothing.
- `DismissRace`: `dismiss_resumable` looks at the scan lock once and then loads, saves and clears without
  holding it. A scan that resumes the run in between writes it back after it was reported as dismissed.
- `EmptyCheckpoint`: the claim of an auto-resume whose checkpoint was dismissed after it decided is reported
  as doing nothing, but `mutate` saves `{}`. From then on recovery answers "incomplete" and every scan is
  refused until a dismissal removes the file.
- `DeadHeartbeat`: the heartbeat thread returns on any `OSError`, the store's lock timeout included. The scan goes
  on, its lock file grows stale, and other commands see no scan.
- `PausedRepair`: a candidate repair judges by the cells that still fail whether a pause leaves anything to do,
  and the app by how many cells were tried whether it can be resumed. When one cell failed again and the last
  one succeeds under a pause, the repair is paused for good.

Seen while modelling, without a run of their own:

- A pause can be lost to a stop. Session s decides to resume a run automatically, then its user pauses the run, then the
  resumption claims it, which resets `pause_suppressed` (`maintenance_application.py` 253-254): the pause is in the
  mailbox only. A stop by another request replaces it there; the first poll claims the stop; the process crashes. Then
  s resumes a run that its user has paused and starts its jobs, although the code says of this case
  "当前会话已主动暂停，不自动继续" (`maintenance_application.py` 230). It takes two requests and two automatic
  resumptions; `Exposed` in `ScanPromiseProofs` is the window.
- A batch repair interrupted by a crash is refused when it is resumed, because `_plan_batch` refuses every batch
  while a checkpoint is active, its own included (`repair_planner.py` 312-319). The model has the refusal
  (`Refused`), so no property here claims that batches are resumed.
- A history row torn inside a multi-byte character makes `_load_valid_lines` (`history_store.py` 45) raise
  `UnicodeDecodeError` instead of ignoring the tail, and nothing can be planned until an append repairs it.
- When the fsync of an event fails after its line became durable, the next event gets the same number
  (`run_journal.py` 43-45). `NumbersHaveNoGap` allows exactly this repetition.
- A repair of one cell is refused while the checkpoint is that of another repair (`repair_planner.py` 217), and a crash
  between the two transactions of a persist leaves a repair's checkpoint without its scope, which is then resumed as a
  scan. `ScanResumesRound` is that scan.
- In the app: a settings answer is shown even if it is older than what an event brought meanwhile, so
  `ReloadNeverGoesBack` is about reloads and `ViewCatchesUp` about where it ends. A reload that was overtaken
  does not look for an interrupted run any more, so `InterruptionIsFollowed` promises the reload that
  looks, not its outcome. A refresh while a reload is in flight only asks for another reload: that it should
  also try the maintenance is forgotten, so `MaintenanceEnds` is about a maintenance that was tried.

## 8. Not modelled

The map covers the protocol of scans, repairs and the app's session, a small part of the lines of this
repository, because most of its lines hold no state between two calls:

- Graders, question bank, analytics, advisor, recommendation and usage parsing are functions of text and
  numbers. A model would be their transliteration, with no interleaving or failure to explore.
- Views, presenters, updater and keychain are user interface and system services.
- One evaluation (`runner.py`, `endpoint_client.py`, `bounded_subprocess.py`) is a single step of
  any duration and outcome here; that it ends is the assumption of fairness.
- `exclusive_process_lock` is taken as what makes a store transaction atomic. It holds a flock for the whole
  transaction, which alone excludes; its token file can only refuse too much.
- The metadata map is saved as one step; two processes that rewrite it at once are in the plan.
- Configuration, secrets, pricing and reference data are written by one process at a time under that lock and
  fall back to their last good copy.
- Notifications, the timers of the glance and the schedule of the app are not part of `AppSession`.
