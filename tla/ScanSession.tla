----------------------------- MODULE ScanSession -----------------------------
(***************************************************************************)
(* The life of a scan: the one process that may run under the scan process *)
(* lock (scanner/native_bridge.py), its pool of worker threads, and the    *)
(* commands of other processes that reach the same files.                  *)
(*                                                                         *)
(* A step is one durable write, one store transaction, or one move of a    *)
(* thread that another thread or process can observe.  Crash loses the     *)
(* memory of the scan process and keeps the files.  The journal, summaries *)
(* and progress events are not state here: a write of theirs that fails is *)
(* one of the faults.                                                      *)
(***************************************************************************)
EXTENDS ActiveRunStore, Sequences

CONSTANTS
    Workers,           \* threads of the pool
    CircuitThreshold,  \* HARD_ERROR_CIRCUIT_THRESHOLD
    AttemptLimit,      \* AUTO_RESUME_ATTEMPT_LIMIT
    ResumeWindow,      \* history rows a resume reads back: load_recent(limit=500)
    Requesters,        \* who may ask for a pause: sessions, or NoSession
    NoMeta,            \* a run without stored metadata
    NoStep,            \* no step
    Budget             \* how often the environment may do each thing

VARIABLES
    hist,      \* history.jsonl: the committed rows, in order
    meta,      \* run_metadata.json: run -> metadata
    pc,        \* where the scan process is; "idle" when none holds the lock
    kind,      \* what started it
    run,       \* the run it executes (before planning: the run a resume expects)
    sess,      \* the app session of an auto-resume
    base,      \* the run metadata of the scan plan
    life,      \* runtime_state["lifecycle_state"]
    action,    \* RunControlCoordinator.action
    queue,     \* steps not yet taken by a worker
    done,      \* steps this process counts as completed
    consec,    \* consecutive hard errors; stays at the threshold once reached
    troubles,  \* failures of this execution, see Trouble
    wpc, job, res,   \* per worker: where it is, its step, the step's result
    dpc, dsnap,      \* the dismiss command and the checkpoint it loaded
    used,      \* run ids handed out so far (they are never reused)
    asked,     \* <<run, session>>: that session paused that run (observation)
    late,      \* jobs started in spite of a request (observation)
    autos,     \* auto-resumes per session since the user's last start (observation)
    budget     \* what the environment may still do

fileVars == <<ckpt, mailbox, hist, meta>>
planVars == <<kind, run, sess, base>>
execVars == <<queue, done, consec, troubles>>
procVars == <<pc, planVars, life, action, execVars>>
workerVars == <<wpc, job, res>>
dismissVars == <<dpc, dsnap>>
observed == <<asked, late, autos>>
vars == <<fileVars, procVars, workerVars, dismissVars, used, observed, budget>>

-----------------------------------------------------------------------------
Kind == {"scan", "force", "auto", "recover"}

Place == {"idle", "claim", "recover", "plan", "clear", "reset", "persist", "exec",
          "k_meta", "k_ckpt", "commit", "x_meta", "x_ckpt", "x_life"}

(* The places at which the plan has fixed the run and its metadata. *)
Planned == {"clear", "reset", "persist", "exec", "k_meta", "k_ckpt", "commit",
            "x_meta", "x_ckpt", "x_life"}

(* failure: the engine's event; execFailed: the reducer's flag; raised: a   *)
(* future holds an exception.                                               *)
Trouble == {"failure", "execFailed", "raised"}

Outcome == {"ok", "transient", "hard"}

(* The places of a worker inside "with self.lock". *)
Locked == {"c_meta", "c_ckpt", "c_life", "c_clear", "starting", "append", "commit"}

WorkerPlace == {"free", "skipping", "taken", "running", "failing", "returned"} \cup Locked

Row == [run: Runs, step: Steps, kind: Outcome]

Limits == {"start", "request", "dismiss", "fault", "crash"}

ASSUME SessionAssumption ==
    /\ CircuitThreshold \in Nat \ {0}
    /\ AttemptLimit \in Nat
    /\ ResumeWindow \in Nat
    /\ Requesters \subseteq Sessions \cup {NoSession}
    /\ NoMeta \notin Metadata
    /\ NoStep \notin Steps
    /\ Budget \in [Limits -> Nat]

TypeOK ==
    /\ StoreTypeOK
    /\ hist \in Seq(Row)
    /\ meta \in [Runs -> Metadata \cup {NoMeta}]
    /\ pc \in Place
    /\ kind \in Kind
    /\ run \in Runs \cup {NoRun}
    /\ sess \in Sessions \cup {NoSession}
    /\ base \in Metadata \cup {NoMeta}
    /\ life \in Lifecycle
    /\ action \in Control \cup {"none"}
    /\ queue \subseteq Steps
    /\ done \subseteq Steps
    /\ consec \in 0..CircuitThreshold
    /\ troubles \subseteq Trouble
    /\ wpc \in [Workers -> WorkerPlace]
    /\ job \in [Workers -> Steps \cup {NoStep}]
    /\ res \in [Workers -> Outcome \cup {"none"}]
    /\ dpc \in {"idle", "checked", "loaded", "saved"}
    /\ dsnap \in Checkpoint \cup {NoCheckpoint, EmptyPayload}
    /\ used \subseteq Runs
    /\ asked \subseteq Runs \X Sessions
    /\ late \in Nat
    /\ autos \in [Sessions -> Nat]
    /\ budget \in [Limits -> Nat]

Init ==
    /\ StoreInit
    /\ hist = <<>>
    /\ meta = [r \in Runs |-> NoMeta]
    /\ pc = "idle"
    /\ kind = "scan"
    /\ run = NoRun
    /\ sess = NoSession
    /\ base = NoMeta
    /\ life = "idle"
    /\ action = "none"
    /\ queue = {}
    /\ done = {}
    /\ consec = 0
    /\ troubles = {}
    /\ wpc = [w \in Workers |-> "free"]
    /\ job = [w \in Workers |-> NoStep]
    /\ res = [w \in Workers |-> "none"]
    /\ dpc = "idle"
    /\ dsnap = NoCheckpoint
    /\ used = {}
    /\ asked = {}
    /\ late = 0
    /\ autos = [s \in Sessions |-> 0]
    /\ budget = Budget

-----------------------------------------------------------------------------
Spend(limit) ==
    /\ budget[limit] > 0
    /\ budget' = [budget EXCEPT ![limit] = @ - 1]

StepsOf(rows, r) == {rows[i].step : i \in {k \in DOMAIN rows : rows[k].run = r}}

Committed(r) == StepsOf(hist, r)

(* Mutant: a resume misses the oldest row.                                  *)
RecentOffByOne(r) == StepsOf([i \in 2..Len(hist) |-> hist[i]], r)

(* What a resume reads back: the last ResumeWindow rows of the history. *)
Recent(r) ==
    {hist[i].step : i \in {k \in DOMAIN hist : /\ k + ResumeWindow > Len(hist)
                                               /\ hist[k].run = r}}

ErrorRow(r) == \E i \in DOMAIN hist : hist[i].run = r /\ hist[i].kind # "ok"

Running == [status |-> "running", closed |-> FALSE]

SaveRunMetadata(r, m) == meta' = [meta EXCEPT ![r] = m]

(* The process releases the scan lock; what it held in memory is gone. *)
EndSession ==
    /\ pc' = "idle"
    /\ kind' = "scan"
    /\ run' = NoRun
    /\ sess' = NoSession
    /\ base' = NoMeta
    /\ life' = "idle"
    /\ action' = "none"
    /\ queue' = {}
    /\ done' = {}
    /\ consec' = 0
    /\ troubles' = {}
    /\ wpc' = [w \in Workers |-> "free"]
    /\ job' = [w \in Workers |-> NoStep]
    /\ res' = [w \in Workers |-> "none"]

Goto(place) == pc' = place

-----------------------------------------------------------------------------
(* Starting under the scan lock, claiming an auto-resume, recovering a run  *)
(* left in finalizing.                                                      *)

Finalizing == HasRun /\ ckpt.life = "finalizing"

LastRun == hist[Len(hist)].run

(* The stored metadata of the run has completed_at. *)
Ended(r) == meta[r] # NoMeta /\ meta[r].closed

(* Mutant: a run that ended is inferred all the same.                       *)
InferredIgnoringEnd ==
    /\ ~HasRun
    /\ hist # <<>>
    /\ Recent(LastRun) # Steps

(* infer_active_run_from_history: the run of the last row, unless it ended  *)
(* or has every step.                                                       *)
Inferred ==
    /\ ~HasRun
    /\ hist # <<>>
    /\ ~Ended(LastRun)
    /\ Recent(LastRun) # Steps

Resumable == HasRun \/ Inferred

(* Bound: a start that may need a new run id finds one. *)
IdsSuffice(k) ==
    used # Runs \/ k = "recover" \/ (k = "scan" /\ Resumable /\ ~Finalizing)

Start(k) ==
    /\ pc = "idle"
    /\ IdsSuffice(k)
    /\ Spend("start")
    /\ Goto("recover")
    /\ kind' = k
    /\ late' = 0
    /\ IF k = "recover"
       THEN UNCHANGED <<asked, autos>>
       ELSE /\ asked' = {}
            /\ autos' = [s \in Sessions |-> 0]
    /\ UNCHANGED <<fileVars, run, sess, base, life, action, execVars, workerVars,
                   dismissVars, used>>

(* The first half of AutoResumeCommand._claim_if_needed: load and decide.   *)
AutoResumeDecide(s) ==
    /\ pc = "idle"
    /\ Spend("start")
    /\ HasRun
    /\ Committed(ckpt.run) # Steps
    /\ ~ckpt.sessions[s].suppressed
    /\ ckpt.sessions[s].attempts + 1 <= AttemptLimit
    /\ Goto("claim")
    /\ kind' = "auto"
    /\ run' = ckpt.run
    /\ sess' = s
    /\ late' = 0
    /\ UNCHANGED <<fileVars, base, life, action, execVars, workerVars, dismissVars,
                   used, asked, autos>>

(* The second half: the claim is a mutate of its own, and nothing more is   *)
(* run unless it found the run it decided on.                               *)
AutoResumeClaim ==
    /\ pc = "claim"
    /\ ClaimAutoResume(run, sess)
    /\ IF ActiveRun = run
       THEN /\ Goto("recover")
            /\ autos' = [autos EXCEPT ![sess] = @ + 1]
            /\ UNCHANGED <<planVars, life, action, execVars, workerVars>>
       ELSE /\ EndSession
            /\ UNCHANGED autos
    /\ UNCHANGED <<hist, meta, dismissVars, used, asked, late, budget>>

Evidence == ckpt.meta.closed \/ ckpt.done = Steps

(* recover_orphaned_finalizing_run answers "incomplete". *)
Incomplete == ckpt = EmptyPayload \/ (Finalizing /\ ~Evidence)

Recover ==
    /\ pc = "recover"
    /\ IF Finalizing /\ Evidence THEN ClearForRun(ckpt.run) ELSE UNCHANGED storeVars
    /\ IF Incomplete \/ kind = "recover"
       THEN EndSession
       ELSE Goto("plan") /\ UNCHANGED <<planVars, life, action, execVars, workerVars>>
    /\ UNCHANGED <<hist, meta, dismissVars, used, observed, budget>>

(* A write fails: the checkpoint is kept or put back, its mailbox may be    *)
(* gone already.                                                            *)
KeptCheckpoint ==
    /\ mailbox' \in {mailbox, IF HasRun /\ MailFor(ckpt.run) THEN NoMail ELSE mailbox}
    /\ UNCHANGED ckpt

RecoverFails ==
    /\ pc = "recover"
    /\ Finalizing /\ Evidence
    /\ Spend("fault")
    /\ KeptCheckpoint
    /\ EndSession
    /\ UNCHANGED <<hist, meta, dismissVars, used, observed>>

-----------------------------------------------------------------------------
(* Planning.                                                               *)

(* A fresh run: a forced start, nothing to resume, or a selection whose     *)
(* candidates are not those of the run that could be resumed.               *)
PlanFresh(r) ==
    /\ pc = "plan"
    /\ kind \in {"scan", "force"}
    /\ r \notin used
    /\ run' = r
    /\ used' = used \cup {r}
    /\ base' = Running
    /\ Goto(IF kind = "force" THEN "clear" ELSE "reset")
    /\ UNCHANGED <<fileVars, kind, sess, life, action, execVars, workerVars,
                   dismissVars, observed, budget>>

(* Mutant: the metadata of an inferred run is taken as stored, if at all.   *)
InferredMetadataAsStored == meta[LastRun]

InferredMetadata ==
    IF meta[LastRun] = NoMeta \/ meta[LastRun].status = "running"
    THEN [status |-> "partial", closed |-> FALSE]
    ELSE meta[LastRun]

ResumeRun == IF HasRun THEN ckpt.run ELSE LastRun

(* The metadata of a resumed run keeps the status and completed_at it has.  *)
PlanResume ==
    /\ pc = "plan"
    /\ kind # "force"
    /\ Resumable
    /\ kind = "auto" => ResumeRun = run
    /\ run' = ResumeRun
    /\ base' = IF HasRun THEN ckpt.meta ELSE InferredMetadata
    /\ done' = Recent(ResumeRun)
    /\ Goto("reset")
    /\ UNCHANGED <<fileVars, kind, sess, life, action, queue, consec, troubles,
                   workerVars, dismissVars, used, observed, budget>>

(* The plan of an auto-resume would not resume the run that was claimed, or *)
(* planning raises.                                                         *)
PlanRejected ==
    /\ pc = "plan"
    /\ \/ /\ kind = "auto"
          /\ Resumable => ResumeRun # run
          /\ UNCHANGED budget
       \/ Spend("fault")
    /\ EndSession
    /\ UNCHANGED <<fileVars, dismissVars, used, observed>>

-----------------------------------------------------------------------------
(* Beginning: the forced clear, the reset of the control mailbox and the    *)
(* first checkpoint.                                                        *)

ForcedClear ==
    /\ pc = "clear"
    /\ \/ Clear /\ Goto("reset") /\ UNCHANGED <<planVars, life, action, execVars, workerVars, budget>>
       \/ Spend("fault") /\ KeptCheckpoint /\ EndSession
    /\ UNCHANGED <<hist, meta, dismissVars, used, observed>>

(* RunControlCoordinator.reset.  Its owner is the active run that the       *)
(* coordinator saw when it was made, just before; if there is none now, a   *)
(* dismissal may have cleared it since.                                     *)
ResetControl ==
    /\ pc = "reset"
    /\ \E owner \in IF HasRun THEN {ActiveRun} ELSE Runs \cup {NoRun} :
         ClearControlForRun(run, owner)
    /\ action' = "none"
    /\ life' = "active_scan"
    /\ Goto("persist")
    /\ UNCHANGED <<hist, meta, planVars, execVars, workerVars, dismissVars, used,
                   observed, budget>>

FirstCheckpoint ==
    /\ pc = "persist"
    /\ ReplaceCheckpoint(run, life, base, done)
    /\ queue' = Steps \ done
    /\ Goto("exec")
    /\ UNCHANGED <<hist, meta, planVars, life, action, done, consec, troubles,
                   workerVars, dismissVars, used, observed, budget>>

BeginFails ==
    /\ pc \in {"reset", "persist"}
    /\ Spend("fault")
    /\ \/ UNCHANGED storeVars
       \/ pc = "persist" /\ ReplaceCheckpoint(run, life, base, done)
    /\ Goto("x_meta")
    /\ UNCHANGED <<hist, meta, planVars, life, action, execVars, workerVars,
                   dismissVars, used, observed>>

-----------------------------------------------------------------------------
(* The worker threads.  execute_job tests the failure event, then try_start *)
(* runs under the session lock: job policy, poll of the control mailbox,    *)
(* persist.  finish runs under it too: poll, discard or append, persist.    *)

NoLockHolder == \A w \in Workers : wpc[w] \notin Locked

CanStart == "execFailed" \notin troubles /\ consec < CircuitThreshold

(* Moves worker w; a free worker has no job. *)
Move(w, place) ==
    /\ wpc' = [wpc EXCEPT ![w] = place]
    /\ job' = IF place = "free" THEN [job EXCEPT ![w] = NoStep] ELSE job
    /\ res' = IF place = "free" THEN [res EXCEPT ![w] = "none"] ELSE res

(* Mutant: a persist after the pause writes the metadata of the plan.       *)
PersistedMetadataIgnoringPause == base

PersistedMetadata ==
    IF action = "pause" THEN [status |-> "paused", closed |-> FALSE] ELSE base

(* persist_run_locked *)
PersistRun ==
    IF action = "stop"
    THEN UNCHANGED storeVars
    ELSE ReplaceCheckpoint(run, life, PersistedMetadata, done)

(* RunControlCoordinator.poll: the action after polling. *)
Polled ==
    IF ckpt # NoCheckpoint /\ ActiveRun # run THEN "none"
    ELSE IF Claimed(run) = "none" THEN action
    ELSE IF action = "none" \/ (action = "pause" /\ Claimed(run) = "stop")
    THEN Claimed(run)
    ELSE action

Discards(a, result) == a = "stop" \/ (a = "pause" /\ result # "ok")

(* Mutant: a job refused because of a control is tried again.               *)
AfterPollRetrying(w, a) ==
    IF res[w] = "none"
    THEN IF a = "none" THEN "starting" ELSE "taken"
    ELSE IF Discards(a, res[w]) THEN "free" ELSE "append"

(* Where a worker goes on after its poll (and the control it may trigger). *)
AfterPoll(w, a) ==
    IF res[w] = "none"
    THEN IF a = "none" THEN "starting" ELSE "free"
    ELSE IF Discards(a, res[w]) THEN "free" ELSE "append"

PollControl(w) ==
    /\ ClaimControl(run)
    /\ action' = Polled
    /\ Move(w, IF Polled \notin {"none", action} THEN "c_meta" ELSE AfterPoll(w, Polled))

TakeJob(w) ==
    /\ pc = "exec"
    /\ wpc[w] = "free"
    /\ \E s \in queue :
         /\ queue' = queue \ {s}
         /\ job' = [job EXCEPT ![w] = s]
    /\ wpc' = [wpc EXCEPT ![w] = IF "failure" \in troubles THEN "skipping" ELSE "taken"]
    /\ UNCHANGED <<fileVars, pc, planVars, life, action, done, consec, troubles, res,
                   dismissVars, used, observed, budget>>

(* on_skipped and on_not_started: only the checkpoint is written. *)
NotStarted(w) ==
    /\ NoLockHolder
    /\ wpc[w] = "skipping" \/ (wpc[w] = "taken" /\ ~CanStart)
    /\ PersistRun
    /\ Move(w, "free")
    /\ UNCHANGED <<hist, meta, procVars, dismissVars, used, observed, budget>>

Polls(w) == wpc[w] = "returned" \/ (wpc[w] = "taken" /\ CanStart)

(* The poll, or the write for a job that is not started, fails.  When it is *)
(* the engine draining its queues that skips, the jobs still queued are     *)
(* never looked at again.                                                   *)
EntryFails(w) ==
    /\ NoLockHolder
    /\ wpc[w] \in {"skipping", "taken", "returned"}
    /\ Spend("fault")
    /\ IF Polls(w) THEN ClaimControlFails(run) ELSE UNCHANGED storeVars
    /\ queue' \in IF wpc[w] = "skipping" THEN {queue, {}} ELSE {queue}
    /\ Move(w, "free")
    /\ troubles' = troubles \cup {"raised"}
    /\ UNCHANGED <<hist, meta, pc, planVars, life, action, done, consec, dismissVars,
                   used, observed>>

TryStart(w) ==
    /\ NoLockHolder
    /\ wpc[w] = "taken"
    /\ CanStart
    /\ PollControl(w)
    /\ UNCHANGED <<hist, meta, pc, planVars, life, execVars, dismissVars, used,
                   observed, budget>>

(* A start counts as late when a request for the run is waiting, or when an *)
(* auto-resume starts a job of a run its own session has paused.            *)
Late == MailFor(run) \/ (kind = "auto" /\ <<run, sess>> \in asked)

StartJob(w) ==
    /\ wpc[w] = "starting"
    /\ PersistRun
    /\ Move(w, "running")
    /\ late' = IF Late THEN late + 1 ELSE late
    /\ UNCHANGED <<hist, meta, procVars, dismissVars, used, asked, autos, budget>>

JobReturns(w) ==
    /\ wpc[w] = "running"
    /\ wpc' = [wpc EXCEPT ![w] = "returned"]
    /\ \E r \in Outcome : res' = [res EXCEPT ![w] = r]
    /\ UNCHANGED <<fileVars, procVars, job, dismissVars, used, observed, budget>>

JobRaises(w) ==
    /\ wpc[w] = "running"
    /\ Spend("fault")
    /\ Move(w, "failing")
    /\ troubles' = troubles \cup {"failure"}
    /\ UNCHANGED <<fileVars, pc, planVars, life, action, queue, done, consec,
                   dismissVars, used, observed>>

FailJob(w) ==
    /\ NoLockHolder
    /\ wpc[w] = "failing"
    /\ PersistRun \/ UNCHANGED storeVars   \* the write may fail as well
    /\ Move(w, "free")
    /\ troubles' = troubles \cup {"execFailed", "raised"}
    /\ UNCHANGED <<hist, meta, pc, planVars, life, action, queue, done, consec,
                   dismissVars, used, observed, budget>>

FinishJob(w) ==
    /\ NoLockHolder
    /\ wpc[w] = "returned"
    /\ PollControl(w)
    /\ UNCHANGED <<hist, meta, pc, planVars, life, execVars, dismissVars, used,
                   observed, budget>>

(* Mutant: an append that fails goes unnoticed.                             *)
AppendResultLost(w) == UNCHANGED hist

AppendResult(w) ==
    hist' = Append(hist, [run |-> run, step |-> job[w], kind |-> res[w]])

AppendRow(w) ==
    /\ wpc[w] = "append"
    /\ AppendResult(w)
    /\ Move(w, "commit")
    /\ UNCHANGED <<storeVars, meta, procVars, dismissVars, used, observed, budget>>

(* job_finished and _record_run_health: the circuit never closes again. *)
CountResult(w) ==
    /\ done' = done \cup {job[w]}
    /\ consec' = IF consec = CircuitThreshold THEN consec
                 ELSE IF res[w] = "hard" THEN consec + 1
                 ELSE 0

Commit(w) ==
    /\ wpc[w] = "commit"
    /\ CountResult(w)
    /\ ReplaceCheckpoint(run, life, PersistedMetadata, done')
    /\ Move(w, "free")
    /\ UNCHANGED <<hist, meta, pc, planVars, life, action, queue, troubles, dismissVars,
                   used, observed, budget>>

-----------------------------------------------------------------------------
(* RunLifecycleCoordinator.control, called by the poll that saw a new       *)
(* action, still under the session lock.                                    *)

ControlledMetadata ==
    IF action = "pause" THEN [status |-> "paused", closed |-> FALSE]
    ELSE [status |-> "stopped", closed |-> TRUE]

ControlMetadata(w) ==
    /\ wpc[w] = "c_meta"
    /\ SaveRunMetadata(run, ControlledMetadata)
    /\ Move(w, IF action = "pause" THEN "c_ckpt" ELSE "c_clear")
    /\ UNCHANGED <<storeVars, hist, procVars, dismissVars, used, observed, budget>>

PauseCheckpoint(w) ==
    /\ wpc[w] = "c_ckpt"
    /\ life' = "paused_recoverable"
    /\ UpdateRunMetadata(ControlledMetadata)
    /\ Move(w, "c_life")
    /\ UNCHANGED <<hist, meta, pc, planVars, action, execVars, dismissVars, used,
                   observed, budget>>

PauseLifecycle(w) ==
    /\ wpc[w] = "c_life"
    /\ UpdateRuntimeState(life)
    /\ Move(w, AfterPoll(w, action))
    /\ UNCHANGED <<hist, meta, procVars, dismissVars, used, observed, budget>>

StopClear(w) ==
    /\ wpc[w] = "c_clear"
    /\ life' = "stopped"
    /\ ClearForRun(run)
    /\ Move(w, AfterPoll(w, action))
    /\ UNCHANGED <<hist, meta, pc, planVars, action, execVars, dismissVars, used,
                   observed, budget>>

(* A write under the session lock fails: the worker's future holds the      *)
(* exception, but the failure event is not set, so the others go on.  The   *)
(* write may have become durable before a later call of the section raised. *)
LockedSectionFails(w) ==
    /\ wpc[w] \in Locked
    /\ Spend("fault")
    /\ life' \in IF wpc[w] = "c_ckpt" THEN {life, "paused_recoverable"} ELSE {life}
    /\ \/ UNCHANGED <<storeVars, hist, done, consec>>
       \/ wpc[w] = "c_clear" /\ KeptCheckpoint /\ UNCHANGED <<hist, done, consec>>
       \/ wpc[w] = "starting" /\ PersistRun /\ UNCHANGED <<hist, done, consec>>
       \/ wpc[w] = "append" /\ AppendResult(w) /\ UNCHANGED <<storeVars, done, consec>>
       \/ /\ wpc[w] = "commit"
          /\ CountResult(w)
          /\ \/ UNCHANGED storeVars
             \/ ReplaceCheckpoint(run, life, PersistedMetadata, done')
          /\ UNCHANGED hist
    /\ Move(w, "free")
    /\ troubles' = troubles \cup {"raised"}
    /\ UNCHANGED <<meta, pc, planVars, action, queue, dismissVars, used, observed>>

-----------------------------------------------------------------------------
(* After the pool has drained.                                             *)

Drained ==
    /\ pc = "exec"
    /\ queue = {}
    /\ \A w \in Workers : wpc[w] = "free"

(* An exception of a future, a control that ended the scan, or completion.  *)
(* A pause that found every step done is forgotten.                         *)
WrapUp ==
    /\ Drained
    /\ \/ /\ "raised" \in troubles
          /\ Goto("x_meta")
          /\ UNCHANGED <<planVars, life, action, execVars, workerVars>>
       \/ /\ "raised" \notin troubles
          /\ action = "stop" \/ (action = "pause" /\ done # Steps)
          /\ EndSession
       \/ /\ "raised" \notin troubles
          /\ action = "none" \/ (action = "pause" /\ done = Steps)
          /\ Goto("k_meta")
          /\ action' = "none"
          /\ life' = IF action = "pause" THEN "active_scan" ELSE life
          /\ UNCHANGED <<planVars, execVars, workerVars>>
    /\ UNCHANGED <<fileVars, dismissVars, used, observed, budget>>

(* Mutant: a scan cut short by the circuit is not told from a complete one. *)
CompletedMetadataWithoutCircuit ==
    [status |-> IF ErrorRow(run) THEN "degraded" ELSE "completed",
     closed |-> done = Steps]

CompletedMetadata ==
    [status |-> IF consec = CircuitThreshold THEN "failed"
                ELSE IF ErrorRow(run) THEN "degraded"
                ELSE "completed",
     closed |-> TRUE]

RetainedLifecycle ==
    IF CompletedMetadata.status = "failed" THEN "failed" ELSE "finalizing"

SaveCompletedMetadata ==
    /\ pc = "k_meta"
    /\ SaveRunMetadata(run, CompletedMetadata)
    /\ Goto("k_ckpt")
    /\ UNCHANGED <<storeVars, hist, planVars, life, action, execVars, workerVars,
                   dismissVars, used, observed, budget>>

(* A failed scan keeps its checkpoint; any other goes on to be projected.   *)
RetainCheckpoint ==
    /\ pc = "k_ckpt"
    /\ ReplaceCheckpoint(run, RetainedLifecycle, CompletedMetadata, done)
    /\ IF RetainedLifecycle = "failed"
       THEN EndSession
       ELSE /\ Goto("commit")
            /\ life' = RetainedLifecycle
            /\ UNCHANGED <<planVars, action, execVars, workerVars>>
    /\ UNCHANGED <<hist, meta, dismissVars, used, observed, budget>>

FinishFails ==
    /\ pc \in {"k_meta", "k_ckpt"}
    /\ Spend("fault")
    /\ \/ UNCHANGED storeVars
       \/ pc = "k_ckpt" /\ ReplaceCheckpoint(run, RetainedLifecycle, CompletedMetadata, done)
    /\ Goto("x_meta")
    /\ UNCHANGED <<hist, meta, planVars, life, action, execVars, workerVars,
                   dismissVars, used, observed>>

(* The terminal snapshot is projected and the finalizing run committed; a   *)
(* failure of either leaves the checkpoint in finalizing.                   *)
CommitSnapshot ==
    /\ pc = "commit"
    /\ \/ /\ IF Finalizing /\ ckpt.meta.closed THEN ClearForRun(ckpt.run)
             ELSE UNCHANGED storeVars
          /\ UNCHANGED budget
       \/ Spend("fault") /\ KeptCheckpoint
    /\ EndSession
    /\ UNCHANGED <<hist, meta, dismissVars, used, observed>>

-----------------------------------------------------------------------------
(* finish_exception: the run is recorded as ended, its checkpoint retained. *)
(* The code's "failed" and "partial" are one status here.                   *)

FailedMetadata == [status |-> "failed", closed |-> TRUE]

FailMetadata ==
    /\ pc = "x_meta"
    /\ SaveRunMetadata(run, FailedMetadata)
    /\ life' = "failed"
    /\ Goto("x_ckpt")
    /\ UNCHANGED <<storeVars, hist, planVars, action, execVars, workerVars, dismissVars,
                   used, observed, budget>>

FailCheckpoint ==
    /\ pc = "x_ckpt"
    /\ UpdateRunMetadata(FailedMetadata)
    /\ Goto("x_life")
    /\ UNCHANGED <<hist, meta, planVars, life, action, execVars, workerVars, dismissVars,
                   used, observed, budget>>

FailLifecycle ==
    /\ pc = "x_life"
    /\ UpdateRuntimeState("failed")
    /\ EndSession
    /\ UNCHANGED <<hist, meta, dismissVars, used, observed, budget>>

FailureHandlingFails ==
    /\ pc \in {"x_meta", "x_ckpt", "x_life"}
    /\ Spend("fault")
    /\ EndSession
    /\ UNCHANGED <<fileVars, dismissVars, used, observed>>

Crash ==
    /\ pc # "idle"
    /\ Spend("crash")
    /\ EndSession
    /\ UNCHANGED <<fileVars, dismissVars, used, observed>>

-----------------------------------------------------------------------------
(* Other processes: pause and stop, and the dismissal of a resumable run.   *)

(* What the caller is told is being done. *)
Effective(a) == IF AnsweredByMarker(a) THEN "stop" ELSE Written(a, NoSession).action

RequestControl(a, s) ==
    /\ Spend("request")
    /\ RequestControlForActiveRun(a, s)
    /\ asked' = IF Effective(a) = "pause" /\ s # NoSession
                THEN asked \cup {<<ckpt.run, s>>}
                ELSE asked
    /\ UNCHANGED <<hist, meta, procVars, workerVars, dismissVars, used, late, autos>>

(* dismiss_resumable looks at the scan lock, then loads, saves the metadata *)
(* and clears, without taking the lock.                                     *)
DismissCheckLock ==
    /\ dpc = "idle"
    /\ pc = "idle"
    /\ Spend("dismiss")
    /\ dpc' = "checked"
    /\ UNCHANGED <<fileVars, procVars, workerVars, dsnap, used, observed>>

DismissLoad ==
    /\ dpc = "checked"
    /\ dsnap' = ckpt
    /\ dpc' = IF ckpt = NoCheckpoint THEN "idle"
              ELSE IF HasRun THEN "loaded"
              ELSE "saved"
    /\ UNCHANGED <<fileVars, procVars, workerVars, used, observed, budget>>

DismissMetadata ==
    /\ dpc = "loaded"
    /\ SaveRunMetadata(dsnap.run, [status |-> "stopped", closed |-> TRUE])
    /\ dpc' = "saved"
    /\ UNCHANGED <<storeVars, hist, procVars, workerVars, dsnap, used, observed, budget>>

DismissClear ==
    /\ dpc = "saved"
    /\ IF dsnap = EmptyPayload THEN Clear ELSE ClearForRun(dsnap.run)
    /\ dpc' = "idle"
    /\ dsnap' = NoCheckpoint
    /\ UNCHANGED <<hist, meta, procVars, workerVars, used, observed, budget>>

-----------------------------------------------------------------------------
ScanProcess ==
    \/ AutoResumeClaim
    \/ Recover
    \/ \E r \in Runs : PlanFresh(r)
    \/ PlanResume
    \/ PlanRejected
    \/ ForcedClear
    \/ ResetControl
    \/ FirstCheckpoint
    \/ WrapUp
    \/ SaveCompletedMetadata
    \/ RetainCheckpoint
    \/ CommitSnapshot
    \/ FailMetadata
    \/ FailCheckpoint
    \/ FailLifecycle

Worker(w) ==
    \/ TakeJob(w)
    \/ NotStarted(w)
    \/ TryStart(w)
    \/ StartJob(w)
    \/ JobReturns(w)
    \/ FailJob(w)
    \/ FinishJob(w)
    \/ AppendRow(w)
    \/ Commit(w)
    \/ ControlMetadata(w)
    \/ PauseCheckpoint(w)
    \/ PauseLifecycle(w)
    \/ StopClear(w)

Dismiss == DismissCheckLock \/ DismissLoad \/ DismissMetadata \/ DismissClear

Fault ==
    \/ RecoverFails
    \/ BeginFails
    \/ \E w \in Workers : JobRaises(w) \/ EntryFails(w) \/ LockedSectionFails(w)
    \/ FinishFails
    \/ FailureHandlingFails
    \/ Crash

Command ==
    \/ \E k \in Kind \ {"auto"} : Start(k)
    \/ \E s \in Sessions : AutoResumeDecide(s)
    \/ \E s \in Requesters : RequestControl("pause", s)
    \/ RequestControl("stop", NoSession)

Next ==
    \/ ScanProcess
    \/ \E w \in Workers : Worker(w)
    \/ Dismiss
    \/ Fault
    \/ Command

Spec == Init /\ [][Next]_vars

(* Threads and the scan process are scheduled; a job ends because its       *)
(* subprocess or request has a timeout.  Nothing obliges users, faults.     *)
Fairness == WF_vars(ScanProcess) /\ \A w \in Workers : WF_vars(Worker(w))

FairSpec == Spec /\ Fairness

-----------------------------------------------------------------------------
(* Properties.                                                             *)

(* The progress the checkpoint shows is never ahead of the results that are *)
(* durable: every step it counts as completed has a history row, across     *)
(* crashes between the append and the checkpoint, failed writes, resumes.   *)
CheckpointBackedByHistory == HasRun => ckpt.done \subseteq Committed(ckpt.run)

(* A run recorded as completed has the durable result of every step, and a  *)
(* checkpoint left in finalizing shows every step, so recovery can clear it *)
(* and loses nothing: no job that was skipped, refused, raised, discarded   *)
(* for a pause or not written is missing.                                   *)
CompletedIsWhole ==
    /\ \A r \in Runs :
          meta[r] # NoMeta /\ meta[r].status \in {"completed", "degraded"} => Committed(r) = Steps
    /\ Finalizing => ckpt.done = Steps

(* No step of a run is evaluated and committed twice, however often the run *)
(* is interrupted and resumed.                                              *)
NoStepCommittedTwice ==
    \A i, j \in DOMAIN hist :
        hist[i].run = hist[j].run /\ hist[i].step = hist[j].step => i = j

Quiet == pc = "exec" /\ NoLockHolder /\ "raised" \notin troubles

(* When no thread is inside the session lock and no write has failed, a     *)
(* control the scan has accepted is on disk: a pause as a paused,           *)
(* resumable checkpoint that no later persist overwrites; a stop as ended   *)
(* metadata and no checkpoint, which no late worker brings back.            *)
ControlIsRecorded ==
    Quiet =>
        /\ action = "pause" =>
               /\ ActiveRun = run
               /\ ckpt.life = "paused_recoverable"
               /\ ckpt.meta.status = "paused"
               /\ meta[run] = ckpt.meta
        /\ action = "stop" => ActiveRun # run /\ meta[run].closed

(* Likewise the checkpoint of the executing run shows exactly the steps     *)
(* whose results are durable.                                               *)
CheckpointIsCurrent ==
    Quiet /\ action # "stop" => ActiveRun = run /\ ckpt.done = Committed(run)

(* Once a pause or stop is accepted for a run, at most the one job that had *)
(* already passed its poll still starts; nor does an auto-resume by the     *)
(* session that paused the run start more, whatever crashes in between,     *)
(* unless a further request displaces the pause while only the mailbox     *)
(* holds it.                                                                *)
AtMostOneLateStart == late <= 1

(* Between two starts by the user, a session resumes automatically at most  *)
(* AttemptLimit times, though each attempt may crash at any point.          *)
AutoResumesAreBounded == \A s \in Sessions : autos[s] <= AttemptLimit

(* A start of the user is never refused because the stored state cannot be  *)
(* recovered.                                                               *)
StartIsNeverRefused == ~Incomplete

Closed(r) == Ended(r) /\ ActiveRun # r

(* A run that has ended, and is no longer the active run, is never resumed. *)
ClosedRunStaysClosed == [][\A r \in Runs : Closed(r) => Closed(r)']_vars

(* A run whose checkpoint carries a claimed stop starts no job.             *)
NoStartUnderStop ==
    [][\A w \in Workers :
          wpc[w] = "starting" /\ wpc'[w] = "running"
            => ~(ActiveRun = run /\ ckpt.stop)]_vars

(* The promise RunPromise makes about every run, kept by the detailed       *)
(* system.  A duplicate row would be a step that leaves committed alone but *)
(* is no stutter of hist; NoStepCommittedTwice covers it.                   *)
Promise == INSTANCE RunPromise WITH
    status    <- [r \in Runs |-> IF Closed(r) THEN "closed"
                                 ELSE IF r \in used THEN "open"
                                 ELSE "new"],
    committed <- [r \in Runs |-> Committed(r)]

KeepsPromise == Promise!Spec

(* Every scan that starts ends: no thread waits forever on the session      *)
(* lock, and no outcome leaves the process without a next step.             *)
ScanEnds == pc # "idle" ~> pc = "idle"
=============================================================================
