---------------------------- MODULE RepairSession ----------------------------
(***************************************************************************)
(* Repairing the latest round: re-evaluating the cells (candidate,         *)
(* question) whose last result is missing or an error, for one candidate   *)
(* or cell ("candidate"), or in a batch ("failed", "timeout").  A repair   *)
(* runs under the scan process lock, in the session and the engine that    *)
(* scans use, and keeps its scope in extra fields of active_run.json.      *)
(*                                                                         *)
(* Code: scanner/repair_planner.py, repair_execution_application.py,       *)
(* repair_execution.py, repair_outcomes.py, job_reducers.py                *)
(* (RepairJobReducer), application_services.py (_stream_repair_events).    *)
(*                                                                         *)
(* The round is one run of ActiveRunStore and its cells are the Steps.  A  *)
(* step is one durable write or one move of a thread; what a scan of the   *)
(* same run does in detail is ScanSession, here it is one step.            *)
(***************************************************************************)
EXTENDS ActiveRunStore

CONSTANTS
    Round,          \* the run that is repaired, the latest of the history
    Candidates,
    CandidateOf,    \* cell -> its candidate
    Workers,        \* max_concurrent_targets; a candidate repair uses one
    StartResults,   \* the results the round may begin with
    Asked,          \* the repairs that users ask for
    AttemptLimit,   \* AUTO_RESUME_ATTEMPT_LIMIT
    NoStep,
    NoRepair,       \* active_run.json has no repair_* fields
    Budgets         \* how often the environment may do each thing: one is chosen

VARIABLES
    entries,   \* active_run.json: the steps of the repair entries (their total)
    repair,    \* active_run.json: its repair_* fields
    latest,    \* history.jsonl: the last result of each cell
    meta,      \* run_metadata.json of the round
    pc,        \* where the repair process is; "idle" when none holds the lock
    req,       \* what it was asked: kind, candidates, cell
    auto,      \* it is an automatic resumption
    scope,     \* the steps it planned
    queue,     \* those no worker has taken yet
    done,      \* those with a result of this process (completed_step_keys)
    action,    \* RunControlCoordinator.action
    troubles,  \* "failure": the engine's event; "raised": a future raised
    wpc, job, res,   \* per worker: where it is, its cell, the result
    owed,      \* what the last candidate repair of the user planned (observation)
    budget

fileVars == <<ckpt, mailbox, entries, repair, latest, meta>>
planVars == <<req, auto, scope>>
poolVars == <<queue, done, action, troubles, wpc, job, res>>
vars == <<fileVars, pc, planVars, poolVars, owed, budget>>

-----------------------------------------------------------------------------
Outcome == {"ok", "error", "timeout"}
Result == Outcome \cup {"none"}
Kind == {"candidate", "failed", "timeout"}

Request == [kind: Kind, cands: SUBSET Candidates, cell: Steps \cup {NoStep}]
NoRequest == [kind |-> "failed", cands |-> {}, cell |-> NoStep]

Repair == [kind: Kind, cands: SUBSET Candidates, cell: Steps \cup {NoStep},
           rest: SUBSET Steps]

Place == {"idle", "recover", "plan", "begin", "persist", "mark", "exec",
          "k_meta", "k_ckpt", "k_life", "c_meta", "c_ckpt", "commit",
          "x_meta", "x_clear"}

(* The places of a worker inside "with self.lock", after its first call. *)
Locked == {"s_ckpt", "s_mark", "f_mark", "append", "e_ckpt", "e_mark"}

WorkerPlace == {"free", "taken", "running", "failing", "returned"} \cup Locked

(* One candidate, or one of its cells; or a batch of candidates. *)
Askable ==
    {r \in Request :
        /\ r.cands # {}
        /\ IF r.kind = "candidate"
           THEN /\ r.cands \in {{c} : c \in Candidates}
                /\ r.cell = NoStep \/ CandidateOf[r.cell] \in r.cands
           ELSE r.cell = NoStep}

Limits == {"start", "request", "fault", "crash"}

ASSUME RepairAssumption ==
    /\ Round \in Runs
    /\ CandidateOf \in [Steps -> Candidates]
    /\ StartResults \subseteq [Steps -> Result]
    /\ Asked \subseteq Askable
    /\ AttemptLimit \in Nat
    /\ NoStep \notin Steps
    /\ NoRepair \notin Repair
    /\ Budgets \subseteq [Limits -> Nat]

TypeOK ==
    /\ StoreTypeOK
    /\ entries \subseteq Steps
    /\ repair \in Repair \cup {NoRepair}
    /\ latest \in [Steps -> Result]
    /\ meta \in Metadata
    /\ pc \in Place
    /\ req \in Request
    /\ auto \in BOOLEAN
    /\ scope \subseteq Steps
    /\ queue \subseteq Steps
    /\ done \subseteq Steps
    /\ action \in Control \cup {"none"}
    /\ troubles \subseteq {"failure", "raised"}
    /\ wpc \in [Workers -> WorkerPlace]
    /\ job \in [Workers -> Steps \cup {NoStep}]
    /\ res \in [Workers -> Result]
    /\ owed \subseteq Steps
    /\ budget \in [Limits -> Nat]

-----------------------------------------------------------------------------
CellsOf(cands) == {c \in Steps : CandidateOf[c] \in cands}

Failing == {c \in Steps : latest[c] # "ok"}

Open == [status |-> "running", closed |-> FALSE]

(* Mutant: a cell that has no result at all is not looked for.              *)
RecomputedFromRows ==
    [status |-> IF \E c \in Steps : latest[c] \in {"error", "timeout"}
                THEN "degraded" ELSE "completed",
     closed |-> TRUE]

(* recomputed_repair_metadata, from the whole history. *)
Recomputed ==
    [status |-> IF Failing = {} THEN "completed" ELSE "degraded", closed |-> TRUE]

Failed == [status |-> "degraded", closed |-> TRUE]

Init ==
    /\ StoreInit
    /\ entries = {}
    /\ repair = NoRepair
    /\ latest \in StartResults
    /\ meta = Recomputed
    /\ pc = "idle"
    /\ req = NoRequest
    /\ auto = FALSE
    /\ scope = {}
    /\ queue = {}
    /\ done = {}
    /\ action = "none"
    /\ troubles = {}
    /\ wpc = [w \in Workers |-> "free"]
    /\ job = [w \in Workers |-> NoStep]
    /\ res = [w \in Workers |-> "none"]
    /\ owed = {}
    /\ budget \in Budgets

Spend(limit) ==
    /\ budget[limit] > 0
    /\ budget' = [budget EXCEPT ![limit] = @ - 1]

Goto(place) == pc' = place

(* The process releases the scan lock; what it held in memory is gone. *)
EndSession ==
    /\ pc' = "idle"
    /\ req' = NoRequest
    /\ auto' = FALSE
    /\ scope' = {}
    /\ queue' = {}
    /\ done' = {}
    /\ action' = "none"
    /\ troubles' = {}
    /\ wpc' = [w \in Workers |-> "free"]
    /\ job' = [w \in Workers |-> NoStep]
    /\ res' = [w \in Workers |-> "none"]

(* Mutant: the file is emptied instead of removed.                          *)
ClearRoundByEmptying ==
    /\ ClearForRun(Round)
    /\ entries' = {}
    /\ repair' = EmptyPayload

(* active_run.json goes away, with the fields a repair keeps in it. *)
ClearRound ==
    /\ ClearForRun(Round)
    /\ entries' = {}
    /\ repair' = NoRepair

Finalizing == HasRun /\ ckpt.life = "finalizing"

(* What the app shows of the checkpoint: has_resumable_run. *)
Resumable == HasRun /\ ckpt.done # entries

-----------------------------------------------------------------------------
(* Who starts a repair, and the scan that may take its checkpoint over.    *)

UserRepair(r) ==
    /\ pc = "idle"
    /\ Spend("start")
    /\ Goto("recover")
    /\ req' = r
    /\ UNCHANGED <<fileVars, auto, scope, poolVars, owed>>

(* _claim_if_needed routed to a repair stream; ScanSession takes its two    *)
(* transactions apart.                                                      *)
AutoRepair(s) ==
    /\ pc = "idle"
    /\ Spend("start")
    /\ Resumable
    /\ repair # NoRepair
    /\ repair.cands # {}
    /\ ~ckpt.sessions[s].suppressed
    /\ ckpt.sessions[s].attempts + 1 <= AttemptLimit
    /\ ClaimAutoResume(Round, s)
    /\ Goto("recover")
    /\ req' = [kind |-> repair.kind, cands |-> repair.cands, cell |-> repair.cell]
    /\ auto' = TRUE
    /\ UNCHANGED <<entries, repair, latest, meta, scope, poolVars, owed>>

(* A scan that resumes the run from the same checkpoint, from its start to  *)
(* its end: it evaluates the cells without any result, and only those.      *)
ScanResumesRound ==
    /\ pc = "idle"
    /\ Spend("start")
    /\ HasRun
    /\ ~Finalizing
    /\ \E new \in [Steps -> Outcome] :
         latest' = [c \in Steps |-> IF latest[c] = "none" THEN new[c] ELSE latest[c]]
    /\ meta' = [status |-> IF \A c \in Steps : latest'[c] = "ok" THEN "completed" ELSE "degraded",
                closed |-> TRUE]
    /\ ClearRound
    /\ UNCHANGED <<pc, planVars, poolVars, owed>>

RequestControl(a, s) ==
    /\ Spend("request")
    /\ RequestControlForActiveRun(a, s)
    /\ UNCHANGED <<entries, repair, latest, meta, pc, planVars, poolVars, owed>>

-----------------------------------------------------------------------------
(* Recovering a run left in finalizing, and planning.                      *)

Recover ==
    /\ pc = "recover"
    /\ IF Finalizing /\ ckpt.meta.closed
       THEN ClearRound
       ELSE UNCHANGED <<storeVars, entries, repair>>
    /\ IF Finalizing /\ ~ckpt.meta.closed
       THEN EndSession
       ELSE Goto("plan") /\ UNCHANGED <<planVars, poolVars>>
    /\ UNCHANGED <<latest, meta, owed, budget>>

Active == HasRun /\ ckpt.life = "active_scan"

(* The checkpoint is that of a repair of the same candidate. *)
Matching ==
    /\ HasRun
    /\ repair # NoRepair
    /\ repair.kind = "candidate"
    /\ repair.cands = req.cands

(* Mutant: the stored scope is taken as it is, evaluated since or not.      *)
CandidateStepsAsStored ==
    IF req.cell # NoStep THEN {req.cell} \cap Failing
    ELSE IF Matching THEN repair.rest
    ELSE CellsOf(req.cands) \cap Failing

CandidateSteps ==
    IF req.cell # NoStep THEN {req.cell} \cap Failing
    ELSE IF Matching THEN CellsOf(req.cands) \cap Failing \cap repair.rest
    ELSE CellsOf(req.cands) \cap Failing

(* The scope stored by an interrupted batch is not read. *)
BatchSteps ==
    {c \in CellsOf(req.cands) :
        IF req.kind = "failed" THEN latest[c] # "ok" ELSE latest[c] = "timeout"}

Planned == IF req.kind = "candidate" THEN CandidateSteps ELSE BatchSteps

(* A matching candidate repair with nothing left to do is only completed.   *)
CompletionOnly == req.kind = "candidate" /\ Matching /\ Planned = {}

Refused ==
    \/ Active /\ ~(req.kind = "candidate" /\ Matching)
    \/ req.cell # NoStep /\ latest[req.cell] = "ok"
    \/ Planned = {} /\ ~CompletionOnly

Plan ==
    /\ pc = "plan"
    /\ ~Refused
    /\ scope' = Planned
    /\ Goto(IF CompletionOnly THEN "c_meta" ELSE "begin")
    /\ UNCHANGED <<fileVars, req, auto, poolVars, owed, budget>>

PlanRefused ==
    /\ pc = "plan"
    /\ Refused \/ budget["fault"] > 0
    /\ budget' = IF Refused THEN budget ELSE [budget EXCEPT !["fault"] = @ - 1]
    /\ EndSession
    /\ UNCHANGED <<fileVars, owed>>

-----------------------------------------------------------------------------
(* The state of a repair is persisted by two transactions: the checkpoint   *)
(* is replaced, which drops the repair_* fields, and then they are added.   *)

PersistRun ==
    /\ ReplaceCheckpoint(Round, "active_scan", Open, done)
    /\ entries' = scope
    /\ repair' = NoRepair

(* Mutant: a cell is off the list once it was tried.                        *)
RemainingUntried == scope \ done

(* retryable_question_ids, or pending_question_ids_by_candidate. *)
Remaining ==
    IF req.kind = "candidate"
    THEN {c \in scope : c \notin done \/ latest[c] # "ok"}
    ELSE scope \ done

MarkRepair ==
    /\ repair' = [kind  |-> req.kind,
                  cands |-> IF req.kind = "candidate" THEN req.cands
                            ELSE {CandidateOf[c] : c \in Remaining},
                  cell  |-> IF req.cell \in Remaining THEN req.cell ELSE NoStep,
                  rest  |-> Remaining]
    /\ UNCHANGED <<storeVars, entries>>

Begin ==
    /\ pc = "begin"
    /\ ClearControlForRun(Round, ActiveRun)
    /\ Goto("persist")
    /\ UNCHANGED <<entries, repair, latest, meta, planVars, poolVars, owed, budget>>

Persist ==
    /\ pc = "persist"
    /\ PersistRun
    /\ owed' = IF auto THEN owed ELSE IF req.kind = "candidate" THEN scope ELSE {}
    /\ Goto("mark")
    /\ UNCHANGED <<latest, meta, planVars, poolVars, budget>>

Mark ==
    /\ pc = "mark"
    /\ MarkRepair
    /\ queue' = scope
    /\ Goto("exec")
    /\ UNCHANGED <<latest, meta, planVars, done, action, troubles, wpc, job, res, owed, budget>>

(* The write may have become durable before a later call raised. *)
BeginFails ==
    /\ pc \in {"begin", "persist", "mark"}
    /\ Spend("fault")
    /\ \/ UNCHANGED <<storeVars, entries, repair>>
       \/ pc = "persist" /\ PersistRun
       \/ pc = "mark" /\ MarkRepair
    /\ Goto("x_meta")
    /\ UNCHANGED <<latest, meta, planVars, poolVars, owed>>

-----------------------------------------------------------------------------
(* The workers.  A candidate repair has one worker, stops at the first job  *)
(* that raises, and writes only after a result; a batch has several, goes   *)
(* on, and also writes when a job starts or raises.                         *)

NoLockHolder == \A w \in Workers : wpc[w] \notin Locked

Move(w, place) ==
    /\ wpc' = [wpc EXCEPT ![w] = place]
    /\ job' = IF place = "free" THEN [job EXCEPT ![w] = NoStep] ELSE job
    /\ res' = IF place = "free" THEN [res EXCEPT ![w] = "none"] ELSE res

(* RunControlCoordinator.poll: the action after polling. *)
Polled ==
    IF HasRun /\ ActiveRun # Round THEN "none"
    ELSE IF Claimed(Round) = "none" THEN action
    ELSE IF action = "none" \/ (action = "pause" /\ Claimed(Round) = "stop")
    THEN Claimed(Round)
    ELSE action

PollControl ==
    /\ ClaimControl(Round)
    /\ action' = Polled

TakeJob(w) ==
    /\ pc = "exec"
    /\ wpc[w] = "free"
    /\ req.kind = "candidate" => \A v \in Workers : wpc[v] = "free"
    /\ \E c \in queue :
         /\ queue' = queue \ {c}
         /\ IF "failure" \in troubles
            THEN UNCHANGED <<wpc, job>>
            ELSE /\ wpc' = [wpc EXCEPT ![w] = "taken"]
                 /\ job' = [job EXCEPT ![w] = c]
    /\ UNCHANGED <<fileVars, pc, planVars, done, action, troubles, res, owed, budget>>

TryStart(w) ==
    /\ NoLockHolder
    /\ wpc[w] = "taken"
    /\ PollControl
    /\ Move(w, IF Polled # "none" THEN "free"
               ELSE IF req.kind = "candidate" THEN "running"
               ELSE "s_ckpt")
    /\ UNCHANGED <<entries, repair, latest, meta, pc, planVars, queue, done, troubles,
                   owed, budget>>

JobReturns(w) ==
    /\ wpc[w] = "running"
    /\ wpc' = [wpc EXCEPT ![w] = "returned"]
    /\ \E r \in Outcome : res' = [res EXCEPT ![w] = r]
    /\ UNCHANGED <<fileVars, pc, planVars, queue, done, action, troubles, job, owed, budget>>

JobRaises(w) ==
    /\ wpc[w] = "running"
    /\ Spend("fault")
    /\ Move(w, "failing")
    /\ troubles' = IF req.kind = "candidate" THEN troubles \cup {"failure"} ELSE troubles
    /\ UNCHANGED <<fileVars, pc, planVars, queue, done, action, owed>>

FailJob(w) ==
    /\ NoLockHolder
    /\ wpc[w] = "failing"
    /\ troubles' = troubles \cup {"raised"}
    /\ IF req.kind = "candidate"
       THEN Move(w, "free") /\ UNCHANGED <<storeVars, entries, repair>>
       ELSE Move(w, "f_mark") /\ PersistRun
    /\ UNCHANGED <<latest, meta, pc, planVars, queue, done, action, owed, budget>>

(* An error that meets a control is taken for its effect and discarded. *)
FinishJob(w) ==
    /\ NoLockHolder
    /\ wpc[w] = "returned"
    /\ PollControl
    /\ Move(w, IF Polled # "none" /\ res[w] # "ok" THEN "free" ELSE "append")
    /\ UNCHANGED <<entries, repair, latest, meta, pc, planVars, queue, done, troubles,
                   owed, budget>>

AppendRow(w) ==
    /\ wpc[w] = "append"
    /\ latest' = [latest EXCEPT ![job[w]] = res[w]]
    /\ done' = done \cup {job[w]}
    /\ Move(w, "e_ckpt")
    /\ UNCHANGED <<storeVars, entries, repair, meta, pc, planVars, queue, action, troubles,
                   owed, budget>>

WorkerPersists(w) ==
    /\ wpc[w] \in {"s_ckpt", "e_ckpt"}
    /\ PersistRun
    /\ Move(w, IF wpc[w] = "s_ckpt" THEN "s_mark" ELSE "e_mark")
    /\ UNCHANGED <<latest, meta, pc, planVars, queue, done, action, troubles, owed, budget>>

WorkerMarks(w) ==
    /\ wpc[w] \in {"s_mark", "f_mark", "e_mark"}
    /\ MarkRepair
    /\ Move(w, IF wpc[w] = "s_mark" THEN "running" ELSE "free")
    /\ UNCHANGED <<latest, meta, pc, planVars, queue, done, action, troubles, owed, budget>>

(* A call under the session lock raises, before or after it took effect:    *)
(* the future holds the exception, the other jobs go on.                    *)
SectionFails(w) ==
    /\ \/ wpc[w] \in Locked
       \/ NoLockHolder /\ wpc[w] \in {"taken", "returned"}
       \/ NoLockHolder /\ wpc[w] = "failing" /\ req.kind # "candidate"
    /\ Spend("fault")
    /\ \/ UNCHANGED fileVars
       \/ /\ wpc[w] \in {"taken", "returned"}
          /\ ClaimControlFails(Round)
          /\ UNCHANGED <<entries, repair, latest, meta>>
       \/ wpc[w] \in {"s_ckpt", "e_ckpt", "failing"} /\ PersistRun /\ UNCHANGED <<latest, meta>>
       \/ wpc[w] \in {"s_mark", "f_mark", "e_mark"} /\ MarkRepair /\ UNCHANGED <<latest, meta>>
       \/ /\ wpc[w] = "append"
          /\ latest' = [latest EXCEPT ![job[w]] = res[w]]
          /\ UNCHANGED <<storeVars, entries, repair, meta>>
    /\ Move(w, "free")
    /\ troubles' = troubles \cup {"raised"}
    /\ UNCHANGED <<pc, planVars, queue, done, action, owed>>

-----------------------------------------------------------------------------
(* After the pool has drained.                                             *)

(* Mutant: the wrap-up waits for a result of every planned cell.            *)
DrainedWithResults ==
    /\ pc = "exec"
    /\ done = scope
    /\ \A w \in Workers : wpc[w] = "free"

Drained ==
    /\ pc = "exec"
    /\ queue = {}
    /\ \A w \in Workers : wpc[w] = "free"

(* A pause that finds nothing left to retry, or to do, is forgotten. *)
WrapUp ==
    /\ Drained
    /\ \/ "raised" \in troubles /\ Goto("x_meta") /\ UNCHANGED action
       \/ /\ "raised" \notin troubles
          /\ action = "stop" \/ (action = "pause" /\ Remaining # {})
          /\ Goto("k_meta")
          /\ UNCHANGED action
       \/ /\ "raised" \notin troubles
          /\ action = "none" \/ (action = "pause" /\ Remaining = {})
          /\ Goto("c_meta")
          /\ action' = "none"
    /\ UNCHANGED <<fileVars, planVars, queue, done, troubles, wpc, job, res, owed, budget>>

SaveMetadata ==
    /\ pc \in {"k_meta", "c_meta"}
    /\ meta' = Recomputed
    /\ Goto(IF pc = "k_meta" THEN "k_ckpt" ELSE "c_ckpt")
    /\ UNCHANGED <<storeVars, entries, repair, latest, planVars, poolVars, owed, budget>>

PauseCheckpoint ==
    /\ pc = "k_ckpt"
    /\ action = "pause"
    /\ UpdateRunMetadata([status |-> "paused", closed |-> FALSE])
    /\ Goto("k_life")
    /\ UNCHANGED <<entries, repair, latest, meta, planVars, poolVars, owed, budget>>

PauseLifecycle ==
    /\ pc = "k_life"
    /\ UpdateRuntimeState("paused_recoverable")
    /\ EndSession
    /\ UNCHANGED <<entries, repair, latest, meta, owed, budget>>

StopClear ==
    /\ pc = "k_ckpt"
    /\ action = "stop"
    /\ ClearRound
    /\ EndSession
    /\ UNCHANGED <<latest, meta, owed, budget>>

RetainCheckpoint ==
    /\ ReplaceCheckpoint(Round, "finalizing", Recomputed, done)
    /\ entries' = scope
    /\ repair' = NoRepair

RetainFinalizing ==
    /\ pc = "c_ckpt"
    /\ RetainCheckpoint
    /\ Goto("commit")
    /\ UNCHANGED <<latest, meta, planVars, poolVars, owed, budget>>

(* A failed removal keeps the checkpoint; its mailbox may be gone already.  *)
KeptCheckpoint ==
    /\ mailbox' \in {mailbox, NoMail}
    /\ UNCHANGED <<ckpt, entries, repair>>

CommitSnapshot ==
    /\ pc = "commit"
    /\ \/ ClearRound /\ UNCHANGED budget
       \/ Spend("fault") /\ KeptCheckpoint
    /\ EndSession
    /\ UNCHANGED <<latest, meta, owed>>

(* An exception of the wrap-up is a failure of the repair, unless it only   *)
(* had to be completed: then it is just reported.                           *)
WrapUpFails ==
    /\ pc \in {"k_meta", "k_ckpt", "k_life", "c_meta", "c_ckpt"}
    /\ Spend("fault")
    /\ \/ UNCHANGED fileVars
       \/ /\ pc \in {"k_meta", "c_meta"}
          /\ meta' = Recomputed
          /\ UNCHANGED <<storeVars, entries, repair, latest>>
       \/ pc = "k_ckpt" /\ action = "stop" /\ ClearRound /\ UNCHANGED <<latest, meta>>
       \/ pc = "c_ckpt" /\ RetainCheckpoint /\ UNCHANGED <<latest, meta>>
       \/ /\ pc = "k_life"
          /\ UpdateRuntimeState("paused_recoverable")
          /\ UNCHANGED <<entries, repair, latest, meta>>
    /\ IF scope = {} THEN EndSession ELSE Goto("x_meta") /\ UNCHANGED <<planVars, poolVars>>
    /\ UNCHANGED owed

FailMetadata ==
    /\ pc = "x_meta"
    /\ meta' = Failed
    /\ Goto("x_clear")
    /\ UNCHANGED <<storeVars, entries, repair, latest, planVars, poolVars, owed, budget>>

FailClear ==
    /\ pc = "x_clear"
    /\ ClearRound
    /\ EndSession
    /\ UNCHANGED <<latest, meta, owed, budget>>

FailureHandlingFails ==
    /\ pc \in {"x_meta", "x_clear"}
    /\ Spend("fault")
    /\ KeptCheckpoint
    /\ EndSession
    /\ UNCHANGED <<latest, meta, owed>>

Crash ==
    /\ pc # "idle"
    /\ Spend("crash")
    /\ EndSession
    /\ UNCHANGED <<fileVars, owed>>

-----------------------------------------------------------------------------
RepairProcess ==
    \/ Recover
    \/ Plan
    \/ PlanRefused
    \/ Begin
    \/ Persist
    \/ Mark
    \/ WrapUp
    \/ SaveMetadata
    \/ PauseCheckpoint
    \/ PauseLifecycle
    \/ StopClear
    \/ RetainFinalizing
    \/ CommitSnapshot
    \/ FailMetadata
    \/ FailClear

Worker(w) ==
    \/ TakeJob(w)
    \/ TryStart(w)
    \/ JobReturns(w)
    \/ FailJob(w)
    \/ FinishJob(w)
    \/ AppendRow(w)
    \/ WorkerPersists(w)
    \/ WorkerMarks(w)

Fault ==
    \/ BeginFails
    \/ \E w \in Workers : JobRaises(w) \/ SectionFails(w)
    \/ WrapUpFails
    \/ FailureHandlingFails
    \/ Crash

Command ==
    \/ \E r \in Asked : UserRepair(r)
    \/ \E s \in Sessions : AutoRepair(s) \/ RequestControl("pause", s)
    \/ ScanResumesRound
    \/ RequestControl("stop", NoSession)

Next ==
    \/ RepairProcess
    \/ \E w \in Workers : Worker(w)
    \/ Fault
    \/ Command

Spec == Init /\ [][Next]_vars

(* The process and its threads are scheduled, and a job ends because its    *)
(* subprocess or request has a timeout.                                     *)
Fairness == WF_vars(RepairProcess) /\ \A w \in Workers : WF_vars(Worker(w))

FairSpec == Spec /\ Fairness

-----------------------------------------------------------------------------
(* Properties.                                                             *)

(* A cell with a good result is never evaluated again to a worse one: a     *)
(* resumption that reads a stored scope older than the history, two         *)
(* workers, or a repair after a repair never pays for it twice.             *)
GoodResultsKept == [][\A c \in Steps : latest[c] = "ok" => latest'[c] = "ok"]_vars

(* Whatever crashed or failed, the scope that an interrupted candidate      *)
(* repair left in the checkpoint covers every cell it was asked to repair   *)
(* that still fails, so that resuming it forgets none.                      *)
ScopeIsKept ==
    repair # NoRepair /\ repair.kind = "candidate" => owed \cap Failing \subseteq repair.rest

(* A round that is recorded as completed has a good last result in every    *)
(* cell, also in those no repair touched.                                   *)
CompletedMeansGood == meta.status = "completed" => Failing = {}

(* Every repair that starts ends: no worker waits forever on the session    *)
(* lock, and no outcome leaves the process without a next step.             *)
RepairEnds == pc # "idle" ~> pc = "idle"

(* A paused repair can be resumed.                                          *)
PausedIsResumable == HasRun /\ ckpt.life = "paused_recoverable" => Resumable
=============================================================================
