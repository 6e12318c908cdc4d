-------------------------- MODULE ScanSessionProofs --------------------------
(***************************************************************************)
(* Theorems about ScanSession for any sets of runs, steps, sessions and    *)
(* workers, any limits and any number of starts, requests, dismissals,     *)
(* failed writes and crashes.                                              *)
(***************************************************************************)
EXTENDS ScanSession, ActiveRunStoreProofs

(* What the place of a process or a worker says about what it holds.        *)
PlacesTypeOK ==
    /\ pc = "claim" => run \in Runs /\ sess \in Sessions
    /\ pc \in Planned => run \in Runs /\ base \in Metadata
    /\ \A w \in Workers : /\ wpc[w] # "free" => pc = "exec" /\ job[w] \in Steps
                          /\ wpc[w] \in {"returned", "append", "commit"} => res[w] \in Outcome
    /\ dpc = "loaded" => dsnap \in Checkpoint

TypeInv == TypeOK /\ PlacesTypeOK

(* The checkpoint and the process count no step whose row is not durable;   *)
(* a worker about to commit has appended its row.                           *)
Backed ==
    /\ CheckpointBackedByHistory
    /\ IF pc \in Planned THEN done \subseteq Committed(run) ELSE done = {}
    /\ \A w \in Workers : wpc[w] = "commit" => job[w] \in Committed(run)

(* A checkpoint in finalizing has closed metadata or every step; from the   *)
(* end of recovery to the end of the scan there is none.                    *)
FinalizingHasEvidence == Finalizing => Evidence

BeforeFinalizing == {"plan", "clear", "reset", "persist", "exec", "k_meta", "k_ckpt"}

Evident ==
    /\ FinalizingHasEvidence
    /\ life = "finalizing" => pc = "commit"
    /\ pc \in BeforeFinalizing => ~Finalizing

-----------------------------------------------------------------------------
(* The initial state.                                                      *)

LEMMA InitTyped == Init => TypeInv
  BY StoreAssumption, SessionAssumption
     DEF Init, StoreInit, TypeInv, TypeOK, StoreTypeOK, PlacesTypeOK, Kind, Place, Planned,
         Lifecycle, Control, WorkerPlace, Locked, Outcome, AutoResumeSession, Limits

LEMMA InitBacked == Init => Backed
  BY DEF Init, StoreInit, Backed, CheckpointBackedByHistory, HasRun, Planned

LEMMA InitEvident == Init => Evident
  BY DEF Init, StoreInit, Evident, FinalizingHasEvidence, Finalizing, HasRun

-----------------------------------------------------------------------------
(* The history.                                                            *)

LEMMA CommittedType ==
    ASSUME hist \in Seq(Row), NEW r
    PROVE  Committed(r) \subseteq Steps /\ Recent(r) \subseteq Committed(r)
  <1>1. \A i \in DOMAIN hist : hist[i].step \in Steps
    <2>1. \A i \in DOMAIN hist : hist[i] \in Row
      OBVIOUS
    <2> QED
      BY <2>1 DEF Row
  <1>2. Committed(r) \subseteq Steps
    BY <1>1 DEF Committed, StepsOf
  <1>3. Recent(r) \subseteq Committed(r)
    BY DEF Committed, StepsOf, Recent
  <1> QED
    BY <1>2, <1>3

(* Appending a worker's result adds its step to its run and loses no row.  *)
LEMMA AppendGrows ==
    ASSUME hist \in Seq(Row), run \in Runs, NEW w \in Workers, job[w] \in Steps,
           res[w] \in Outcome, AppendResult(w)
    PROVE  /\ hist' \in Seq(Row)
           /\ \A r \in Runs : Committed(r) \subseteq StepsOf(hist', r)
           /\ job[w] \in StepsOf(hist', run)
  <1> DEFINE row == [run |-> run, step |-> job[w], kind |-> res[w]]
  <1>1. row \in Row
    BY DEF Row
  <1>2. hist' = Append(hist, row)
    BY DEF AppendResult
  <1> HIDE DEF row
  <1>3. hist' \in Seq(Row) /\ Len(hist') = Len(hist) + 1 /\ hist'[Len(hist) + 1] = row
    BY <1>1, <1>2
  <1>4. \A i \in DOMAIN hist : i \in DOMAIN hist' /\ hist'[i] = hist[i]
    BY <1>1, <1>2
  <1>5. Len(hist) + 1 \in DOMAIN hist'
    BY <1>3
  <1>6. ASSUME NEW r \in Runs PROVE Committed(r) \subseteq StepsOf(hist', r)
    BY <1>4 DEF Committed, StepsOf
  <1>7. job[w] \in StepsOf(hist', run)
    BY <1>3, <1>5 DEF StepsOf, row
  <1> QED
    BY <1>3, <1>6, <1>7

-----------------------------------------------------------------------------
(* Types.                                                                  *)

(* Ending the session resets the process and its workers. *)
LEMMA EndSessionType ==
    ASSUME TypeInv, EndSession, StoreTypeOK', UNCHANGED <<hist, meta, dismissVars>>,
           used' \subseteq Runs, asked' \subseteq Runs \X Sessions, late' \in Nat,
           autos' \in [Sessions -> Nat], budget' \in [Limits -> Nat]
    PROVE  TypeInv'
  BY SessionAssumption
     DEF TypeInv, TypeOK, PlacesTypeOK, EndSession, dismissVars, Kind, Place, Planned,
         Lifecycle, WorkerPlace

(* Moving a worker keeps the workers typed. *)
LEMMA MoveType ==
    ASSUME TypeInv, NEW w \in Workers, NEW p \in WorkerPlace, Move(w, p)
    PROVE  /\ wpc' \in [Workers -> WorkerPlace]
           /\ job' \in [Workers -> Steps \cup {NoStep}]
           /\ res' \in [Workers -> Outcome \cup {"none"}]
           /\ \A v \in Workers : v # w => wpc'[v] = wpc[v] /\ job'[v] = job[v] /\ res'[v] = res[v]
           /\ wpc'[w] = p
           /\ p # "free" => job'[w] = job[w] /\ res'[w] = res[w]
  BY DEF TypeInv, TypeOK, Move

LEMMA SpendType ==
    ASSUME TypeInv, NEW l \in Limits, Spend(l)
    PROVE  budget' \in [Limits -> Nat]
  BY DEF TypeInv, TypeOK, Spend

LEMMA StoreKept ==
    ASSUME TypeInv, UNCHANGED storeVars
    PROVE  StoreTypeOK' /\ CheckpointKept
  BY DEF TypeInv, TypeOK, StoreTypeOK, storeVars, CheckpointKept, HasRun

LEMMA KeptCheckpointKeeps ==
    ASSUME TypeInv, KeptCheckpoint
    PROVE  StoreTypeOK' /\ CheckpointKept
  BY DEF TypeInv, TypeOK, StoreTypeOK, KeptCheckpoint, CheckpointKept, HasRun

(* What PersistRun writes while the run is executed. *)
LEMMA PersistRunEffect ==
    ASSUME TypeInv, pc = "exec", PersistRun
    PROVE  /\ StoreTypeOK'
           /\ \/ CheckpointKept
              \/ /\ HasRun'
                 /\ ckpt'.run = run
                 /\ ckpt'.done = done
                 /\ ckpt'.life = life
  <1>1. run \in Runs /\ life \in Lifecycle /\ done \in SUBSET Steps
    BY DEF TypeInv, TypeOK, PlacesTypeOK, Planned
  <1>2. PersistedMetadata \in Metadata
    BY DEF TypeInv, PlacesTypeOK, Planned, PersistedMetadata, Metadata, Status
  <1>3. CASE action = "stop"
    BY <1>3, StoreKept DEF PersistRun
  <1>4. CASE action # "stop"
    BY <1>1, <1>2, <1>4, ReplaceCheckpointEffect DEF PersistRun, TypeInv, TypeOK
  <1> QED
    BY <1>3, <1>4

(* Starts, claims and recovery. *)
LEMMA BeginTyped ==
    ASSUME TypeInv,
           \/ \E k \in Kind : Start(k)
           \/ \E s \in Sessions : AutoResumeDecide(s)
           \/ AutoResumeClaim \/ Recover \/ RecoverFails
    PROVE  TypeInv'
  <1>1. ASSUME NEW k \in Kind, Start(k) PROVE TypeInv'
    <2>1. StoreTypeOK'
      BY <1>1, StoreKept DEF Start, fileVars, storeVars
    <2>2. budget' \in [Limits -> Nat]
      BY <1>1, SpendType DEF Start, Limits
    <2>3. asked' \subseteq Runs \X Sessions /\ autos' \in [Sessions -> Nat]
      BY <1>1 DEF Start, TypeInv, TypeOK
    <2> QED
      BY <1>1, <2>1, <2>2, <2>3
         DEF Start, Goto, TypeInv, TypeOK, PlacesTypeOK, Place, Planned, fileVars,
             execVars, workerVars, dismissVars
  <1>2. ASSUME NEW s \in Sessions, AutoResumeDecide(s) PROVE TypeInv'
    BY <1>2, SpendType, StoreKept, CheckpointIsRecord
       DEF AutoResumeDecide, Goto, TypeInv, TypeOK, PlacesTypeOK, Place, Planned, Limits, Kind,
           fileVars, storeVars, execVars, workerVars, dismissVars
  <1>3. CASE AutoResumeClaim
    <2>1. StoreTypeOK'
      BY <1>3, ClaimAutoResumeKeeps DEF AutoResumeClaim, TypeInv, TypeOK, PlacesTypeOK
    <2>2. CASE ActiveRun = run
      BY <1>3, <2>1, <2>2
         DEF AutoResumeClaim, Goto, TypeInv, TypeOK, PlacesTypeOK, Place, Planned,
             planVars, execVars, workerVars, dismissVars
    <2>3. CASE ActiveRun # run
      BY <1>3, <2>1, <2>3, EndSessionType DEF AutoResumeClaim, TypeInv, TypeOK
    <2> QED
      BY <2>2, <2>3
  <1>4. CASE Recover
    <2>1. StoreTypeOK'
      BY <1>4, ClearForRunKeeps, StoreKept DEF Recover, TypeInv, TypeOK
    <2>2. CASE EndSession
      BY <1>4, <2>1, <2>2, EndSessionType DEF Recover, TypeInv, TypeOK, observed
    <2>3. CASE Goto("plan") /\ UNCHANGED <<planVars, life, action, execVars, workerVars>>
      BY <1>4, <2>1, <2>3
         DEF Recover, Goto, TypeInv, TypeOK, PlacesTypeOK, Place, Planned,
             planVars, execVars, workerVars, dismissVars, observed
    <2> QED
      BY <1>4, <2>2, <2>3 DEF Recover
  <1>5. CASE RecoverFails
    BY <1>5, KeptCheckpointKeeps, EndSessionType, SpendType
       DEF RecoverFails, TypeInv, TypeOK, observed, Limits
  <1> QED
    BY <1>1, <1>2, <1>3, <1>4, <1>5

(* Metadata written by the code. *)
LEMMA MetadataTypes ==
    /\ Running \in Metadata
    /\ ControlledMetadata \in Metadata
    /\ CompletedMetadata \in Metadata
    /\ FailedMetadata \in Metadata
    /\ RetainedLifecycle \in Lifecycle
  BY DEF Running, ControlledMetadata, CompletedMetadata, FailedMetadata, Metadata, Status,
         RetainedLifecycle, Lifecycle

(* The run, metadata and progress a plan resumes. *)
LEMMA ResumeTyped ==
    ASSUME TypeInv, Resumable
    PROVE  /\ ResumeRun \in Runs
           /\ (IF HasRun THEN ckpt.meta ELSE InferredMetadata) \in Metadata
           /\ Recent(ResumeRun) \subseteq Steps
  <1>1. CASE HasRun
    <2>1. ckpt \in Checkpoint /\ ckpt.run \in Runs
      BY <1>1, CheckpointIsRecord DEF TypeInv, TypeOK
    <2> QED
      BY <1>1, <2>1, CommittedType DEF TypeInv, TypeOK, ResumeRun, Checkpoint
  <1>2. CASE ~HasRun
    <2>1. hist # <<>> /\ hist \in Seq(Row)
      BY <1>2 DEF Resumable, Inferred, TypeInv, TypeOK
    <2>2. Len(hist) \in DOMAIN hist
      BY <2>1
    <2>3. hist[Len(hist)] \in Row
      BY <2>1, <2>2
    <2>4. LastRun \in Runs
      BY <2>3 DEF LastRun, Row
    <2>5. meta[LastRun] \in Metadata \cup {NoMeta}
      BY <2>4 DEF TypeInv, TypeOK
    <2>6. InferredMetadata \in Metadata
      BY <2>5 DEF InferredMetadata, Metadata, Status
    <2> QED
      BY <1>2, <2>4, <2>6, CommittedType DEF TypeInv, TypeOK, ResumeRun
  <1> QED
    BY <1>1, <1>2

(* Planning and beginning. *)
LEMMA PlanTyped ==
    ASSUME TypeInv,
           \/ \E r \in Runs : PlanFresh(r)
           \/ PlanResume \/ PlanRejected \/ ForcedClear \/ ResetControl
           \/ FirstCheckpoint \/ BeginFails
    PROVE  TypeInv'
  <1> USE DEF Goto, Place, Planned
  <1>1. ASSUME NEW r \in Runs, PlanFresh(r) PROVE TypeInv'
    BY <1>1, StoreKept, MetadataTypes
       DEF PlanFresh, TypeInv, TypeOK, PlacesTypeOK, fileVars, storeVars, execVars,
           workerVars, dismissVars, observed
  <1>2. CASE PlanResume
    BY <1>2, StoreKept, ResumeTyped
       DEF PlanResume, TypeInv, TypeOK, PlacesTypeOK, fileVars, storeVars, workerVars,
           dismissVars, observed
  <1>3. CASE PlanRejected
    <2>1. budget' \in [Limits -> Nat]
      BY <1>3, SpendType DEF PlanRejected, TypeInv, TypeOK, Limits
    <2> QED
      BY <1>3, <2>1, StoreKept, EndSessionType
         DEF PlanRejected, TypeInv, TypeOK, fileVars, storeVars, observed
  <1>4. CASE ForcedClear
    <2>1. CASE Clear /\ Goto("reset") /\ UNCHANGED <<planVars, life, action, execVars, workerVars, budget>>
      BY <1>4, <2>1, ClearEffect
         DEF ForcedClear, TypeInv, TypeOK, PlacesTypeOK, planVars, execVars, workerVars,
             dismissVars, observed
    <2>2. CASE Spend("fault") /\ KeptCheckpoint /\ EndSession
      BY <1>4, <2>2, KeptCheckpointKeeps, EndSessionType, SpendType
         DEF ForcedClear, TypeInv, TypeOK, observed, Limits
    <2> QED
      BY <1>4, <2>1, <2>2 DEF ForcedClear
  <1>5. CASE ResetControl
    BY <1>5, ClearControlKeeps
       DEF ResetControl, TypeInv, TypeOK, PlacesTypeOK, planVars, execVars, workerVars,
           dismissVars, observed, Lifecycle
  <1>6. CASE FirstCheckpoint
    <2>1. StoreTypeOK'
      BY <1>6, ReplaceCheckpointEffect DEF FirstCheckpoint, TypeInv, TypeOK, PlacesTypeOK
    <2> QED
      BY <1>6, <2>1
         DEF FirstCheckpoint, TypeInv, TypeOK, PlacesTypeOK, planVars, workerVars,
             dismissVars, observed
  <1>7. CASE BeginFails
    <2>1. StoreTypeOK'
      BY <1>7, ReplaceCheckpointEffect, StoreKept
         DEF BeginFails, TypeInv, TypeOK, PlacesTypeOK
    <2>2. budget' \in [Limits -> Nat]
      BY <1>7, SpendType DEF BeginFails, Limits
    <2> QED
      BY <1>7, <2>1, <2>2
         DEF BeginFails, TypeInv, TypeOK, PlacesTypeOK, planVars, execVars, workerVars,
             dismissVars, observed
  <1> QED
    BY <1>1, <1>2, <1>3, <1>4, <1>5, <1>6, <1>7

(* A poll keeps everything typed. *)
LEMMA PollTyped ==
    ASSUME TypeInv, NEW w \in Workers, wpc[w] \in {"taken", "returned"}, PollControl(w)
    PROVE  /\ StoreTypeOK' /\ CheckpointKept
           /\ action' \in Control \cup {"none"}
           /\ \E p \in {"c_meta", "starting", "append", "free"} :
                 Move(w, p) /\ (p = "append" => res[w] \in Outcome)
  <1>1. run \in Runs
    BY DEF TypeInv, PlacesTypeOK, Planned
  <1>2. StoreTypeOK' /\ CheckpointKept
    BY <1>1, ClaimControlKeeps DEF PollControl, TypeInv, TypeOK
  <1>3. Claimed(run) \in Control \cup {"none"}
    BY DEF Claimed, TypeInv, TypeOK, StoreTypeOK, Mail
  <1>4. action' \in Control \cup {"none"}
    BY <1>3 DEF PollControl, Polled, TypeInv, TypeOK
  <1>5. \A a : AfterPoll(w, a) \in {"starting", "append", "free"}
               /\ (AfterPoll(w, a) = "append" => res[w] \in Outcome)
    BY DEF AfterPoll, TypeInv, TypeOK
  <1>6. \E p \in {"c_meta", "starting", "append", "free"} :
           Move(w, p) /\ (p = "append" => res[w] \in Outcome)
    BY <1>5 DEF PollControl
  <1> QED
    BY <1>2, <1>4, <1>6

(* A worker that moves on while the scan executes. *)
LEMMA WorkerMoves ==
    ASSUME TypeInv, pc = "exec", NEW w \in Workers, NEW p \in WorkerPlace, Move(w, p),
           p # "free" => job[w] \in Steps,
           p \in {"returned", "append", "commit"} => res[w] \in Outcome,
           StoreTypeOK', hist' \in Seq(Row), meta' \in [Runs -> Metadata \cup {NoMeta}],
           life' \in Lifecycle, action' \in Control \cup {"none"},
           queue' \subseteq Steps, done' \subseteq Steps, consec' \in 0..CircuitThreshold,
           troubles' \subseteq Trouble, late' \in Nat, budget' \in [Limits -> Nat],
           UNCHANGED <<pc, planVars, dismissVars, used, asked, autos>>
    PROVE  TypeInv'
  BY MoveType DEF TypeInv, TypeOK, PlacesTypeOK, planVars, dismissVars, Planned

LEMMA CountResultType ==
    ASSUME TypeInv, NEW w \in Workers, job[w] \in Steps, CountResult(w)
    PROVE  done' \subseteq Steps /\ consec' \in 0..CircuitThreshold
  BY SessionAssumption DEF TypeInv, TypeOK, CountResult

(* A failed entry into the session lock leaves the progress alone. *)
LEMMA EntryFailsKeeps ==
    ASSUME TypeInv, NEW w \in Workers, EntryFails(w)
    PROVE  StoreTypeOK' /\ CheckpointKept
  <1>1. StoreTypeOK /\ run \in Runs
    BY DEF EntryFails, TypeInv, TypeOK, PlacesTypeOK, Planned
  <1> QED
    BY <1>1, StoreKept, ClaimControlKeeps DEF EntryFails

(* The actions of a worker that leave the control of the scan alone. *)
LEMMA WorkerTyped ==
    ASSUME TypeInv, NEW w \in Workers,
           \/ TakeJob(w) \/ NotStarted(w) \/ EntryFails(w) \/ TryStart(w) \/ StartJob(w)
           \/ JobReturns(w) \/ JobRaises(w) \/ FailJob(w) \/ FinishJob(w) \/ AppendRow(w)
           \/ Commit(w)
    PROVE  TypeInv'
  <1> USE DEF fileVars, storeVars, procVars, planVars, execVars, dismissVars, observed,
              WorkerPlace, Locked, Trouble
  <1>t. TypeOK
    BY DEF TypeInv
  <1>e. wpc[w] # "free" => pc = "exec" /\ job[w] \in Steps
    BY DEF TypeInv, PlacesTypeOK
  <1>r. wpc[w] \in {"returned", "append", "commit"} => res[w] \in Outcome
    BY DEF TypeInv, PlacesTypeOK
  <1>1. CASE TakeJob(w)
    BY <1>1, StoreKept
       DEF TakeJob, TypeInv, TypeOK, PlacesTypeOK, Planned, Place
  <1>2. CASE NotStarted(w)
    BY <1>2, <1>t, <1>e, PersistRunEffect, WorkerMoves DEF NotStarted, TypeOK
  <1>3. CASE EntryFails(w)
    <2>1. queue' \subseteq Steps
      BY <1>3, <1>t DEF EntryFails, TypeOK
    <2>2. StoreTypeOK'
      BY <1>3, <1>e, EntryFailsKeeps DEF TypeInv
    <2> QED
      BY <1>3, <1>t, <1>e, <2>1, <2>2, SpendType, WorkerMoves
         DEF EntryFails, TypeOK, Limits
  <1>4. CASE TryStart(w)
    <2>1. PollControl(w) /\ pc = "exec" /\ wpc[w] = "taken"
      BY <1>4, <1>e DEF TryStart
    <2>2. PICK p \in {"c_meta", "starting", "append", "free"} :
             Move(w, p) /\ (p = "append" => res[w] \in Outcome)
      BY <2>1, PollTyped
    <2>3. StoreTypeOK' /\ action' \in Control \cup {"none"}
      BY <2>1, PollTyped
    <2> QED
      BY <1>4, <1>t, <1>e, <2>1, <2>2, <2>3, WorkerMoves DEF TryStart, TypeOK
  <1>5. CASE StartJob(w)
    <2>1. StoreTypeOK'
      BY <1>5, <1>e, PersistRunEffect DEF StartJob
    <2>2. late' \in Nat
      BY <1>5, <1>t DEF StartJob, TypeOK
    <2> QED
      BY <1>5, <1>t, <1>e, <2>1, <2>2, WorkerMoves DEF StartJob, TypeOK
  <1>6. CASE JobReturns(w)
    BY <1>6, <1>e, StoreKept DEF JobReturns, TypeInv, TypeOK, PlacesTypeOK, Planned
  <1>7. CASE JobRaises(w)
    BY <1>7, <1>t, <1>e, StoreKept, SpendType, WorkerMoves DEF JobRaises, TypeOK, Limits
  <1>8. CASE FailJob(w)
    BY <1>8, <1>t, <1>e, StoreKept, PersistRunEffect, WorkerMoves DEF FailJob, TypeOK
  <1>9. CASE FinishJob(w)
    <2>1. PollControl(w) /\ pc = "exec" /\ wpc[w] = "returned"
      BY <1>9, <1>e DEF FinishJob
    <2>2. PICK p \in {"c_meta", "starting", "append", "free"} :
             Move(w, p) /\ (p = "append" => res[w] \in Outcome)
      BY <2>1, PollTyped
    <2>3. StoreTypeOK' /\ action' \in Control \cup {"none"}
      BY <2>1, PollTyped
    <2> QED
      BY <1>9, <1>t, <1>e, <2>1, <2>2, <2>3, WorkerMoves DEF FinishJob, TypeOK
  <1>10. CASE AppendRow(w)
    <2>1. run \in Runs
      BY <1>10, <1>e DEF AppendRow, TypeInv, PlacesTypeOK, Planned
    <2>2. hist' \in Seq(Row)
      BY <1>10, <1>t, <1>e, <1>r, <2>1, AppendGrows DEF AppendRow, TypeOK
    <2> QED
      BY <1>10, <1>t, <1>e, <1>r, <2>2, StoreKept, WorkerMoves DEF AppendRow, TypeOK
  <1>11. CASE Commit(w)
    <2>1. done' \subseteq Steps /\ consec' \in 0..CircuitThreshold
      BY <1>11, <1>e, CountResultType DEF Commit
    <2>2. run \in Runs /\ PersistedMetadata \in Metadata
      BY <1>11, <1>e
         DEF Commit, TypeInv, PlacesTypeOK, Planned, PersistedMetadata, Metadata, Status
    <2>3. StoreTypeOK'
      BY <1>11, <1>t, <2>1, <2>2, ReplaceCheckpointEffect DEF Commit, TypeOK
    <2> QED
      BY <1>11, <1>t, <1>e, <2>1, <2>3, WorkerMoves DEF Commit, TypeOK
  <1> QED
    BY <1>1, <1>2, <1>3, <1>4, <1>5, <1>6, <1>7, <1>8, <1>9, <1>10, <1>11

(* The control of the scan by a worker, and a failure under the lock. *)
LEMMA ControlTyped ==
    ASSUME TypeInv, NEW w \in Workers,
           \/ ControlMetadata(w) \/ PauseCheckpoint(w) \/ PauseLifecycle(w) \/ StopClear(w)
           \/ LockedSectionFails(w)
    PROVE  TypeInv'
  <1> USE DEF fileVars, storeVars, procVars, planVars, execVars, dismissVars, observed,
              WorkerPlace, Locked, Trouble
  <1>t. TypeOK
    BY DEF TypeInv
  <1>e. wpc[w] \in Locked /\ pc = "exec" /\ job[w] \in Steps /\ run \in Runs
    BY DEF TypeInv, PlacesTypeOK, Planned, ControlMetadata, PauseCheckpoint, PauseLifecycle,
           StopClear, LockedSectionFails
  <1>a. \A a : AfterPoll(w, a) \in {"starting", "append", "free"}
               /\ (AfterPoll(w, a) = "append" => res[w] \in Outcome)
    BY <1>t DEF AfterPoll, TypeOK
  <1>1. CASE ControlMetadata(w)
    <2>1. meta' \in [Runs -> Metadata \cup {NoMeta}]
      BY <1>1, <1>t, MetadataTypes DEF ControlMetadata, SaveRunMetadata, TypeOK
    <2> QED
      BY <1>1, <1>t, <1>e, <2>1, StoreKept, WorkerMoves DEF ControlMetadata, TypeOK
  <1>2. CASE PauseCheckpoint(w)
    BY <1>2, <1>t, <1>e, MetadataTypes, UpdateRunMetadataEffect, WorkerMoves
       DEF PauseCheckpoint, TypeOK, Lifecycle
  <1>3. CASE PauseLifecycle(w)
    BY <1>3, <1>t, <1>e, <1>a, UpdateRuntimeStateEffect, WorkerMoves
       DEF PauseLifecycle, TypeOK
  <1>4. CASE StopClear(w)
    BY <1>4, <1>t, <1>e, <1>a, ClearForRunKeeps, WorkerMoves
       DEF StopClear, TypeOK, Lifecycle
  <1>5. CASE LockedSectionFails(w)
    <2>1. /\ StoreTypeOK'
          /\ hist' \in Seq(Row)
          /\ done' \subseteq Steps
          /\ consec' \in 0..CircuitThreshold
      <3>1. CASE UNCHANGED <<storeVars, hist, done, consec>>
        BY <3>1, <1>t, StoreKept DEF TypeOK
      <3>2. CASE wpc[w] = "starting" /\ PersistRun /\ UNCHANGED <<hist, done, consec>>
        BY <3>2, <1>t, <1>e, PersistRunEffect DEF TypeOK
      <3>3. CASE wpc[w] = "append" /\ AppendResult(w) /\ UNCHANGED <<storeVars, done, consec>>
        BY <3>3, <1>t, <1>e, StoreKept, AppendGrows DEF TypeOK, TypeInv, PlacesTypeOK
      <3>4. CASE /\ CountResult(w)
                 /\ \/ UNCHANGED storeVars
                    \/ ReplaceCheckpoint(run, life, PersistedMetadata, done')
                 /\ UNCHANGED hist
        <4>1. done' \subseteq Steps /\ consec' \in 0..CircuitThreshold
          BY <3>4, <1>e, CountResultType
        <4>2. PersistedMetadata \in Metadata
          BY <1>e DEF TypeInv, PlacesTypeOK, Planned, PersistedMetadata, Metadata, Status
        <4>3. StoreTypeOK'
          BY <3>4, <1>t, <1>e, <4>1, <4>2, StoreKept, ReplaceCheckpointEffect DEF TypeOK
        <4> QED
          BY <3>4, <1>t, <4>1, <4>3 DEF TypeOK
      <3>5. CASE KeptCheckpoint /\ UNCHANGED <<hist, done, consec>>
        BY <3>5, <1>t, KeptCheckpointKeeps DEF TypeOK
      <3> QED
        BY <1>5, <3>1, <3>2, <3>3, <3>4, <3>5 DEF LockedSectionFails
    <2>2. life' \in Lifecycle
      BY <1>5, <1>t DEF LockedSectionFails, TypeOK, Lifecycle
    <2> QED
      BY <1>5, <1>t, <1>e, <2>1, <2>2, SpendType, WorkerMoves
         DEF LockedSectionFails, TypeOK, Limits
  <1> QED
    BY <1>1, <1>2, <1>3, <1>4, <1>5

(* The end of a scan, whichever way it ends. *)
LEMMA EndTyped ==
    ASSUME TypeInv,
           \/ WrapUp \/ SaveCompletedMetadata \/ RetainCheckpoint \/ FinishFails
           \/ CommitSnapshot \/ FailMetadata \/ FailCheckpoint \/ FailLifecycle
           \/ FailureHandlingFails \/ Crash
    PROVE  TypeInv'
  <1> USE DEF fileVars, storeVars, planVars, execVars, workerVars, dismissVars, observed,
              Goto, Place, Planned
  <1>t. TypeOK
    BY DEF TypeInv
  <1>p. pc \in Planned => run \in Runs /\ base \in Metadata
    BY DEF TypeInv, PlacesTypeOK
  <1>f. pc # "exec" => \A w \in Workers : wpc[w] = "free"
    BY DEF TypeInv, PlacesTypeOK
  <1>1. CASE WrapUp
    <2>1. CASE EndSession
      BY <1>1, <1>t, <2>1, StoreKept, EndSessionType DEF WrapUp, TypeOK
    <2>2. CASE Goto("x_meta") /\ UNCHANGED <<planVars, life, action, execVars, workerVars>>
      BY <1>1, <2>2, StoreKept DEF WrapUp, Drained, TypeInv, TypeOK, PlacesTypeOK
    <2>3. CASE /\ Goto("k_meta")
               /\ action' = "none"
               /\ life' = IF action = "pause" THEN "active_scan" ELSE life
               /\ UNCHANGED <<planVars, execVars, workerVars>>
      BY <1>1, <2>3, StoreKept
         DEF WrapUp, Drained, TypeInv, TypeOK, PlacesTypeOK, Lifecycle
    <2> QED
      BY <1>1, <2>1, <2>2, <2>3 DEF WrapUp
  <1>2. CASE SaveCompletedMetadata
    <2>1. meta' \in [Runs -> Metadata \cup {NoMeta}]
      BY <1>2, <1>t, MetadataTypes DEF SaveCompletedMetadata, SaveRunMetadata, TypeOK
    <2> QED
      BY <1>2, <1>f, <2>1, StoreKept
         DEF SaveCompletedMetadata, TypeInv, TypeOK, PlacesTypeOK
  <1>3. CASE RetainCheckpoint
    <2>1. StoreTypeOK'
      BY <1>3, <1>t, <1>p, MetadataTypes, ReplaceCheckpointEffect
         DEF RetainCheckpoint, TypeOK
    <2>2. CASE EndSession
      BY <1>3, <1>t, <2>1, <2>2, EndSessionType DEF RetainCheckpoint, TypeOK
    <2>3. CASE /\ Goto("commit")
               /\ life' = RetainedLifecycle
               /\ UNCHANGED <<planVars, action, execVars, workerVars>>
      BY <1>3, <1>f, <2>1, <2>3, MetadataTypes
         DEF RetainCheckpoint, TypeInv, TypeOK, PlacesTypeOK
    <2> QED
      BY <1>3, <2>2, <2>3 DEF RetainCheckpoint
  <1>4. CASE FinishFails
    <2>1. StoreTypeOK'
      BY <1>4, <1>t, <1>p, MetadataTypes, StoreKept, ReplaceCheckpointEffect
         DEF FinishFails, TypeOK
    <2>2. budget' \in [Limits -> Nat]
      BY <1>4, SpendType DEF FinishFails, Limits
    <2> QED
      BY <1>4, <1>f, <2>1, <2>2 DEF FinishFails, TypeInv, TypeOK, PlacesTypeOK
  <1>5. CASE CommitSnapshot
    <2>1. StoreTypeOK'
      BY <1>5, <1>t, StoreKept, ClearForRunKeeps, KeptCheckpointKeeps
         DEF CommitSnapshot, TypeOK
    <2>2. budget' \in [Limits -> Nat]
      BY <1>5, <1>t, SpendType DEF CommitSnapshot, Limits, TypeOK
    <2> QED
      BY <1>5, <1>t, <2>1, <2>2, EndSessionType DEF CommitSnapshot, TypeOK
  <1>6. CASE FailMetadata
    <2>1. meta' \in [Runs -> Metadata \cup {NoMeta}]
      BY <1>6, <1>t, MetadataTypes DEF FailMetadata, SaveRunMetadata, TypeOK
    <2> QED
      BY <1>6, <1>f, <2>1, StoreKept
         DEF FailMetadata, TypeInv, TypeOK, PlacesTypeOK, Lifecycle
  <1>7. CASE FailCheckpoint
    <2>1. StoreTypeOK'
      BY <1>7, <1>t, MetadataTypes, UpdateRunMetadataEffect DEF FailCheckpoint, TypeOK
    <2> QED
      BY <1>7, <1>f, <2>1 DEF FailCheckpoint, TypeInv, TypeOK, PlacesTypeOK
  <1>8. CASE FailLifecycle
    <2>1. StoreTypeOK'
      BY <1>8, <1>t, UpdateRuntimeStateEffect DEF FailLifecycle, TypeOK, Lifecycle
    <2> QED
      BY <1>8, <1>t, <2>1, EndSessionType DEF FailLifecycle, TypeOK
  <1>9. CASE FailureHandlingFails
    BY <1>9, <1>t, StoreKept, SpendType, EndSessionType
       DEF FailureHandlingFails, TypeOK, Limits
  <1>10. CASE Crash
    BY <1>10, <1>t, StoreKept, SpendType, EndSessionType DEF Crash, TypeOK, Limits
  <1> QED
    BY <1>1, <1>2, <1>3, <1>4, <1>5, <1>6, <1>7, <1>8, <1>9, <1>10

(* Requests and dismissals of other processes. *)
LEMMA OthersTyped ==
    ASSUME TypeInv,
           \/ \E s \in Requesters : RequestControl("pause", s)
           \/ RequestControl("stop", NoSession)
           \/ Dismiss
    PROVE  TypeInv'
  <1> USE DEF fileVars, storeVars, procVars, planVars, execVars, workerVars, dismissVars,
              observed
  <1>t. TypeOK
    BY DEF TypeInv
  <1>1. ASSUME NEW a \in Control, NEW s \in Sessions \cup {NoSession}, RequestControl(a, s)
        PROVE  TypeInv'
    <2>1. StoreTypeOK'
      BY <1>1, <1>t, RequestControlKeeps DEF RequestControl, TypeOK
    <2>2. HasRun /\ ckpt.run \in Runs
      BY <1>1, <1>t, CheckpointIsRecord
         DEF RequestControl, RequestControlForActiveRun, TypeOK
    <2>3. asked' \subseteq Runs \X Sessions
      BY <1>1, <1>t, <2>2 DEF RequestControl, TypeOK
    <2>4. budget' \in [Limits -> Nat]
      BY <1>1, SpendType DEF RequestControl, Limits
    <2> QED
      BY <1>1, <2>1, <2>3, <2>4
         DEF RequestControl, TypeInv, TypeOK, PlacesTypeOK
  <1>2. CASE DismissCheckLock
    <2>1. budget' \in [Limits -> Nat]
      BY <1>2, SpendType DEF DismissCheckLock, Limits
    <2> QED
      BY <1>2, <2>1, StoreKept DEF DismissCheckLock, TypeInv, TypeOK, PlacesTypeOK
  <1>3. CASE DismissLoad
    BY <1>3, StoreKept, CheckpointIsRecord
       DEF DismissLoad, TypeInv, TypeOK, PlacesTypeOK, StoreTypeOK
  <1>4. CASE DismissMetadata
    <2>1. dsnap.run \in Runs
      BY <1>4 DEF DismissMetadata, TypeInv, PlacesTypeOK, Checkpoint
    <2>2. meta' \in [Runs -> Metadata \cup {NoMeta}]
      BY <1>4, <1>t, <2>1 DEF DismissMetadata, SaveRunMetadata, TypeOK, Metadata, Status
    <2> QED
      BY <1>4, <2>2, StoreKept DEF DismissMetadata, TypeInv, TypeOK, PlacesTypeOK
  <1>5. CASE DismissClear
    <2>1. StoreTypeOK'
      BY <1>5, <1>t, ClearEffect, ClearForRunKeeps DEF DismissClear, TypeOK
    <2> QED
      BY <1>5, <2>1 DEF DismissClear, TypeInv, TypeOK, PlacesTypeOK
  <1> QED
    BY <1>1, <1>2, <1>3, <1>4, <1>5, SessionAssumption DEF Dismiss, Control

LEMMA TypeStep == TypeInv /\ [Next]_vars => TypeInv'
  <1> SUFFICES ASSUME TypeInv, [Next]_vars PROVE TypeInv'
    OBVIOUS
  <1>1. CASE UNCHANGED vars
    BY <1>1, StoreKept
       DEF vars, fileVars, storeVars, procVars, planVars, execVars, workerVars, dismissVars,
           observed, TypeInv, TypeOK, PlacesTypeOK
  <1>2. CASE Command
    BY <1>2, BeginTyped, OthersTyped DEF Command
  <1>3. CASE ScanProcess
    BY <1>3, BeginTyped, PlanTyped, EndTyped DEF ScanProcess
  <1>4. CASE \E w \in Workers : Worker(w)
    BY <1>4, WorkerTyped, ControlTyped DEF Worker
  <1>5. CASE Dismiss
    BY <1>5, OthersTyped
  <1>6. CASE Fault
    BY <1>6, BeginTyped, PlanTyped, WorkerTyped, ControlTyped, EndTyped DEF Fault
  <1> QED
    BY <1>1, <1>2, <1>3, <1>4, <1>5, <1>6 DEF Next

(* The state is well typed, and every place holds what it needs.            *)
THEOREM SessionTyped == Spec => []TypeInv
  BY InitTyped, TypeStep, PTL DEF Spec

(* The files and the memory of every process keep their types.              *)
THEOREM SessionStateTyped == Spec => []TypeOK
  <1>1. TypeInv => TypeOK
    BY DEF TypeInv
  <1> QED
    BY SessionTyped, <1>1, PTL

-----------------------------------------------------------------------------
(* The checkpoint is backed by the history.                                *)

(* A step that keeps the history, the plan and the checkpoint's progress.   *)
LEMMA BackedKept ==
    ASSUME Backed, CheckpointKept, UNCHANGED hist,
           \/ pc \in Planned /\ pc' \in Planned /\ run' = run /\ done' = done
           \/ pc' \notin Planned /\ done' = {},
           \A w \in Workers : wpc'[w] = "commit" => wpc[w] = "commit" /\ job'[w] = job[w] /\ pc' \in Planned
    PROVE  Backed'
  BY DEF Backed, CheckpointBackedByHistory, CheckpointKept, Committed

(* Ending the session with the checkpoint kept. *)
LEMMA BackedEnd ==
    ASSUME Backed, CheckpointKept, UNCHANGED hist, EndSession
    PROVE  Backed'
  BY BackedKept DEF EndSession, Planned

(* A step of one worker after which the checkpoint is kept or is the one    *)
(* the process persists, and which counts nothing.                          *)
LEMMA BackedWorker ==
    ASSUME TypeInv, Backed, pc = "exec", NEW w \in Workers, NEW p \in WorkerPlace \ {"commit"},
           Move(w, p), UNCHANGED <<hist, pc, run, done>>,
           \/ CheckpointKept
           \/ HasRun' /\ ckpt'.run = run /\ ckpt'.done = done
    PROVE  Backed'
  <1>1. \A v \in Workers : wpc'[v] = "commit" => wpc[v] = "commit" /\ job'[v] = job[v]
    BY MoveType
  <1>2. CASE CheckpointKept
    BY <1>1, <1>2, BackedKept DEF Planned
  <1>3. CASE HasRun' /\ ckpt'.run = run /\ ckpt'.done = done
    BY <1>1, <1>3 DEF Backed, CheckpointBackedByHistory, Committed, Planned
  <1> QED
    BY <1>2, <1>3

(* Starting, recovering, planning and beginning. *)
LEMMA BackedBegin ==
    ASSUME TypeInv, Backed,
           \/ \E k \in Kind : Start(k)
           \/ \E s \in Sessions : AutoResumeDecide(s)
           \/ AutoResumeClaim \/ Recover \/ RecoverFails
           \/ \E r \in Runs : PlanFresh(r)
           \/ PlanResume \/ PlanRejected \/ ForcedClear \/ ResetControl
           \/ FirstCheckpoint \/ BeginFails
    PROVE  Backed'
  <1> USE DEF Goto, fileVars, planVars, execVars, workerVars
  <1>t. TypeOK /\ StoreTypeOK
    BY DEF TypeInv, TypeOK
  <1>f. pc # "exec" => \A w \in Workers : wpc[w] # "commit"
    BY DEF TypeInv, PlacesTypeOK
  <1>p. pc \in Planned => run \in Runs /\ base \in Metadata
    BY DEF TypeInv, PlacesTypeOK
  <1>1. ASSUME NEW k \in Kind, Start(k) PROVE Backed'
    BY <1>1, <1>f, StoreKept
       DEF Start, storeVars, Backed, CheckpointBackedByHistory, CheckpointKept, Committed, Planned
  <1>2. ASSUME NEW s \in Sessions, AutoResumeDecide(s) PROVE Backed'
    BY <1>2, <1>f, StoreKept
       DEF AutoResumeDecide, storeVars, Backed, CheckpointBackedByHistory, CheckpointKept,
           Committed, Planned
  <1>3. CASE AutoResumeClaim
    <2>1. CheckpointKept
      BY <1>3, <1>t, ClaimAutoResumeKeeps DEF AutoResumeClaim, TypeInv, PlacesTypeOK
    <2>2. CASE EndSession
      BY <1>3, <2>1, <2>2, BackedEnd DEF AutoResumeClaim
    <2>3. CASE Goto("recover") /\ UNCHANGED <<planVars, life, action, execVars, workerVars>>
      BY <1>3, <1>f, <2>1, <2>3
         DEF AutoResumeClaim, Backed, CheckpointBackedByHistory, CheckpointKept, Committed, Planned
    <2> QED
      BY <1>3, <2>2, <2>3 DEF AutoResumeClaim
  <1>4. CASE Recover
    <2>1. CheckpointKept
      BY <1>4, <1>t, ClearForRunKeeps, StoreKept DEF Recover
    <2>2. CASE EndSession
      BY <1>4, <2>1, <2>2, BackedEnd DEF Recover
    <2>3. CASE Goto("plan") /\ UNCHANGED <<planVars, life, action, execVars, workerVars>>
      BY <1>4, <1>f, <2>1, <2>3
         DEF Recover, Backed, CheckpointBackedByHistory, CheckpointKept, Committed, Planned
    <2> QED
      BY <1>4, <2>2, <2>3 DEF Recover
  <1>5. CASE RecoverFails
    BY <1>5, KeptCheckpointKeeps, BackedEnd DEF RecoverFails
  <1>6. ASSUME NEW r \in Runs, PlanFresh(r) PROVE Backed'
    BY <1>6, <1>f, StoreKept
       DEF PlanFresh, storeVars, Backed, CheckpointBackedByHistory, CheckpointKept, Committed,
       Planned
  <1>7. CASE PlanResume
    <2>1. Recent(ResumeRun) \subseteq Committed(ResumeRun)
      BY <1>t, CommittedType DEF TypeOK
    <2> QED
      BY <1>7, <1>f, <2>1, StoreKept
         DEF PlanResume, storeVars, Backed, CheckpointBackedByHistory, CheckpointKept,
             Committed, Planned
  <1>8. CASE PlanRejected
    BY <1>8, StoreKept, BackedEnd DEF PlanRejected, storeVars
  <1>9. CASE ForcedClear
    <2>1. CASE Clear /\ Goto("reset") /\ UNCHANGED <<planVars, life, action, execVars, workerVars, budget>>
      BY <1>9, <1>f, <1>t, <2>1, ClearEffect
         DEF ForcedClear, Backed, CheckpointBackedByHistory, Committed, Planned
    <2>2. CASE KeptCheckpoint /\ EndSession
      BY <1>9, <2>2, KeptCheckpointKeeps, BackedEnd DEF ForcedClear
    <2> QED
      BY <1>9, <2>1, <2>2 DEF ForcedClear
  <1>10. CASE ResetControl
    BY <1>10, <1>t, <1>f, ClearControlKeeps, BackedKept DEF ResetControl, Planned
  <1>11. CASE FirstCheckpoint
    <2>1. HasRun' /\ ckpt'.run = run /\ ckpt'.done = done
      BY <1>11, <1>t, <1>p, ReplaceCheckpointEffect DEF FirstCheckpoint, TypeOK, Planned
    <2> QED
      BY <1>11, <1>f, <2>1
         DEF FirstCheckpoint, Backed, CheckpointBackedByHistory, Committed, Planned
  <1>12. CASE BeginFails
    <2>1. CASE UNCHANGED storeVars
      BY <1>12, <1>f, <2>1, StoreKept, BackedKept DEF BeginFails, Planned
    <2>2. CASE ReplaceCheckpoint(run, life, base, done)
      <3>1. HasRun' /\ ckpt'.run = run /\ ckpt'.done = done
        BY <1>12, <1>t, <1>p, <2>2, ReplaceCheckpointEffect DEF BeginFails, TypeOK, Planned
      <3> QED
        BY <1>12, <1>f, <3>1
           DEF BeginFails, Backed, CheckpointBackedByHistory, Committed, Planned
    <2> QED
      BY <1>12, <2>1, <2>2 DEF BeginFails
  <1> QED
    BY <1>1, <1>2, <1>3, <1>4, <1>5, <1>6, <1>7, <1>8, <1>9, <1>10, <1>11, <1>12

(* A row is appended before the step is counted. *)
LEMMA BackedAppend ==
    ASSUME TypeInv, Backed, NEW w \in Workers, wpc[w] = "append", AppendResult(w),
           NEW p \in {"commit", "free"}, Move(w, p),
           UNCHANGED <<storeVars, pc, run, done>>
    PROVE  Backed'
  <1>1. pc = "exec" /\ job[w] \in Steps /\ res[w] \in Outcome /\ run \in Runs /\ hist \in Seq(Row)
    BY DEF TypeInv, TypeOK, PlacesTypeOK, Planned
  <1>2. /\ \A r \in Runs : Committed(r) \subseteq StepsOf(hist', r)
        /\ job[w] \in StepsOf(hist', run)
    BY <1>1, AppendGrows
  <1>3. CheckpointBackedByHistory'
    <2> SUFFICES ASSUME HasRun PROVE ckpt.done \subseteq StepsOf(hist', ckpt.run)
      BY DEF CheckpointBackedByHistory, HasRun, storeVars, Committed
    <2>1. ckpt.run \in Runs
      BY CheckpointIsRecord DEF TypeInv, TypeOK
    <2> QED
      BY <1>2, <2>1 DEF Backed, CheckpointBackedByHistory
  <1>4. \A v \in Workers : wpc'[v] = "commit" => (v = w \/ wpc[v] = "commit") /\ job'[v] = job[v]
    BY MoveType DEF WorkerPlace, Locked
  <1> QED
    BY <1>1, <1>2, <1>3, <1>4 DEF Backed, Committed, Planned

(* Counting a step whose row is durable. *)
LEMMA BackedCount ==
    ASSUME TypeInv, Backed, NEW w \in Workers, wpc[w] = "commit", CountResult(w),
           UNCHANGED <<hist, pc, run, life, base, action>>, Move(w, "free"),
           \/ UNCHANGED storeVars
           \/ ReplaceCheckpoint(run, life, PersistedMetadata, done')
    PROVE  Backed'
  <1>1. /\ pc = "exec" /\ job[w] \in Steps /\ run \in Runs /\ life \in Lifecycle
        /\ PersistedMetadata \in Metadata
    BY DEF TypeInv, TypeOK, PlacesTypeOK, Planned, PersistedMetadata, Metadata, Status
  <1>2. done' \subseteq Steps /\ done' \subseteq Committed(run)
    BY <1>1, CountResultType DEF Backed, CountResult, Planned
  <1>3. \A v \in Workers : wpc'[v] = "commit" => wpc[v] = "commit" /\ job'[v] = job[v]
    BY MoveType DEF WorkerPlace
  <1>4. CASE UNCHANGED storeVars
    BY <1>1, <1>2, <1>3, <1>4
       DEF Backed, CheckpointBackedByHistory, HasRun, storeVars, Committed, Planned
  <1>5. CASE ReplaceCheckpoint(run, life, PersistedMetadata, done')
    <2>1. HasRun' /\ ckpt'.run = run /\ ckpt'.done = done'
      BY <1>1, <1>2, <1>5, ReplaceCheckpointEffect DEF TypeInv, TypeOK
    <2> QED
      BY <1>1, <1>2, <1>3, <2>1
         DEF Backed, CheckpointBackedByHistory, Committed, Planned
  <1> QED
    BY <1>4, <1>5

(* The workers. *)
LEMMA BackedWork ==
    ASSUME TypeInv, Backed, NEW w \in Workers,
           Worker(w) \/ JobRaises(w) \/ EntryFails(w) \/ LockedSectionFails(w)
    PROVE  Backed'
  <1> USE DEF fileVars, storeVars, procVars, planVars, execVars, WorkerPlace, Locked
  <1>t. TypeOK /\ StoreTypeOK
    BY DEF TypeInv, TypeOK
  <1>e. wpc[w] # "free" => pc = "exec" /\ run \in Runs
    BY DEF TypeInv, PlacesTypeOK, Planned
  <1>a. \A a : AfterPoll(w, a) \in {"starting", "append", "free"}
    BY DEF AfterPoll
  <1>1. CASE TakeJob(w)
    <2>1. pc = "exec" /\ wpc'[w] # "commit"
      BY <1>1, <1>t DEF TakeJob, TypeOK
    <2>2. \A v \in Workers : v # w => wpc'[v] = wpc[v] /\ job'[v] = job[v]
      BY <1>1, <1>t DEF TakeJob, TypeOK
    <2> QED
      BY <1>1, <2>1, <2>2, StoreKept, BackedKept DEF TakeJob, Planned
  <1>2. CASE NotStarted(w) \/ StartJob(w)
    BY <1>2, <1>e, PersistRunEffect, BackedWorker DEF NotStarted, StartJob
  <1>3. CASE EntryFails(w) \/ JobRaises(w)
    BY <1>3, <1>e, StoreKept, EntryFailsKeeps, BackedWorker DEF EntryFails, JobRaises
  <1>4. CASE TryStart(w) \/ FinishJob(w)
    BY <1>4, <1>e, PollTyped, BackedWorker DEF TryStart, FinishJob
  <1>5. CASE JobReturns(w)
    <2>1. wpc[w] = "running" /\ pc = "exec"
      BY <1>5, <1>e DEF JobReturns
    <2>2. \A v \in Workers : wpc'[v] = "commit" => wpc[v] = "commit"
      BY <1>5, <1>t DEF JobReturns, TypeOK
    <2> QED
      BY <1>5, <2>1, <2>2, StoreKept, BackedKept DEF JobReturns, Planned
  <1>6. CASE FailJob(w)
    BY <1>6, <1>e, StoreKept, PersistRunEffect, BackedWorker DEF FailJob
  <1>7. CASE AppendRow(w)
    BY <1>7, BackedAppend DEF AppendRow
  <1>8. CASE Commit(w)
    BY <1>8, BackedCount DEF Commit
  <1>9. CASE ControlMetadata(w)
    BY <1>9, <1>e, StoreKept, BackedWorker DEF ControlMetadata
  <1>10. CASE PauseCheckpoint(w)
    <2>1. CheckpointKept \/ (HasRun' => HasRun /\ ckpt'.run = ckpt.run /\ ckpt'.done = ckpt.done)
      BY <1>10, <1>t, MetadataTypes, UpdateRunMetadataEffect DEF PauseCheckpoint
    <2>2. pc = "exec" /\ \A v \in Workers : wpc'[v] = "commit" => wpc[v] = "commit" /\ job'[v] = job[v]
      BY <1>10, <1>e, MoveType DEF PauseCheckpoint
    <2> QED
      BY <1>10, <2>1, <2>2
         DEF PauseCheckpoint, Backed, CheckpointBackedByHistory, CheckpointKept, Committed, Planned
  <1>11. CASE PauseLifecycle(w)
    <2>1. HasRun' => HasRun /\ ckpt'.run = ckpt.run /\ ckpt'.done = ckpt.done
      BY <1>11, <1>t, UpdateRuntimeStateEffect DEF PauseLifecycle, TypeOK
    <2>2. pc = "exec" /\ \A v \in Workers : wpc'[v] = "commit" => wpc[v] = "commit" /\ job'[v] = job[v]
      BY <1>11, <1>e, <1>a, MoveType DEF PauseLifecycle
    <2> QED
      BY <1>11, <2>1, <2>2
         DEF PauseLifecycle, Backed, CheckpointBackedByHistory, Committed, Planned
  <1>12. CASE StopClear(w)
    BY <1>12, <1>t, <1>e, <1>a, ClearForRunKeeps, BackedWorker DEF StopClear
  <1>13. CASE LockedSectionFails(w)
    <2>1. CASE UNCHANGED <<storeVars, hist, done, consec>>
      BY <1>13, <1>e, <2>1, StoreKept, BackedWorker DEF LockedSectionFails
    <2>2. CASE wpc[w] = "starting" /\ PersistRun /\ UNCHANGED <<hist, done, consec>>
      BY <1>13, <1>e, <2>2, PersistRunEffect, BackedWorker DEF LockedSectionFails
    <2>3. CASE wpc[w] = "append" /\ AppendResult(w) /\ UNCHANGED <<storeVars, done, consec>>
      BY <1>13, <2>3, BackedAppend DEF LockedSectionFails
    <2>4. CASE /\ wpc[w] = "commit"
               /\ CountResult(w)
               /\ \/ UNCHANGED storeVars
                  \/ ReplaceCheckpoint(run, life, PersistedMetadata, done')
               /\ UNCHANGED hist
      BY <1>13, <2>4, BackedCount DEF LockedSectionFails
    <2>5. CASE KeptCheckpoint /\ UNCHANGED <<hist, done, consec>>
      BY <1>13, <1>e, <2>5, KeptCheckpointKeeps, BackedWorker DEF LockedSectionFails
    <2> QED
      BY <1>13, <2>1, <2>2, <2>3, <2>4, <2>5 DEF LockedSectionFails
  <1> QED
    BY <1>1, <1>2, <1>3, <1>4, <1>5, <1>6, <1>7, <1>8, <1>9, <1>10, <1>11, <1>12, <1>13
       DEF Worker

(* The end of a scan. *)
LEMMA BackedFinish ==
    ASSUME TypeInv, Backed,
           \/ WrapUp \/ SaveCompletedMetadata \/ RetainCheckpoint \/ FinishFails
           \/ CommitSnapshot \/ FailMetadata \/ FailCheckpoint \/ FailLifecycle
           \/ FailureHandlingFails \/ Crash
    PROVE  Backed'
  <1> USE DEF fileVars, storeVars, planVars, execVars, workerVars, Goto
  <1>t. TypeOK /\ StoreTypeOK
    BY DEF TypeInv, TypeOK
  <1>f. pc # "exec" => \A w \in Workers : wpc[w] # "commit"
    BY DEF TypeInv, PlacesTypeOK
  <1>p. pc \in Planned => run \in Runs
    BY DEF TypeInv, PlacesTypeOK
  <1>1. CASE WrapUp
    <2>1. CheckpointKept
      BY <1>1, StoreKept DEF WrapUp
    <2>2. CASE EndSession
      BY <1>1, <2>1, <2>2, BackedEnd DEF WrapUp
    <2>3. CASE pc' \in {"x_meta", "k_meta"} /\ UNCHANGED <<run, done, wpc, job>>
      BY <1>1, <2>1, <2>3, BackedKept DEF WrapUp, Drained, Planned
    <2> QED
      BY <1>1, <2>2, <2>3 DEF WrapUp
  <1>2. CASE SaveCompletedMetadata \/ FailMetadata
    BY <1>2, <1>f, StoreKept, BackedKept DEF SaveCompletedMetadata, FailMetadata, Planned
  <1>3. CASE RetainCheckpoint
    <2>1. HasRun' /\ ckpt'.run = run /\ ckpt'.done = done
      BY <1>3, <1>t, <1>p, MetadataTypes, ReplaceCheckpointEffect
         DEF RetainCheckpoint, TypeOK, Planned
    <2>2. pc = "k_ckpt" /\ UNCHANGED hist
      BY <1>3 DEF RetainCheckpoint
    <2>3. done \subseteq Committed(run)
      BY <2>2 DEF Backed, Planned
    <2>4. CheckpointBackedByHistory'
      BY <2>1, <2>2, <2>3 DEF CheckpointBackedByHistory, Committed
    <2>5. CASE EndSession
      BY <2>4, <2>5 DEF EndSession, Backed, Planned
    <2>6. CASE pc' = "commit" /\ UNCHANGED <<run, done, wpc>>
      BY <1>f, <2>2, <2>3, <2>4, <2>6 DEF Backed, Committed, Planned
    <2> QED
      BY <1>3, <2>5, <2>6 DEF RetainCheckpoint
  <1>4. CASE FinishFails
    <2>1. CASE UNCHANGED storeVars
      BY <1>4, <1>f, <2>1, StoreKept, BackedKept DEF FinishFails, Planned
    <2>2. CASE pc = "k_ckpt" /\ ReplaceCheckpoint(run, RetainedLifecycle, CompletedMetadata, done)
      <3>1. HasRun' /\ ckpt'.run = run /\ ckpt'.done = done
        BY <1>t, <1>p, <2>2, MetadataTypes, ReplaceCheckpointEffect DEF TypeOK, Planned
      <3> QED
        BY <1>4, <1>f, <3>1
           DEF FinishFails, Backed, CheckpointBackedByHistory, Committed, Planned
    <2> QED
      BY <1>4, <2>1, <2>2 DEF FinishFails
  <1>5. CASE CommitSnapshot
    <2>1. CheckpointKept
      BY <1>5, <1>t, StoreKept, ClearForRunKeeps, KeptCheckpointKeeps DEF CommitSnapshot
    <2> QED
      BY <1>5, <2>1, BackedEnd DEF CommitSnapshot
  <1>6. CASE FailCheckpoint
    <2>1. HasRun' => HasRun /\ ckpt'.run = ckpt.run /\ ckpt'.done = ckpt.done
      BY <1>6, <1>t, MetadataTypes, UpdateRunMetadataEffect DEF FailCheckpoint
    <2> QED
      BY <1>6, <1>f, <2>1
         DEF FailCheckpoint, Backed, CheckpointBackedByHistory, Committed, Planned
  <1>7. CASE FailLifecycle
    <2>1. HasRun' => HasRun /\ ckpt'.run = ckpt.run /\ ckpt'.done = ckpt.done
      BY <1>7, <1>t, UpdateRuntimeStateEffect DEF FailLifecycle, Lifecycle
    <2> QED
      BY <1>7, <2>1
         DEF FailLifecycle, EndSession, Backed, CheckpointBackedByHistory, Committed, Planned
  <1>8. CASE FailureHandlingFails \/ Crash
    BY <1>8, StoreKept, BackedEnd DEF FailureHandlingFails, Crash
  <1> QED
    BY <1>1, <1>2, <1>3, <1>4, <1>5, <1>6, <1>7, <1>8

(* The commands of other processes write no progress. *)
LEMMA OthersKeepCheckpoint ==
    ASSUME TypeInv,
           \/ \E s \in Requesters : RequestControl("pause", s)
           \/ RequestControl("stop", NoSession)
           \/ Dismiss
    PROVE  CheckpointKept
  <1> USE DEF fileVars, storeVars
  <1>t. StoreTypeOK
    BY DEF TypeInv, TypeOK
  <1>1. ASSUME NEW a \in Control, NEW s \in Sessions \cup {NoSession}, RequestControl(a, s)
        PROVE  CheckpointKept
    BY <1>t, <1>1, RequestControlKeeps DEF RequestControl
  <1>2. CASE DismissCheckLock \/ DismissLoad \/ DismissMetadata
    BY <1>2, StoreKept DEF DismissCheckLock, DismissLoad, DismissMetadata
  <1>3. CASE DismissClear
    BY <1>t, <1>3, ClearEffect, ClearForRunKeeps DEF DismissClear, CheckpointKept
  <1> QED
    BY <1>1, <1>2, <1>3, SessionAssumption DEF Dismiss, Control

LEMMA BackedOthers ==
    ASSUME TypeInv, Backed,
           \/ \E s \in Requesters : RequestControl("pause", s)
           \/ RequestControl("stop", NoSession)
           \/ Dismiss
    PROVE  Backed'
  <1> USE DEF fileVars, storeVars, procVars, planVars, execVars, workerVars
  <1>1. UNCHANGED <<hist, pc, run, done, wpc, job>>
    BY DEF RequestControl, Dismiss, DismissCheckLock, DismissLoad, DismissMetadata, DismissClear
  <1>2. \A w \in Workers : wpc[w] = "commit" => pc = "exec"
    BY DEF TypeInv, PlacesTypeOK
  <1> QED
    BY <1>1, <1>2, OthersKeepCheckpoint, BackedKept DEF Backed, Planned

LEMMA BackedStep == TypeInv /\ Backed /\ [Next]_vars => Backed'
  <1> SUFFICES ASSUME TypeInv, Backed, [Next]_vars PROVE Backed'
    OBVIOUS
  <1>1. CASE UNCHANGED vars
    BY <1>1 DEF vars, fileVars, storeVars, procVars, planVars, execVars, workerVars, Backed,
                CheckpointBackedByHistory, HasRun, Committed
  <1>2. CASE Command
    BY <1>2, BackedBegin, BackedOthers DEF Command
  <1>3. CASE ScanProcess
    BY <1>3, BackedBegin, BackedFinish DEF ScanProcess
  <1>4. CASE \E w \in Workers : Worker(w)
    BY <1>4, BackedWork
  <1>5. CASE Dismiss
    BY <1>5, BackedOthers
  <1>6. CASE Fault
    BY <1>6, BackedBegin, BackedWork, BackedFinish DEF Fault
  <1> QED
    BY <1>1, <1>2, <1>3, <1>4, <1>5, <1>6 DEF Next

(* The progress a checkpoint shows is never ahead of the durable results.   *)
THEOREM ProgressIsBacked == Spec => []CheckpointBackedByHistory
  <1>1. TypeInv /\ Backed /\ [Next]_vars => TypeInv' /\ Backed'
    BY TypeStep, BackedStep
  <1>2. Backed => CheckpointBackedByHistory
    BY DEF Backed
  <1> QED
    BY InitTyped, InitBacked, <1>1, <1>2, PTL DEF Spec

-----------------------------------------------------------------------------
(* A checkpoint in finalizing can be recovered.                            *)

(* A step that keeps the progress of the checkpoint. *)
LEMMA EvidentKept ==
    ASSUME Evident, CheckpointKept,
           life' = "finalizing" => pc' = "commit",
           pc' \in BeforeFinalizing => pc \in BeforeFinalizing \/ ~Finalizing
    PROVE  Evident'
  BY DEF Evident, FinalizingHasEvidence, Finalizing, Evidence, CheckpointKept

(* A step that leaves a checkpoint which is not in finalizing, or none. *)
LEMMA EvidentOther ==
    ASSUME HasRun' => ckpt'.life # "finalizing",
           life' = "finalizing" => pc' = "commit"
    PROVE  Evident'
  BY DEF Evident, FinalizingHasEvidence, Finalizing, Evidence

(* Starting, recovering, planning and beginning. *)
LEMMA EvidentBegin ==
    ASSUME TypeInv, Evident,
           \/ \E k \in Kind : Start(k)
           \/ \E s \in Sessions : AutoResumeDecide(s)
           \/ AutoResumeClaim \/ Recover \/ RecoverFails
           \/ \E r \in Runs : PlanFresh(r)
           \/ PlanResume \/ PlanRejected \/ ForcedClear \/ ResetControl
           \/ FirstCheckpoint \/ BeginFails
    PROVE  Evident'
  <1> USE DEF Goto, fileVars, storeVars, BeforeFinalizing
  <1>t. TypeOK /\ StoreTypeOK
    BY DEF TypeInv, TypeOK
  <1>l. life = "finalizing" => pc = "commit"
    BY DEF Evident
  <1>p. pc \in Planned => run \in Runs /\ base \in Metadata
    BY DEF TypeInv, PlacesTypeOK
  <1>1. CASE (\E k \in Kind : Start(k)) \/ (\E s \in Sessions : AutoResumeDecide(s))
    BY <1>1, <1>l, StoreKept, EvidentKept DEF Start, AutoResumeDecide
  <1>2. CASE AutoResumeClaim
    <2>1. CheckpointKept
      BY <1>2, <1>t, ClaimAutoResumeKeeps DEF AutoResumeClaim, TypeInv, PlacesTypeOK
    <2> QED
      BY <1>2, <1>l, <2>1, EvidentKept DEF AutoResumeClaim, EndSession
  <1>3. CASE Recover
    <2>1. CASE Finalizing /\ Evidence
      <3>1. Clear
        BY <1>3, <2>1 DEF Recover, Finalizing, ClearForRun, ActiveRun
      <3> QED
        BY <1>3, <1>l, <1>t, <3>1, ClearEffect, EvidentOther DEF Recover, EndSession
    <2>2. CASE ~Finalizing
      BY <1>3, <1>l, <2>2, StoreKept, EvidentKept DEF Recover, EndSession
    <2> QED
      BY <2>1, <2>2 DEF Evident, FinalizingHasEvidence
  <1>4. CASE RecoverFails
    BY <1>4, KeptCheckpointKeeps, EvidentKept DEF RecoverFails, EndSession
  <1>5. CASE (\E r \in Runs : PlanFresh(r)) \/ PlanResume
    BY <1>5, <1>l, StoreKept, EvidentKept DEF PlanFresh, PlanResume
  <1>6. CASE PlanRejected
    BY <1>6, StoreKept, EvidentKept DEF PlanRejected, EndSession
  <1>7. CASE ForcedClear
    <2>1. CheckpointKept
      BY <1>7, <1>t, ClearEffect, KeptCheckpointKeeps DEF ForcedClear, CheckpointKept
    <2> QED
      BY <1>7, <1>l, <2>1, EvidentKept DEF ForcedClear, EndSession
  <1>8. CASE ResetControl
    BY <1>8, <1>t, ClearControlKeeps, EvidentKept DEF ResetControl
  <1>9. CASE FirstCheckpoint
    BY <1>9, <1>t, <1>p, <1>l, ReplaceCheckpointEffect, EvidentOther
       DEF FirstCheckpoint, TypeOK, Planned
  <1>10. CASE BeginFails
    <2>1. CASE UNCHANGED storeVars
      BY <1>10, <1>l, <2>1, StoreKept, EvidentKept DEF BeginFails
    <2>2. CASE ReplaceCheckpoint(run, life, base, done)
      BY <1>10, <1>t, <1>p, <1>l, <2>2, ReplaceCheckpointEffect, EvidentOther
         DEF BeginFails, TypeOK, Planned
    <2> QED
      BY <1>10, <2>1, <2>2 DEF BeginFails
  <1> QED
    BY <1>1, <1>2, <1>3, <1>4, <1>5, <1>6, <1>7, <1>8, <1>9, <1>10

(* The workers, none of which ever writes finalizing. *)
LEMMA EvidentWork ==
    ASSUME TypeInv, Evident, NEW w \in Workers,
           Worker(w) \/ JobRaises(w) \/ EntryFails(w) \/ LockedSectionFails(w)
    PROVE  Evident'
  <1> USE DEF fileVars, storeVars, procVars, planVars, BeforeFinalizing
  <1>t. TypeOK /\ StoreTypeOK
    BY DEF TypeInv, TypeOK
  <1>e. pc = "exec" /\ run \in Runs /\ PersistedMetadata \in Metadata
    BY DEF TypeInv, PlacesTypeOK, Planned, PersistedMetadata, Metadata, Status, Worker, TakeJob,
           NotStarted, TryStart, StartJob, JobReturns, FailJob, FinishJob, AppendRow, Commit,
           ControlMetadata, PauseCheckpoint, PauseLifecycle, StopClear, JobRaises,
           EntryFails, LockedSectionFails, Locked
  <1>l. life # "finalizing" /\ ~Finalizing
    BY <1>e DEF Evident
  <1>1. CASE CheckpointKept /\ life' # "finalizing"
    BY <1>1, <1>e, EvidentKept
  <1>2. CASE HasRun' /\ ckpt'.life = life /\ life' = life
    BY <1>2, <1>l, EvidentOther
  <1>3. CASE TakeJob(w) \/ JobReturns(w) \/ AppendRow(w) \/ ControlMetadata(w)
             \/ EntryFails(w) \/ JobRaises(w)
    BY <1>1, <1>3, <1>l, StoreKept, EntryFailsKeeps
       DEF TakeJob, JobReturns, AppendRow, ControlMetadata, EntryFails, JobRaises
  <1>4. CASE NotStarted(w) \/ StartJob(w) \/ FailJob(w)
    BY <1>1, <1>2, <1>4, <1>e, <1>l, StoreKept, PersistRunEffect
       DEF NotStarted, StartJob, FailJob
  <1>5. CASE TryStart(w) \/ FinishJob(w)
    BY <1>1, <1>5, <1>l, PollTyped DEF TryStart, FinishJob
  <1>6. CASE Commit(w)
    <2>1. done' \subseteq Steps
      BY <1>6, CountResultType DEF Commit, TypeInv, PlacesTypeOK
    <2> QED
      BY <1>2, <1>6, <1>t, <1>e, <2>1, ReplaceCheckpointEffect DEF Commit, TypeOK
  <1>7. CASE PauseCheckpoint(w)
    <2>1. HasRun' => HasRun /\ ckpt'.life = ckpt.life
      BY <1>7, <1>t, MetadataTypes, UpdateRunMetadataEffect DEF PauseCheckpoint
    <2> QED
      BY <1>7, <1>l, <2>1, EvidentOther DEF PauseCheckpoint, Finalizing
  <1>8. CASE PauseLifecycle(w)
    <2>1. HasRun' => ckpt'.life = life
      BY <1>8, <1>t, UpdateRuntimeStateEffect DEF PauseLifecycle, TypeOK
    <2> QED
      BY <1>8, <1>l, <2>1, EvidentOther DEF PauseLifecycle
  <1>9. CASE StopClear(w)
    BY <1>1, <1>9, <1>t, ClearForRunKeeps DEF StopClear
  <1>10. CASE LockedSectionFails(w)
    <2>1. CASE UNCHANGED storeVars
      BY <1>1, <1>10, <1>l, <2>1, StoreKept DEF LockedSectionFails
    <2>2. CASE wpc[w] = "starting" /\ PersistRun
      BY <1>1, <1>2, <1>10, <1>e, <1>l, <2>2, PersistRunEffect DEF LockedSectionFails
    <2>3. CASE /\ wpc[w] = "commit"
               /\ CountResult(w)
               /\ ReplaceCheckpoint(run, life, PersistedMetadata, done')
      <3>1. done' \subseteq Steps
        BY <2>3, CountResultType DEF TypeInv, PlacesTypeOK
      <3> QED
        BY <1>2, <1>10, <1>t, <1>e, <2>3, <3>1, ReplaceCheckpointEffect
           DEF LockedSectionFails, TypeOK
    <2>4. CASE KeptCheckpoint
      BY <1>1, <1>10, <1>l, <2>4, KeptCheckpointKeeps DEF LockedSectionFails
    <2> QED
      BY <1>10, <2>1, <2>2, <2>3, <2>4 DEF LockedSectionFails
  <1> QED
    BY <1>3, <1>4, <1>5, <1>6, <1>7, <1>8, <1>9, <1>10 DEF Worker

(* The end of a scan: finalizing is written with closed metadata, and       *)
(* whatever rewrites it afterwards writes closed metadata too.              *)
LEMMA EvidentFinish ==
    ASSUME TypeInv, Evident,
           \/ WrapUp \/ SaveCompletedMetadata \/ RetainCheckpoint \/ FinishFails
           \/ CommitSnapshot \/ FailMetadata \/ FailCheckpoint \/ FailLifecycle
           \/ FailureHandlingFails \/ Crash
    PROVE  Evident'
  <1> USE DEF fileVars, storeVars, planVars, Goto, BeforeFinalizing
  <1>t. TypeOK /\ StoreTypeOK
    BY DEF TypeInv, TypeOK
  <1>l. life = "finalizing" => pc = "commit"
    BY DEF Evident
  <1>p. pc \in Planned => run \in Runs
    BY DEF TypeInv, PlacesTypeOK
  <1>1. CASE WrapUp
    BY <1>1, <1>l, StoreKept, EvidentKept DEF WrapUp, Drained, EndSession
  <1>2. CASE SaveCompletedMetadata \/ FailMetadata
    BY <1>2, <1>l, StoreKept, EvidentKept DEF SaveCompletedMetadata, FailMetadata
  <1>3. ASSUME pc = "k_ckpt", ReplaceCheckpoint(run, RetainedLifecycle, CompletedMetadata, done),
               life' = "finalizing" => pc' = "commit", pc' \notin BeforeFinalizing
        PROVE  Evident'
    <2>1. HasRun' /\ ckpt'.meta = CompletedMetadata
      BY <1>3, <1>t, <1>p, MetadataTypes, ReplaceCheckpointEffect DEF TypeOK, Planned
    <2>2. ckpt'.meta.closed
      BY <2>1 DEF CompletedMetadata
    <2> QED
      BY <1>3, <2>2 DEF Evident, FinalizingHasEvidence, Evidence
  <1>4. CASE RetainCheckpoint
    BY <1>3, <1>4 DEF RetainCheckpoint, EndSession
  <1>5. CASE FinishFails
    BY <1>3, <1>5, <1>l, StoreKept, EvidentKept DEF FinishFails
  <1>6. CASE CommitSnapshot
    <2>1. CheckpointKept
      BY <1>6, <1>t, StoreKept, ClearForRunKeeps, KeptCheckpointKeeps DEF CommitSnapshot
    <2> QED
      BY <1>6, <2>1, EvidentKept DEF CommitSnapshot, EndSession
  <1>7. CASE FailCheckpoint
    <2>1. HasRun' => ckpt'.meta = FailedMetadata
      BY <1>7, <1>t, MetadataTypes, UpdateRunMetadataEffect DEF FailCheckpoint
    <2> QED
      BY <1>7, <1>l, <2>1
         DEF FailCheckpoint, FailedMetadata, Evident, FinalizingHasEvidence, Finalizing, Evidence
  <1>8. CASE FailLifecycle
    <2>1. HasRun' => ckpt'.life = "failed"
      BY <1>8, <1>t, UpdateRuntimeStateEffect DEF FailLifecycle, Lifecycle
    <2> QED
      BY <1>8, <2>1, EvidentOther DEF FailLifecycle, EndSession
  <1>9. CASE FailureHandlingFails \/ Crash
    BY <1>9, StoreKept, EvidentKept DEF FailureHandlingFails, Crash, EndSession
  <1> QED
    BY <1>1, <1>2, <1>4, <1>5, <1>6, <1>7, <1>8, <1>9

LEMMA EvidentStep == TypeInv /\ Evident /\ [Next]_vars => Evident'
  <1> SUFFICES ASSUME TypeInv, Evident, [Next]_vars PROVE Evident'
    OBVIOUS
  <1>1. CASE UNCHANGED vars
    BY <1>1 DEF vars, fileVars, storeVars, procVars, Evident, FinalizingHasEvidence,
                Finalizing, Evidence, HasRun
  <1>2. CASE \/ \E s \in Requesters : RequestControl("pause", s)
             \/ RequestControl("stop", NoSession)
             \/ Dismiss
    <2>1. CheckpointKept
      BY <1>2, OthersKeepCheckpoint
    <2>2. UNCHANGED <<pc, life>>
      BY <1>2 DEF RequestControl, Dismiss, DismissCheckLock, DismissLoad, DismissMetadata,
                  DismissClear, procVars
    <2> QED
      BY <2>1, <2>2, EvidentKept DEF Evident
  <1>3. CASE Command
    BY <1>2, <1>3, EvidentBegin DEF Command
  <1>4. CASE ScanProcess
    BY <1>4, EvidentBegin, EvidentFinish DEF ScanProcess
  <1>5. CASE \E w \in Workers : Worker(w)
    BY <1>5, EvidentWork
  <1>6. CASE Fault
    BY <1>6, EvidentBegin, EvidentWork, EvidentFinish DEF Fault
  <1> QED
    BY <1>1, <1>2, <1>3, <1>4, <1>5, <1>6 DEF Next

(* Recovery always finds the evidence it asks for: no crash and no failed   *)
(* write leaves a run in finalizing that cannot be cleared.                 *)
THEOREM FinalizingIsRecoverable == Spec => []FinalizingHasEvidence
  <1>1. TypeInv /\ Evident /\ [Next]_vars => TypeInv' /\ Evident'
    BY TypeStep, EvidentStep
  <1>2. Evident => FinalizingHasEvidence
    BY DEF Evident
  <1> QED
    BY InitTyped, InitEvident, <1>1, <1>2, PTL DEF Spec

-----------------------------------------------------------------------------
(* Progress stays, and no step is committed twice, as long as a resumption *)
(* reads all of the history.                                               *)

(* Every step of a worker is one of the executing process.                  *)
LEMMA WorkerExecutes ==
    ASSUME TypeInv, NEW w \in Workers,
           Worker(w) \/ JobRaises(w) \/ EntryFails(w) \/ LockedSectionFails(w)
    PROVE  pc = "exec" /\ run \in Runs
  BY DEF TypeInv, PlacesTypeOK, Planned, Worker, TakeJob, NotStarted, TryStart, StartJob,
         JobReturns, FailJob, FinishJob, AppendRow, Commit, ControlMetadata, PauseCheckpoint,
         PauseLifecycle, StopClear, JobRaises, EntryFails, LockedSectionFails, Locked

LEMMA WorkStays ==
    ASSUME TypeInv, NEW w \in Workers,
           Worker(w) \/ JobRaises(w) \/ EntryFails(w) \/ LockedSectionFails(w)
    PROVE  pc = "exec" /\ UNCHANGED <<pc, kind, run, sess, autos>>
  <1>1. pc = "exec"
    BY WorkerExecutes
  <1> QED
    BY <1>1 DEF Worker, TakeJob, NotStarted, TryStart, StartJob, JobReturns, FailJob, FinishJob,
                AppendRow, Commit, ControlMetadata, PauseCheckpoint, PauseLifecycle, StopClear,
                JobRaises, EntryFails, LockedSectionFails, procVars, planVars, observed

(* The checkpoint, if there is one afterwards, is of the run it was and     *)
(* shows the same progress; or it is what the executing process writes of   *)
(* its run, which is all it has in memory.                                  *)
ProgressKept == HasRun' => HasRun /\ ckpt'.run = ckpt.run /\ ckpt'.done = ckpt.done

ProgressWritten ==
    /\ pc \in Planned
    /\ HasRun' /\ ckpt'.run = run /\ done \subseteq ckpt'.done
    /\ pc' \in Planned => ckpt'.done \subseteq done'

LEMMA WorkWritesProgress ==
    ASSUME TypeInv, NEW w \in Workers,
           Worker(w) \/ JobRaises(w) \/ EntryFails(w) \/ LockedSectionFails(w)
    PROVE  ProgressKept \/ ProgressWritten
  <1> USE DEF fileVars, storeVars, procVars, planVars, execVars, WorkerPlace, Locked
  <1>t. TypeOK /\ StoreTypeOK
    BY DEF TypeInv, TypeOK
  <1>e. pc = "exec" /\ pc' = "exec" /\ run \in Runs
    BY WorkerExecutes, WorkStays
  <1>k. CheckpointKept => ProgressKept
    BY DEF CheckpointKept, ProgressKept
  <1>s. UNCHANGED storeVars => ProgressKept
    BY <1>k, StoreKept
  <1>p. ASSUME PersistRun, done' = done PROVE ProgressKept \/ ProgressWritten
    BY <1>e, <1>k, <1>p, PersistRunEffect DEF ProgressWritten, Planned
  <1>1. CASE \/ TakeJob(w) \/ JobReturns(w) \/ JobRaises(w) \/ AppendRow(w) \/ ControlMetadata(w)
    BY <1>1, <1>s DEF TakeJob, JobReturns, JobRaises, AppendRow, ControlMetadata
  <1>2. CASE NotStarted(w) \/ StartJob(w) \/ FailJob(w)
    BY <1>2, <1>p, <1>s DEF NotStarted, StartJob, FailJob
  <1>3. CASE TryStart(w) \/ FinishJob(w)
    BY <1>3, <1>k, PollTyped DEF TryStart, FinishJob
  <1>4. CASE EntryFails(w)
    BY <1>4, <1>k, EntryFailsKeeps
  <1>5. CASE PauseCheckpoint(w)
    BY <1>5, <1>t, MetadataTypes, UpdateRunMetadataEffect DEF PauseCheckpoint, ProgressKept
  <1>6. CASE PauseLifecycle(w)
    BY <1>6, <1>t, UpdateRuntimeStateEffect DEF PauseLifecycle, ProgressKept, TypeOK
  <1>7. CASE StopClear(w)
    BY <1>7, <1>t, <1>k, ClearForRunKeeps DEF StopClear
  <1>c. ASSUME wpc[w] = "commit", CountResult(w), ReplaceCheckpoint(run, life, PersistedMetadata, done')
        PROVE  ProgressWritten
    <2>1. job[w] \in Steps /\ life \in Lifecycle /\ PersistedMetadata \in Metadata
      BY <1>c, <1>t, <1>e
         DEF TypeInv, TypeOK, PlacesTypeOK, Planned, PersistedMetadata, Metadata, Status
    <2>2. done' \in SUBSET Steps /\ done \subseteq done'
      BY <1>c, <2>1, CountResultType DEF CountResult
    <2>3. HasRun' /\ ckpt'.run = run /\ ckpt'.done = done'
      BY <1>c, <1>t, <1>e, <2>1, <2>2, ReplaceCheckpointEffect
    <2> QED
      BY <1>e, <2>2, <2>3 DEF ProgressWritten, Planned
  <1>8. CASE Commit(w)
    BY <1>8, <1>c DEF Commit
  <1>9. CASE LockedSectionFails(w)
    BY <1>9, <1>c, <1>k, <1>p, <1>s, KeptCheckpointKeeps DEF LockedSectionFails
  <1> QED
    BY <1>1, <1>2, <1>3, <1>4, <1>5, <1>6, <1>7, <1>8, <1>9 DEF Worker

LEMMA ScanWritesProgress ==
    ASSUME TypeInv, [Next]_vars
    PROVE  ProgressKept \/ ProgressWritten
  <1> USE DEF fileVars, storeVars
  <1>t. TypeOK /\ StoreTypeOK
    BY DEF TypeInv, TypeOK
  <1>k. CheckpointKept => ProgressKept
    BY DEF CheckpointKept, ProgressKept
  <1>s. UNCHANGED storeVars => ProgressKept
    BY <1>k, StoreKept
  <1>r. ASSUME NEW l \in Lifecycle, NEW m \in Metadata, ReplaceCheckpoint(run, l, m, done),
               pc \in Planned, pc' \in Planned => done' = done
        PROVE  ProgressWritten
    <2>1. run \in Runs /\ done \in SUBSET Steps
      BY <1>r, <1>t DEF TypeInv, TypeOK, PlacesTypeOK
    <2>2. HasRun' /\ ckpt'.run = run /\ ckpt'.done = done
      BY <1>r, <1>t, <2>1, ReplaceCheckpointEffect
    <2> QED
      BY <1>r, <2>2 DEF ProgressWritten
  <1>m. /\ pc \in Planned => base \in Metadata /\ life \in Lifecycle
        /\ CompletedMetadata \in Metadata /\ RetainedLifecycle \in Lifecycle
    BY <1>t, MetadataTypes DEF TypeInv, TypeOK, PlacesTypeOK
  <1>1. CASE UNCHANGED vars
    BY <1>1, <1>s DEF vars
  <1>2. CASE Command \/ Dismiss
    <2>1. CASE (\E k \in Kind : Start(k)) \/ \E s \in Sessions : AutoResumeDecide(s)
      BY <1>s, <2>1 DEF Start, AutoResumeDecide
    <2>2. CASE \/ \E s \in Requesters : RequestControl("pause", s)
               \/ RequestControl("stop", NoSession)
               \/ Dismiss
      BY <1>k, <2>2, OthersKeepCheckpoint
    <2> QED
      BY <1>2, <2>1, <2>2 DEF Command
  <1>3. CASE \E w \in Workers : Worker(w) \/ JobRaises(w) \/ EntryFails(w) \/ LockedSectionFails(w)
    BY <1>3, WorkWritesProgress
  <1>4. CASE AutoResumeClaim
    BY <1>4, <1>t, <1>k, ClaimAutoResumeKeeps DEF AutoResumeClaim, TypeInv, PlacesTypeOK
  <1>5. CASE Recover \/ CommitSnapshot
    BY <1>5, <1>t, <1>k, <1>s, ClearForRunKeeps, KeptCheckpointKeeps DEF Recover, CommitSnapshot
  <1>6. CASE \/ \E r \in Runs : PlanFresh(r)
             \/ PlanResume \/ PlanRejected \/ WrapUp \/ SaveCompletedMetadata \/ FailMetadata
             \/ FailureHandlingFails \/ Crash
    BY <1>6, <1>s
       DEF PlanFresh, PlanResume, PlanRejected, WrapUp, SaveCompletedMetadata, FailMetadata,
           FailureHandlingFails, Crash
  <1>7. CASE ForcedClear \/ RecoverFails
    BY <1>7, <1>t, <1>k, ClearEffect, KeptCheckpointKeeps
       DEF ForcedClear, RecoverFails, ProgressKept
  <1>8. CASE ResetControl
    BY <1>8, <1>t, <1>k, ClearControlKeeps DEF ResetControl
  <1>9. CASE FirstCheckpoint \/ BeginFails
    <2>1. pc \in Planned /\ done' = done
      BY <1>9 DEF FirstCheckpoint, BeginFails, Planned, execVars
    <2> QED
      BY <1>9, <1>m, <1>r, <1>s, <2>1 DEF FirstCheckpoint, BeginFails
  <1>10. CASE RetainCheckpoint \/ FinishFails
    <2>1. pc \in Planned /\ (pc' \in Planned => done' = done)
      BY <1>10 DEF RetainCheckpoint, FinishFails, Planned, execVars, EndSession
    <2> QED
      BY <1>10, <1>m, <1>r, <1>s, <2>1 DEF RetainCheckpoint, FinishFails
  <1>11. CASE FailCheckpoint
    BY <1>11, <1>t, MetadataTypes, UpdateRunMetadataEffect DEF FailCheckpoint, ProgressKept
  <1>12. CASE FailLifecycle
    BY <1>12, <1>t, UpdateRuntimeStateEffect DEF FailLifecycle, ProgressKept, Lifecycle
  <1> QED
    BY <1>1, <1>2, <1>3, <1>4, <1>5, <1>6, <1>7, <1>8, <1>9, <1>10, <1>11, <1>12
       DEF Next, ScanProcess, Fault

(* A process that has a plan keeps it, or has just made it.                 *)
LEMMA PlanMoves ==
    ASSUME TypeInv, [Next]_vars
    PROVE  /\ used \subseteq used'
           /\ pc' \in Planned =>
                 \/ pc \in Planned /\ run' = run /\ done \subseteq done'
                 \/ PlanResume
                 \/ \E r \in Runs : PlanFresh(r)
  <1> USE DEF procVars, planVars, execVars, Goto
  <1>1. CASE UNCHANGED vars
    BY <1>1 DEF vars
  <1>2. CASE \E w \in Workers : Worker(w) \/ JobRaises(w) \/ EntryFails(w) \/ LockedSectionFails(w)
    <2> PICK w \in Workers : Worker(w) \/ JobRaises(w) \/ EntryFails(w) \/ LockedSectionFails(w)
      BY <1>2
    <2>1. pc = "exec" /\ pc' = "exec" /\ run' = run
      BY WorkStays
    <2>2. used' = used /\ done \subseteq done'
      BY <2>1
         DEF Worker, TakeJob, NotStarted, TryStart, StartJob, JobReturns, FailJob, FinishJob,
             AppendRow, Commit, ControlMetadata, PauseCheckpoint, PauseLifecycle, StopClear,
             JobRaises, EntryFails, LockedSectionFails, CountResult, observed
    <2> QED
      BY <2>1, <2>2 DEF Planned
  <1>3. CASE Command \/ Dismiss
    BY <1>3 DEF Command, Start, AutoResumeDecide, RequestControl, Dismiss, DismissCheckLock,
                DismissLoad, DismissMetadata, DismissClear, observed, Planned
  <1>4. CASE ScanProcess
    BY <1>4
       DEF ScanProcess, AutoResumeClaim, Recover, PlanFresh, PlanRejected, PlanResume, ForcedClear,
           ResetControl, FirstCheckpoint, WrapUp, Drained, SaveCompletedMetadata, RetainCheckpoint,
           CommitSnapshot, FailMetadata, FailCheckpoint, FailLifecycle, EndSession, observed,
           Planned
  <1>5. CASE RecoverFails \/ BeginFails \/ FinishFails \/ FailureHandlingFails \/ Crash
    BY <1>5 DEF RecoverFails, BeginFails, FinishFails, FailureHandlingFails, Crash, EndSession,
                observed, Planned
  <1> QED
    BY <1>1, <1>2, <1>3, <1>4, <1>5 DEF Next, Fault

WindowSuffices == Len(hist) <= ResumeWindow

(* What is still to be committed is not committed, and is held once.        *)
Once ==
    /\ NoStepCommittedTwice
    /\ pc = "exec" =>
          /\ \A s \in queue : s \notin Committed(run)
          /\ \A w \in Workers : wpc[w] # "free" =>
                /\ job[w] \notin queue
                /\ wpc[w] # "commit" => job[w] \notin Committed(run)
          /\ \A v, w \in Workers : v # w /\ wpc[v] # "free" /\ wpc[w] # "free" => job[v] # job[w]

LEMMA WindowReadsAll ==
    ASSUME TypeInv, WindowSuffices, NEW r
    PROVE  Recent(r) = Committed(r)
  <1>1. \A k \in DOMAIN hist : k + ResumeWindow > Len(hist)
    BY SessionAssumption DEF TypeInv, TypeOK, WindowSuffices
  <1> QED
    BY <1>1 DEF Recent, Committed, StepsOf

LEMMA AppendCommits ==
    ASSUME TypeInv, NEW w \in Workers, wpc[w] = "append", AppendResult(w)
    PROVE  /\ Len(hist) + 1 \notin DOMAIN hist
           /\ DOMAIN hist' = DOMAIN hist \cup {Len(hist) + 1}
           /\ hist'[Len(hist) + 1].run = run /\ hist'[Len(hist) + 1].step = job[w]
           /\ \A i \in DOMAIN hist : hist'[i] = hist[i]
           /\ StepsOf(hist', run) = Committed(run) \cup {job[w]}
  <1> DEFINE row == [run |-> run, step |-> job[w], kind |-> res[w]]
  <1>1. hist \in Seq(Row) /\ row \in Row
    BY DEF TypeInv, TypeOK, PlacesTypeOK, Planned, Row
  <1>2. hist' = Append(hist, row) /\ row.run = run /\ row.step = job[w]
    BY DEF AppendResult
  <1>3. /\ DOMAIN hist' = DOMAIN hist \cup {Len(hist) + 1} /\ Len(hist) + 1 \notin DOMAIN hist
        /\ hist'[Len(hist) + 1] = row
        /\ \A i \in DOMAIN hist : hist'[i] = hist[i]
    <2> HIDE DEF row
    <2> QED
      BY <1>1, <1>2
  <1>4. StepsOf(hist', run) = Committed(run) \cup {job[w]}
    BY <1>2, <1>3 DEF Committed, StepsOf
  <1> QED
    BY <1>2, <1>3, <1>4

LEMMA OnceElsewhere ==
    ASSUME Once, UNCHANGED hist, pc' # "exec"
    PROVE  Once'
  BY DEF Once, NoStepCommittedTwice

(* A step of a worker that commits nothing.                                 *)
LEMMA OnceMoves ==
    ASSUME TypeInv, Once, pc = "exec", NEW w \in Workers, NEW p \in WorkerPlace, Move(w, p),
           UNCHANGED <<hist, pc, run>>, queue' \subseteq queue,
           p = "free" \/ wpc[w] \notin {"free", "commit"}
    PROVE  Once'
  <1>1. /\ wpc'[w] = p /\ (p # "free" => job'[w] = job[w])
        /\ \A v \in Workers : v # w => wpc'[v] = wpc[v] /\ job'[v] = job[v]
    BY MoveType DEF Move
  <1>2. \A r : Committed(r)' = Committed(r)
    BY DEF Committed, StepsOf
  <1>3. NoStepCommittedTwice'
    BY DEF Once, NoStepCommittedTwice
  <1>4. StepsOf(hist', run') = Committed(run)
    BY DEF Committed
  <1>5. \A s \in queue' : s \notin StepsOf(hist', run')
    BY <1>4 DEF Once
  <1>6. \A v \in Workers : wpc'[v] # "free" =>
          job'[v] = job[v] /\ wpc[v] # "free" /\ (wpc'[v] # "commit" => wpc[v] # "commit")
    BY <1>1
  <1> QED
    BY <1>3, <1>4, <1>5, <1>6 DEF Once, Committed

LEMMA OnceTakes ==
    ASSUME TypeInv, Once, NEW w \in Workers, TakeJob(w)
    PROVE  Once'
  <1>1. PICK s \in queue : queue' = queue \ {s} /\ job' = [job EXCEPT ![w] = s]
    BY DEF TakeJob
  <1>2. pc = "exec" /\ wpc[w] = "free" /\ UNCHANGED <<hist, pc, run>>
    BY DEF TakeJob, fileVars, planVars
  <1>3. /\ wpc'[w] \in {"skipping", "taken"} /\ job'[w] = s
        /\ \A v \in Workers : v # w => wpc'[v] = wpc[v] /\ job'[v] = job[v]
    BY <1>1 DEF TakeJob, TypeInv, TypeOK
  <1>4. NoStepCommittedTwice'
    BY <1>2 DEF Once, NoStepCommittedTwice
  <1>5. StepsOf(hist', run') = Committed(run)
    BY <1>2 DEF Committed
  <1> QED
    BY <1>1, <1>2, <1>3, <1>4, <1>5 DEF Once, Committed

LEMMA OnceAppends ==
    ASSUME TypeInv, Once, NEW w \in Workers, wpc[w] = "append", AppendResult(w),
           NEW p \in {"commit", "free"}, Move(w, p), UNCHANGED <<pc, run, queue>>
    PROVE  Once'
  <1>1. /\ wpc'[w] = p /\ (p # "free" => job'[w] = job[w])
        /\ \A v \in Workers : v # w => wpc'[v] = wpc[v] /\ job'[v] = job[v]
    BY MoveType DEF Move, WorkerPlace, Locked
  <1>2. pc = "exec"
    BY DEF TypeInv, PlacesTypeOK
  <1>3. StepsOf(hist', run') = Committed(run) \cup {job[w]}
    BY AppendCommits
  <1>4. job[w] \notin Committed(run)
    BY <1>2 DEF Once
  <1>5. NoStepCommittedTwice'
    <2> SUFFICES ASSUME NEW i \in DOMAIN hist', NEW j \in DOMAIN hist',
                        hist'[i].run = hist'[j].run, hist'[i].step = hist'[j].step
                 PROVE  i = j
      BY DEF NoStepCommittedTwice
    <2>1. \A k \in DOMAIN hist : ~(hist[k].run = run /\ hist[k].step = job[w])
      BY <1>4 DEF Committed, StepsOf
    <2>2. CASE i \in DOMAIN hist /\ j \in DOMAIN hist
      BY <2>2, AppendCommits DEF Once, NoStepCommittedTwice
    <2>3. CASE ~(i \in DOMAIN hist /\ j \in DOMAIN hist)
      BY <2>1, <2>3, AppendCommits
    <2> QED
      BY <2>2, <2>3
  <1>6. \A v \in Workers : wpc'[v] # "free" => job'[v] = job[v] /\ wpc[v] # "free"
    BY <1>1
  <1>7. \A v \in Workers : v # w /\ wpc[v] # "free" => job[v] # job[w]
    BY <1>2 DEF Once
  <1>8. \A s \in queue' : s \notin StepsOf(hist', run')
    BY <1>2, <1>3 DEF Once
  <1>9. \A v \in Workers : wpc'[v] # "free" /\ wpc'[v] # "commit" => job'[v] \notin StepsOf(hist', run')
    BY <1>1, <1>2, <1>3, <1>6, <1>7 DEF Once
  <1> QED
    BY <1>2, <1>5, <1>6, <1>8, <1>9 DEF Once, Committed

LEMMA OnceWork ==
    ASSUME TypeInv, Once, NEW w \in Workers,
           Worker(w) \/ JobRaises(w) \/ EntryFails(w) \/ LockedSectionFails(w)
    PROVE  Once'
  <1> USE DEF fileVars, procVars, planVars, execVars, WorkerPlace, Locked
  <1>e. pc = "exec" /\ UNCHANGED <<pc, run>>
    BY WorkStays
  <1>1. CASE TakeJob(w)
    BY <1>1, OnceTakes
  <1>2. CASE JobReturns(w)
    <2>1. /\ wpc[w] = "running" /\ wpc'[w] = "returned"
          /\ \A v \in Workers : v # w => wpc'[v] = wpc[v]
          /\ UNCHANGED <<hist, pc, run, queue, job>>
      BY <1>2 DEF JobReturns, TypeInv, TypeOK
    <2>2. NoStepCommittedTwice' /\ StepsOf(hist', run') = Committed(run)
      BY <2>1 DEF Once, NoStepCommittedTwice, Committed
    <2> QED
      BY <1>e, <2>1, <2>2 DEF Once, Committed
  <1>3. CASE TryStart(w) \/ FinishJob(w)
    <2>1. /\ \E p \in {"c_meta", "starting", "append", "free"} : Move(w, p)
          /\ wpc[w] \in {"taken", "returned"} /\ UNCHANGED <<hist, queue>>
      BY <1>3, PollTyped DEF TryStart, FinishJob
    <2> QED
      BY <1>e, <2>1, OnceMoves
  <1>4. CASE \/ NotStarted(w) \/ StartJob(w) \/ FailJob(w) \/ Commit(w) \/ ControlMetadata(w)
             \/ PauseCheckpoint(w) \/ JobRaises(w)
    BY <1>4, <1>e, OnceMoves
       DEF NotStarted, StartJob, FailJob, Commit, ControlMetadata, PauseCheckpoint, JobRaises
  <1>5. CASE EntryFails(w)
    BY <1>5, <1>e, OnceMoves DEF EntryFails
  <1>6. CASE PauseLifecycle(w) \/ StopClear(w)
    <2>1. AfterPoll(w, action) \in WorkerPlace
      BY DEF AfterPoll
    <2> QED
      BY <1>6, <1>e, <2>1, OnceMoves DEF PauseLifecycle, StopClear
  <1>7. CASE AppendRow(w)
    BY <1>7, <1>e, OnceAppends DEF AppendRow
  <1>8. CASE LockedSectionFails(w)
    <2>1. CASE UNCHANGED hist
      BY <1>8, <1>e, <2>1, OnceMoves DEF LockedSectionFails
    <2>2. CASE wpc[w] = "append" /\ AppendResult(w)
      BY <1>8, <1>e, <2>2, OnceAppends DEF LockedSectionFails
    <2> QED
      BY <1>8, <2>1, <2>2 DEF LockedSectionFails
  <1> QED
    BY <1>1, <1>2, <1>3, <1>4, <1>5, <1>6, <1>7, <1>8 DEF Worker

(* Nothing is stored of a run whose id was not handed out.                  *)
Issued ==
    /\ HasRun => ckpt.run \in used
    /\ pc \in Planned => run \in used
    /\ \A i \in DOMAIN hist : hist[i].run \in used

(* What the process that executes the active run has in memory is at least  *)
(* what the checkpoint shows, and at first all that is durable.             *)
Leading ==
    /\ pc \in Planned /\ ActiveRun = run => ckpt.done \subseteq done
    /\ pc \in {"clear", "reset", "persist"} => done = Committed(run)

(* The history changes by the row of a worker, if at all.                   *)
LEMMA HistoryMoves ==
    ASSUME TypeInv, [Next]_vars
    PROVE  \/ hist' = hist
           \/ /\ pc = "exec" /\ pc' = "exec"
              /\ \E w \in Workers : wpc[w] = "append" /\ AppendResult(w)
  <1> USE DEF fileVars
  <1>1. CASE UNCHANGED vars
    BY <1>1 DEF vars
  <1>2. CASE \E w \in Workers : Worker(w) \/ JobRaises(w) \/ EntryFails(w) \/ LockedSectionFails(w)
    <2> PICK w \in Workers : Worker(w) \/ JobRaises(w) \/ EntryFails(w) \/ LockedSectionFails(w)
      BY <1>2
    <2>1. pc = "exec" /\ pc' = "exec"
      BY WorkStays
    <2>2. hist' = hist \/ (wpc[w] = "append" /\ AppendResult(w))
      BY DEF Worker, TakeJob, NotStarted, TryStart, StartJob, JobReturns, FailJob, FinishJob,
             AppendRow, Commit, ControlMetadata, PauseCheckpoint, PauseLifecycle, StopClear,
             JobRaises, EntryFails, LockedSectionFails
    <2> QED
      BY <2>1, <2>2
  <1>3. CASE Command \/ Dismiss
    BY <1>3 DEF Command, Start, AutoResumeDecide, RequestControl, Dismiss, DismissCheckLock,
                DismissLoad, DismissMetadata, DismissClear
  <1>4. CASE ScanProcess
    BY <1>4
       DEF ScanProcess, AutoResumeClaim, Recover, PlanFresh, PlanRejected, PlanResume, ForcedClear,
           ResetControl, FirstCheckpoint, WrapUp, SaveCompletedMetadata, RetainCheckpoint,
           CommitSnapshot, FailMetadata, FailCheckpoint, FailLifecycle
  <1>5. CASE RecoverFails \/ BeginFails \/ FinishFails \/ FailureHandlingFails \/ Crash
    BY <1>5 DEF RecoverFails, BeginFails, FinishFails, FailureHandlingFails, Crash
  <1> QED
    BY <1>1, <1>2, <1>3, <1>4, <1>5 DEF Next, Fault

LEMMA IssuedStep ==
    ASSUME TypeInv, Issued, [Next]_vars
    PROVE  Issued'
  <1>1. used \subseteq used'
    BY PlanMoves
  <1>2. HasRun' => ckpt'.run \in used'
    BY <1>1, ScanWritesProgress DEF ProgressKept, ProgressWritten, Issued
  <1>3. pc' \in Planned => run' \in used'
    <2>1. CASE PlanResume
      <3>1. run' = ResumeRun /\ Resumable
        BY <2>1 DEF PlanResume
      <3>2. CASE HasRun
        BY <1>1, <3>1, <3>2 DEF ResumeRun, Issued
      <3>3. CASE ~HasRun
        <4>1. hist # <<>> /\ hist \in Seq(Row) /\ run' = LastRun
          BY <3>1, <3>3 DEF Resumable, Inferred, ResumeRun, TypeInv, TypeOK
        <4>2. Len(hist) \in DOMAIN hist
          BY <4>1
        <4> QED
          BY <1>1, <4>1, <4>2 DEF Issued, LastRun
      <3> QED
        BY <3>2, <3>3
    <2>2. ASSUME NEW r \in Runs, PlanFresh(r) PROVE run' \in used'
      BY <2>2 DEF PlanFresh
    <2> QED
      BY <1>1, <2>1, <2>2, PlanMoves DEF Issued
  <1>4. \A i \in DOMAIN hist' : hist'[i].run \in used'
    <2>1. CASE hist' = hist
      BY <1>1, <2>1 DEF Issued
    <2>2. ASSUME NEW w \in Workers, pc = "exec", wpc[w] = "append", AppendResult(w)
          PROVE  \A i \in DOMAIN hist' : hist'[i].run \in used'
      BY <1>1, <2>2, AppendCommits DEF Issued, Planned
    <2> QED
      BY <2>1, <2>2, HistoryMoves
  <1> QED
    BY <1>2, <1>3, <1>4 DEF Issued

LEMMA LeadingStep ==
    ASSUME TypeInv, Backed, Issued, Leading, WindowSuffices, [Next]_vars
    PROVE  Leading'
  <1>1. ASSUME pc' \in Planned, ActiveRun' = run' PROVE ckpt'.done \subseteq done'
    <2>0. run' \in Runs /\ HasRun' /\ ckpt'.run = run'
      BY <1>1, TypeStep, StoreAssumption DEF TypeInv, PlacesTypeOK, ActiveRun
    <2>1. CASE ProgressWritten
      BY <1>1, <2>1 DEF ProgressWritten
    <2>2. CASE ProgressKept
      <3>1. HasRun /\ ckpt.run = run' /\ ckpt'.done = ckpt.done
        BY <2>0, <2>2 DEF ProgressKept
      <3>2. CASE pc \in Planned /\ run' = run /\ done \subseteq done'
        BY <3>1, <3>2 DEF Leading, ActiveRun
      <3>3. CASE PlanResume
        <4>1. done' = Recent(ckpt.run)
          BY <3>1, <3>3 DEF PlanResume, ResumeRun
        <4> QED
          BY <3>1, <4>1, WindowReadsAll DEF Backed, CheckpointBackedByHistory
      <3>4. ASSUME NEW r \in Runs, PlanFresh(r) PROVE FALSE
        BY <3>1, <3>4 DEF PlanFresh, Issued
      <3> QED
        BY <1>1, <3>2, <3>3, <3>4, PlanMoves
    <2> QED
      BY <2>1, <2>2, ScanWritesProgress
  <1>2. ASSUME pc' \in {"clear", "reset", "persist"} PROVE done' = StepsOf(hist', run')
    <2>1. hist' = hist
      BY <1>2, HistoryMoves
    <2>2. CASE PlanResume
      <3>1. done' = Recent(run')
        BY <2>2 DEF PlanResume
      <3> QED
        BY <2>1, <3>1, WindowReadsAll DEF Committed
    <2>3. ASSUME NEW r \in Runs, PlanFresh(r) PROVE done' = StepsOf(hist', run')
      <3>1. pc = "plan" /\ run' = r /\ r \notin used /\ done' = done
        BY <2>3 DEF PlanFresh, execVars
      <3>2. done = {}
        BY <3>1 DEF Backed, Planned
      <3> QED
        BY <2>1, <3>1, <3>2 DEF StepsOf, Issued
    <2>4. CASE UNCHANGED vars
      BY <1>2, <2>1, <2>4 DEF vars, procVars, planVars, execVars, Leading, Committed
    <2>5. CASE ForcedClear \/ ResetControl
      <3>1. pc \in {"clear", "reset"} /\ UNCHANGED <<run, done>>
        BY <1>2, <2>5 DEF ForcedClear, ResetControl, EndSession, planVars, execVars
      <3> QED
        BY <2>1, <3>1 DEF Leading, Committed
    <2>6. CASE \E w \in Workers : Worker(w) \/ JobRaises(w) \/ EntryFails(w) \/ LockedSectionFails(w)
      BY <1>2, <2>6, WorkStays
    <2>7. CASE \/ \E s \in Requesters : RequestControl("pause", s)
               \/ RequestControl("stop", NoSession) \/ Dismiss
      <3>1. UNCHANGED <<pc, run, done>>
        BY <2>7 DEF RequestControl, Dismiss, DismissCheckLock, DismissLoad, DismissMetadata,
                    DismissClear, procVars, planVars, execVars
      <3> QED
        BY <1>2, <2>1, <3>1 DEF Leading, Committed
    <2>8. CASE (\E k \in Kind : Start(k)) \/ \E s \in Sessions : AutoResumeDecide(s)
      BY <1>2, <2>8 DEF Start, AutoResumeDecide, Goto
    <2>9. CASE ScanProcess /\ ~PlanResume /\ ~ForcedClear /\ ~ResetControl /\ ~\E r \in Runs : PlanFresh(r)
      BY <1>2, <2>9
         DEF ScanProcess, AutoResumeClaim, Recover, PlanRejected, FirstCheckpoint, WrapUp,
             SaveCompletedMetadata, RetainCheckpoint, CommitSnapshot, FailMetadata, FailCheckpoint,
             FailLifecycle, EndSession, Goto
    <2>10. CASE RecoverFails \/ BeginFails \/ FinishFails \/ FailureHandlingFails \/ Crash
      BY <1>2, <2>10 DEF RecoverFails, BeginFails, FinishFails, FailureHandlingFails, Crash,
                         EndSession, Goto
    <2> QED
      BY <2>2, <2>3, <2>4, <2>5, <2>6, <2>7, <2>8, <2>9, <2>10 DEF Next, Fault, Command
  <1> QED
    BY <1>1, <1>2 DEF Leading, Committed

LEMMA OnceStep ==
    ASSUME TypeInv, Leading, Once, [Next]_vars
    PROVE  Once'
  <1> USE DEF fileVars, procVars, planVars, execVars, workerVars, Goto, EndSession
  <1>1. CASE UNCHANGED vars
    BY <1>1 DEF vars, Once, NoStepCommittedTwice, Committed
  <1>2. CASE \/ \E s \in Requesters : RequestControl("pause", s)
             \/ RequestControl("stop", NoSession)
             \/ Dismiss
    BY <1>2 DEF RequestControl, Dismiss, DismissCheckLock, DismissLoad, DismissMetadata,
                DismissClear, Once, NoStepCommittedTwice, Committed
  <1>3. CASE (\E k \in Kind \ {"auto"} : Start(k)) \/ (\E s \in Sessions : AutoResumeDecide(s))
    BY <1>3, OnceElsewhere DEF Start, AutoResumeDecide
  <1>4. CASE FirstCheckpoint
    <2>1. /\ pc = "persist" /\ queue' = Steps \ done /\ UNCHANGED <<hist, run, wpc>>
          /\ \A w \in Workers : wpc[w] = "free"
      BY <1>4 DEF FirstCheckpoint, TypeInv, PlacesTypeOK
    <2>2. done = Committed(run) /\ StepsOf(hist', run') = Committed(run)
      BY <2>1 DEF Leading, Committed
    <2>3. NoStepCommittedTwice'
      BY <2>1 DEF Once, NoStepCommittedTwice
    <2> QED
      BY <2>1, <2>2, <2>3 DEF Once, Committed
  <1>5. CASE ScanProcess /\ ~FirstCheckpoint
    BY <1>5, OnceElsewhere
       DEF ScanProcess, AutoResumeClaim, Recover, PlanFresh, PlanResume, PlanRejected,
           ForcedClear, ResetControl, WrapUp, SaveCompletedMetadata, RetainCheckpoint,
           CommitSnapshot, FailMetadata, FailCheckpoint, FailLifecycle
  <1>6. ASSUME NEW w \in Workers,
               Worker(w) \/ JobRaises(w) \/ EntryFails(w) \/ LockedSectionFails(w)
        PROVE  Once'
    BY <1>6, OnceWork
  <1>8. CASE RecoverFails \/ BeginFails \/ FinishFails \/ FailureHandlingFails \/ Crash
    BY <1>8, OnceElsewhere
       DEF RecoverFails, BeginFails, FinishFails, FailureHandlingFails, Crash
  <1> QED
    BY <1>1, <1>2, <1>3, <1>4, <1>5, <1>6, <1>8 DEF Next, Command, Fault

LEMMA ProgressInvariant == Spec /\ []WindowSuffices => [](TypeInv /\ Leading /\ Once)
  <1>1. Init => Issued /\ Leading /\ Once
    BY DEF Init, StoreInit, Issued, Leading, Once, NoStepCommittedTwice, HasRun, Planned
  <1>2. TypeInv /\ Backed /\ Issued /\ Leading /\ Once /\ WindowSuffices /\ [Next]_vars
        => TypeInv' /\ Backed' /\ Issued' /\ Leading' /\ Once'
    BY TypeStep, BackedStep, IssuedStep, LeadingStep, OnceStep
  <1> QED
    BY InitTyped, InitBacked, <1>1, <1>2, PTL DEF Spec

(* While a resumption reads all of the history, no step of a run is         *)
(* evaluated and committed twice, however often the run is interrupted,     *)
(* fails to write, is dismissed and is resumed.                             *)
THEOREM StepsAreCommittedOnce == Spec /\ []WindowSuffices => []NoStepCommittedTwice
  <1>1. Once => NoStepCommittedTwice
    BY DEF Once
  <1> QED
    BY ProgressInvariant, <1>1, PTL

(* As long as a run is the active one, its checkpoint loses no progress:    *)
(* neither a resumption whose memory is older, nor the write of a worker    *)
(* that overtakes another, nor the handling of a failure takes back a step  *)
(* that was shown as completed.                                             *)
ProgressStays ==
    [][\A r \in Runs : ActiveRun = r /\ ActiveRun' = r => ckpt.done \subseteq ckpt'.done]_vars

THEOREM ProgressIsNotLost == Spec /\ []WindowSuffices => ProgressStays
  <1>1. TypeInv /\ Leading /\ [Next]_vars
        => [\A r \in Runs : ActiveRun = r /\ ActiveRun' = r => ckpt.done \subseteq ckpt'.done]_vars
    <2> SUFFICES ASSUME TypeInv, Leading, [Next]_vars, NEW r \in Runs, ActiveRun = r, ActiveRun' = r
                 PROVE  ckpt.done \subseteq ckpt'.done
      OBVIOUS
    <2>1. HasRun' /\ ckpt'.run = r
      BY StoreAssumption DEF ActiveRun
    <2>2. CASE ProgressKept
      BY <2>1, <2>2 DEF ProgressKept
    <2>3. CASE ProgressWritten
      BY <2>1, <2>3 DEF ProgressWritten, Leading
    <2> QED
      BY <2>2, <2>3, ScanWritesProgress
  <1> QED
    BY ProgressInvariant, <1>1, PTL DEF Spec, ProgressStays
=============================================================================
