------------------------- MODULE RepairSessionProofs -------------------------
(* Type correctness of a repair; that a repair never replaces a good result *)
(* by a worse one, records a round as completed that is not, or forgets a   *)
(* cell of its scope; and that a repair shown as paused has work left.      *)
EXTENDS RepairSession, ActiveRunStoreProofs

USE RepairAssumption

-----------------------------------------------------------------------------
(* The typing of the parts of the state that actions change together.      *)

FilesTyped ==
    /\ StoreTypeOK
    /\ entries \subseteq Steps
    /\ repair \in Repair \cup {NoRepair}

ResultsTyped == latest \in [Steps -> Result] /\ meta \in Metadata

PlanTyped == req \in Request /\ auto \in BOOLEAN /\ scope \subseteq Steps

WorkersTyped ==
    /\ wpc \in [Workers -> WorkerPlace]
    /\ job \in [Workers -> Steps \cup {NoStep}]
    /\ res \in [Workers -> Result]

PoolTyped ==
    /\ queue \subseteq Steps
    /\ done \subseteq Steps
    /\ action \in Control \cup {"none"}
    /\ troubles \subseteq {"failure", "raised"}

RestTyped == owed \subseteq Steps /\ budget \in [Limits -> Nat]

Typed ==
    /\ FilesTyped /\ ResultsTyped /\ pc \in Place /\ PlanTyped
    /\ WorkersTyped /\ PoolTyped /\ RestTyped

LEMMA TypeParts == TypeOK <=> Typed
  BY DEF TypeOK, Typed, FilesTyped, ResultsTyped, PlanTyped, WorkersTyped, PoolTyped, RestTyped

LEMMA FilesUnchanged ==
    ASSUME FilesTyped, UNCHANGED <<storeVars, entries, repair>>
    PROVE  FilesTyped'
  BY DEF FilesTyped, StoreTypeOK, storeVars

LEMMA ResultsUnchanged ==
    ASSUME ResultsTyped, UNCHANGED <<latest, meta>>
    PROVE  ResultsTyped'
  BY DEF ResultsTyped

LEMMA PlanUnchanged ==
    ASSUME PlanTyped, UNCHANGED planVars
    PROVE  PlanTyped'
  BY DEF PlanTyped, planVars

LEMMA PoolUnchanged ==
    ASSUME WorkersTyped, PoolTyped, UNCHANGED poolVars
    PROVE  WorkersTyped' /\ PoolTyped'
  BY DEF WorkersTyped, PoolTyped, poolVars

LEMMA SpendType ==
    ASSUME RestTyped, NEW limit \in Limits, Spend(limit)
    PROVE  budget' \in [Limits -> Nat]
  BY DEF RestTyped, Spend

LEMMA RecomputedType ==
    /\ Recomputed \in Metadata
    /\ Failed \in Metadata
    /\ Open \in Metadata
  BY DEF Recomputed, Failed, Open, Metadata, Status

LEMMA EndSessionType ==
    ASSUME EndSession
    PROVE  pc' \in Place /\ PlanTyped' /\ WorkersTyped' /\ PoolTyped'
  BY DEF EndSession, Place, PlanTyped, WorkersTyped, PoolTyped, Request, NoRequest, Kind,
     WorkerPlace, Result

LEMMA ClearRoundType ==
    ASSUME FilesTyped, ClearRound
    PROVE  FilesTyped'
  BY ClearForRunKeeps DEF FilesTyped, ClearRound

LEMMA PersistRunType ==
    ASSUME FilesTyped, PlanTyped, PoolTyped, PersistRun
    PROVE  FilesTyped'
  <1>1. "active_scan" \in Lifecycle /\ Round \in Runs /\ done \in SUBSET Steps
    BY DEF Lifecycle, PoolTyped
  <1>2. StoreTypeOK'
    BY <1>1, RecomputedType, ReplaceCheckpointEffect DEF FilesTyped, PersistRun
  <1>3. QED
    BY <1>2 DEF FilesTyped, PersistRun, PlanTyped

LEMMA RemainingInScope ==
    ASSUME PlanTyped
    PROVE  Remaining \subseteq scope /\ Remaining \subseteq Steps
  BY DEF Remaining, PlanTyped

LEMMA MarkRepairType ==
    ASSUME FilesTyped, PlanTyped, MarkRepair
    PROVE  FilesTyped'
  <1>1. repair' \in Repair
    <2>1. Remaining \in SUBSET Steps
      BY RemainingInScope
    <2>2. (IF req.kind = "candidate" THEN req.cands
           ELSE {CandidateOf[c] : c \in Remaining}) \in SUBSET Candidates
      BY <2>1 DEF PlanTyped, Request
    <2>3. (IF req.cell \in Remaining THEN req.cell ELSE NoStep) \in Steps \cup {NoStep}
      BY <2>1
    <2>4. req.kind \in Kind
      BY DEF PlanTyped, Request
    <2>5. QED
      BY <2>1, <2>2, <2>3, <2>4 DEF MarkRepair, Repair
  <1>2. QED
    BY <1>1 DEF FilesTyped, MarkRepair, StoreTypeOK, storeVars

LEMMA MoveType ==
    ASSUME WorkersTyped, NEW w \in Workers, NEW place \in WorkerPlace, Move(w, place)
    PROVE  WorkersTyped'
  BY DEF WorkersTyped, Move, Result

-----------------------------------------------------------------------------
(* Type correctness, for the commands, the process, the workers and the     *)
(* faults.                                                                 *)

LEMMA CommandType ==
    ASSUME TypeOK, Command
    PROVE  Typed'
  <1> USE DEF Typed
  <1>1. Typed
    BY TypeParts
  <1>2. "recover" \in Place /\ "start" \in Limits /\ "request" \in Limits
    BY DEF Place, Limits
  <1>3. ASSUME NEW r \in Asked, UserRepair(r)
        PROVE  Typed'
    <2>1. PlanTyped'
      BY <1>1, <1>3 DEF UserRepair, PlanTyped, Askable
    <2>2. RestTyped'
      BY <1>1, <1>2, <1>3, SpendType DEF UserRepair, RestTyped
    <2>3. QED
      BY <1>1, <1>2, <1>3, <2>1, <2>2, FilesUnchanged, ResultsUnchanged, PoolUnchanged
      DEF UserRepair, Goto, fileVars, storeVars
  <1>4. ASSUME NEW s \in Sessions, AutoRepair(s)
        PROVE  Typed'
    <2>1. FilesTyped'
      BY <1>1, <1>4, ClaimAutoResumeKeeps DEF AutoRepair, FilesTyped
    <2>2. PlanTyped'
      BY <1>1, <1>4 DEF AutoRepair, PlanTyped, FilesTyped, Repair, Request
    <2>3. RestTyped'
      BY <1>1, <1>2, <1>4, SpendType DEF AutoRepair, RestTyped
    <2>4. QED
      BY <1>1, <1>2, <1>4, <2>1, <2>2, <2>3, ResultsUnchanged, PoolUnchanged
      DEF AutoRepair, Goto
  <1>5. CASE ScanResumesRound
    <2>1. ResultsTyped'
      BY <1>1, <1>5 DEF ScanResumesRound, ResultsTyped, Result, Metadata, Status
    <2>2. RestTyped'
      BY <1>1, <1>2, <1>5, SpendType DEF ScanResumesRound, RestTyped
    <2>3. QED
      BY <1>1, <1>5, <2>1, <2>2, ClearRoundType, PlanUnchanged, PoolUnchanged
      DEF ScanResumesRound
  <1>6. ASSUME NEW a \in Control, NEW s \in Sessions \cup {NoSession}, RequestControl(a, s)
        PROVE  Typed'
    <2>1. FilesTyped'
      BY <1>1, <1>6, RequestControlKeeps DEF RequestControl, FilesTyped
    <2>2. RestTyped'
      BY <1>1, <1>2, <1>6, SpendType DEF RequestControl, RestTyped
    <2>3. QED
      BY <1>1, <1>6, <2>1, <2>2, ResultsUnchanged, PlanUnchanged, PoolUnchanged
      DEF RequestControl
  <1>7. QED
    BY <1>3, <1>4, <1>5, <1>6 DEF Command, Control

LEMMA PlannedType ==
    ASSUME TypeOK
    PROVE  Planned \subseteq Steps
  BY DEF Planned, CandidateSteps, BatchSteps, CellsOf, Failing, TypeOK, Repair, Matching

LEMMA RetainCheckpointType ==
    ASSUME FilesTyped, PlanTyped, PoolTyped, RetainCheckpoint
    PROVE  FilesTyped'
  <1>1. "finalizing" \in Lifecycle /\ Round \in Runs /\ done \in SUBSET Steps
    BY DEF Lifecycle, PoolTyped
  <1>2. StoreTypeOK'
    BY <1>1, RecomputedType, ReplaceCheckpointEffect DEF FilesTyped, RetainCheckpoint
  <1>3. QED
    BY <1>2 DEF FilesTyped, RetainCheckpoint, PlanTyped

LEMMA KeptCheckpointType ==
    ASSUME FilesTyped, KeptCheckpoint
    PROVE  FilesTyped'
  BY DEF FilesTyped, KeptCheckpoint, StoreTypeOK

LEMMA PauseType ==
    ASSUME FilesTyped, UNCHANGED <<entries, repair>>,
           \/ UpdateRunMetadata([status |-> "paused", closed |-> FALSE])
           \/ UpdateRuntimeState("paused_recoverable")
    PROVE  FilesTyped'
  <1>1. [status |-> "paused", closed |-> FALSE] \in Metadata /\ "paused_recoverable" \in Lifecycle
    BY DEF Metadata, Status, Lifecycle
  <1>2. QED
    BY <1>1, UpdateRunMetadataEffect, UpdateRuntimeStateEffect DEF FilesTyped

LEMMA ProcessType ==
    ASSUME TypeOK, RepairProcess
    PROVE  Typed'
  <1> USE DEF Typed
  <1>1. Typed
    BY TypeParts
  <1>2. {"plan", "c_meta", "begin", "persist", "mark", "exec", "x_meta", "k_meta", "k_ckpt",
         "c_ckpt", "k_life", "commit", "x_clear"} \subseteq Place
    BY DEF Place
  <1>3. UNCHANGED <<owed, budget>> => RestTyped'
    BY <1>1 DEF RestTyped
  <1>4. UNCHANGED fileVars => FilesTyped' /\ ResultsTyped'
    BY <1>1, FilesUnchanged, ResultsUnchanged DEF fileVars, storeVars
  <1>5. CASE Recover
    <2>1. FilesTyped'
      BY <1>1, <1>5, ClearRoundType, FilesUnchanged DEF Recover, storeVars
    <2>2. pc' \in Place /\ PlanTyped' /\ WorkersTyped' /\ PoolTyped'
      BY <1>1, <1>2, <1>5, EndSessionType, PlanUnchanged, PoolUnchanged DEF Recover, Goto
    <2>3. QED
      BY <1>1, <1>3, <1>5, <2>1, <2>2, ResultsUnchanged DEF Recover
  <1>6. CASE Plan
    <2>1. PlanTyped'
      BY <1>1, <1>6, PlannedType DEF Plan, PlanTyped
    <2>2. pc' \in Place
      BY <1>2, <1>6 DEF Plan, Goto
    <2>3. QED
      BY <1>1, <1>3, <1>4, <1>6, <2>1, <2>2, PoolUnchanged DEF Plan
  <1>7. CASE PlanRefused
    <2>1. RestTyped'
      <3>1. "fault" \in Limits
        BY DEF Limits
      <3>2. QED
        BY <1>1, <1>7, <3>1 DEF PlanRefused, RestTyped
    <2>2. QED
      BY <1>4, <1>7, <2>1, EndSessionType DEF PlanRefused
  <1>8. CASE Begin
    <2>1. FilesTyped'
      BY <1>1, <1>8, ClearControlKeeps DEF Begin, FilesTyped
    <2>2. QED
      BY <1>1, <1>2, <1>3, <1>8, <2>1, ResultsUnchanged, PlanUnchanged, PoolUnchanged
      DEF Begin, Goto
  <1>9. CASE Persist
    <2>1. RestTyped'
      BY <1>1, <1>9 DEF Persist, RestTyped, PlanTyped
    <2>2. QED
      BY <1>1, <1>2, <1>9, <2>1, PersistRunType, ResultsUnchanged, PlanUnchanged, PoolUnchanged
      DEF Persist, Goto
  <1>10. CASE Mark
    <2>1. WorkersTyped' /\ PoolTyped'
      BY <1>1, <1>10 DEF Mark, WorkersTyped, PoolTyped, PlanTyped
    <2>2. QED
      BY <1>1, <1>2, <1>3, <1>10, <2>1, MarkRepairType, ResultsUnchanged, PlanUnchanged
      DEF Mark, Goto
  <1>11. CASE WrapUp
    <2>1. WorkersTyped' /\ PoolTyped'
      BY <1>1, <1>11 DEF WrapUp, WorkersTyped, PoolTyped
    <2>2. pc' \in Place
      BY <1>2, <1>11 DEF WrapUp, Goto
    <2>3. QED
      BY <1>1, <1>3, <1>4, <1>11, <2>1, <2>2, PlanUnchanged DEF WrapUp
  <1>12. CASE SaveMetadata
    <2>1. ResultsTyped'
      BY <1>1, <1>12, RecomputedType DEF SaveMetadata, ResultsTyped
    <2>2. pc' \in Place
      BY <1>2, <1>12 DEF SaveMetadata, Goto
    <2>3. QED
      BY <1>1, <1>3, <1>12, <2>1, <2>2, FilesUnchanged, PlanUnchanged, PoolUnchanged
      DEF SaveMetadata, storeVars
  <1>13. CASE PauseCheckpoint
    BY <1>1, <1>2, <1>3, <1>13, PauseType, ResultsUnchanged, PlanUnchanged, PoolUnchanged
    DEF PauseCheckpoint, Goto
  <1>14. CASE PauseLifecycle
    BY <1>1, <1>3, <1>14, PauseType, ResultsUnchanged, EndSessionType DEF PauseLifecycle
  <1>15. CASE StopClear
    BY <1>1, <1>3, <1>15, ClearRoundType, ResultsUnchanged, EndSessionType DEF StopClear
  <1>16. CASE RetainFinalizing
    BY <1>1, <1>2, <1>3, <1>16, RetainCheckpointType, ResultsUnchanged, PlanUnchanged,
       PoolUnchanged DEF RetainFinalizing, Goto
  <1>17. CASE CommitSnapshot
    <2>1. "fault" \in Limits
      BY DEF Limits
    <2>2. RestTyped'
      BY <1>1, <1>17, <2>1, SpendType DEF CommitSnapshot, RestTyped
    <2>3. QED
      BY <1>1, <1>17, <2>2, ClearRoundType, KeptCheckpointType, ResultsUnchanged, EndSessionType
      DEF CommitSnapshot
  <1>18. CASE FailMetadata
    <2>1. ResultsTyped'
      BY <1>1, <1>18, RecomputedType DEF FailMetadata, ResultsTyped
    <2>2. QED
      BY <1>1, <1>2, <1>3, <1>18, <2>1, FilesUnchanged, PlanUnchanged, PoolUnchanged
      DEF FailMetadata, Goto, storeVars
  <1>19. CASE FailClear
    BY <1>1, <1>3, <1>19, ClearRoundType, ResultsUnchanged, EndSessionType DEF FailClear
  <1>20. QED
    BY <1>5, <1>6, <1>7, <1>8, <1>9, <1>10, <1>11, <1>12, <1>13, <1>14, <1>15, <1>16, <1>17,
       <1>18, <1>19 DEF RepairProcess

(* A worker that is not free has a cell.                                    *)
Busy == \A w \in Workers : wpc[w] # "free" => job[w] \in Steps

LEMMA WorkerType ==
    ASSUME TypeOK, Busy, NEW w \in Workers, Worker(w)
    PROVE  Typed'
  <1> USE DEF Typed
  <1>1. Typed
    BY TypeParts
  <1>2. UNCHANGED <<owed, budget>> => RestTyped'
    BY <1>1 DEF RestTyped
  <1>3. UNCHANGED <<storeVars, entries, repair>> => FilesTyped'
    BY <1>1, FilesUnchanged
  <1>4. UNCHANGED <<queue, done, action, troubles>> => PoolTyped'
    BY <1>1 DEF PoolTyped
  <1>5. {"free", "running", "s_ckpt", "s_mark", "f_mark", "append", "e_ckpt", "e_mark"}
          \subseteq WorkerPlace
    BY DEF WorkerPlace, Locked
  <1>6. ASSUME PollControl, UNCHANGED <<entries, repair>>
        PROVE  FilesTyped' /\ action' \in Control \cup {"none"}
    <2>1. FilesTyped'
      BY <1>1, <1>6, ClaimControlKeeps DEF PollControl, FilesTyped
    <2>2. Claimed(Round) \in Control \cup {"none"}
      BY <1>1 DEF Claimed, FilesTyped, StoreTypeOK, Mail
    <2>3. QED
      BY <1>1, <1>6, <2>1, <2>2 DEF PollControl, Polled, PoolTyped
  <1>7. CASE TakeJob(w)
    <2>1. WorkersTyped' /\ PoolTyped'
      BY <1>1, <1>7 DEF TakeJob, WorkersTyped, PoolTyped, WorkerPlace
    <2>2. QED
      BY <1>1, <1>2, <1>3, <1>7, <2>1, ResultsUnchanged, PlanUnchanged
      DEF TakeJob, fileVars, storeVars
  <1>8. CASE TryStart(w)
    <2>1. WorkersTyped'
      BY <1>1, <1>5, <1>8, MoveType DEF TryStart
    <2>2. FilesTyped' /\ PoolTyped'
      BY <1>1, <1>6, <1>8 DEF TryStart, PoolTyped
    <2>3. QED
      BY <1>1, <1>2, <1>8, <2>1, <2>2, ResultsUnchanged, PlanUnchanged DEF TryStart
  <1>9. CASE JobReturns(w)
    <2>1. WorkersTyped'
      BY <1>1, <1>9 DEF JobReturns, WorkersTyped, WorkerPlace, Result
    <2>2. QED
      BY <1>1, <1>2, <1>3, <1>4, <1>9, <2>1, ResultsUnchanged, PlanUnchanged
      DEF JobReturns, fileVars, storeVars
  <1>10. CASE FailJob(w)
    <2>1. WorkersTyped'
      BY <1>1, <1>5, <1>10, MoveType DEF FailJob
    <2>2. FilesTyped'
      BY <1>1, <1>3, <1>10, PersistRunType DEF FailJob, storeVars
    <2>3. PoolTyped'
      BY <1>1, <1>10 DEF FailJob, PoolTyped
    <2>4. QED
      BY <1>1, <1>2, <1>10, <2>1, <2>2, <2>3, ResultsUnchanged, PlanUnchanged DEF FailJob
  <1>11. CASE FinishJob(w)
    <2>1. WorkersTyped'
      BY <1>1, <1>5, <1>11, MoveType DEF FinishJob
    <2>2. FilesTyped' /\ PoolTyped'
      BY <1>1, <1>6, <1>11 DEF FinishJob, PoolTyped
    <2>3. QED
      BY <1>1, <1>2, <1>11, <2>1, <2>2, ResultsUnchanged, PlanUnchanged DEF FinishJob
  <1>12. CASE AppendRow(w)
    <2>1. WorkersTyped'
      BY <1>1, <1>5, <1>12, MoveType DEF AppendRow
    <2>2. ResultsTyped'
      BY <1>1, <1>12 DEF AppendRow, ResultsTyped, WorkersTyped
    <2>3. PoolTyped'
      BY <1>1, <1>12 DEF AppendRow, PoolTyped, Busy
    <2>4. QED
      BY <1>1, <1>2, <1>3, <1>12, <2>1, <2>2, <2>3, PlanUnchanged DEF AppendRow
  <1>13. CASE WorkerPersists(w)
    <2>1. WorkersTyped'
      BY <1>1, <1>5, <1>13, MoveType DEF WorkerPersists
    <2>2. QED
      BY <1>1, <1>2, <1>4, <1>13, <2>1, PersistRunType, ResultsUnchanged, PlanUnchanged
      DEF WorkerPersists
  <1>14. CASE WorkerMarks(w)
    <2>1. WorkersTyped'
      BY <1>1, <1>5, <1>14, MoveType DEF WorkerMarks
    <2>2. QED
      BY <1>1, <1>2, <1>4, <1>14, <2>1, MarkRepairType, ResultsUnchanged, PlanUnchanged
      DEF WorkerMarks
  <1>15. QED
    BY <1>7, <1>8, <1>9, <1>10, <1>11, <1>12, <1>13, <1>14 DEF Worker

LEMMA FaultType ==
    ASSUME TypeOK, Fault
    PROVE  Typed'
  <1> USE DEF Typed
  <1>1. Typed
    BY TypeParts
  <1>2. ASSUME NEW limit \in Limits, Spend(limit), owed' = owed
        PROVE  RestTyped'
    BY <1>1, <1>2, SpendType DEF RestTyped
  <1>3. "fault" \in Limits /\ "crash" \in Limits /\ "x_meta" \in Place
    BY DEF Limits, Place
  <1>4. UNCHANGED <<storeVars, entries, repair>> => FilesTyped'
    BY <1>1, FilesUnchanged
  <1>5. "free" \in WorkerPlace /\ "failing" \in WorkerPlace
    BY DEF WorkerPlace
  <1>6. UNCHANGED fileVars => UNCHANGED <<storeVars, entries, repair>> /\ UNCHANGED <<latest, meta>>
    BY DEF fileVars, storeVars
  <1>7. CASE BeginFails
    <2>1. FilesTyped'
      BY <1>1, <1>4, <1>7, PersistRunType, MarkRepairType DEF BeginFails
    <2>2. QED
      BY <1>1, <1>2, <1>3, <1>7, <2>1, ResultsUnchanged, PlanUnchanged, PoolUnchanged
      DEF BeginFails, Goto
  <1>8. ASSUME NEW w \in Workers, JobRaises(w)
        PROVE  Typed'
    <2>1. WorkersTyped'
      BY <1>1, <1>5, <1>8, MoveType DEF JobRaises
    <2>2. PoolTyped'
      BY <1>1, <1>8 DEF JobRaises, PoolTyped
    <2>3. QED
      BY <1>1, <1>2, <1>3, <1>4, <1>6, <1>8, <2>1, <2>2, ResultsUnchanged, PlanUnchanged
      DEF JobRaises
  <1>9. ASSUME NEW w \in Workers, SectionFails(w)
        PROVE  Typed'
    <2>1. WorkersTyped'
      BY <1>1, <1>5, <1>9, MoveType DEF SectionFails
    <2>2. PoolTyped'
      BY <1>1, <1>9 DEF SectionFails, PoolTyped
    <2>3. FilesTyped' /\ ResultsTyped'
      <3>1. CASE UNCHANGED fileVars
        BY <1>1, <1>4, <1>6, <3>1, ResultsUnchanged
      <3>2. CASE ClaimControlFails(Round) /\ UNCHANGED <<entries, repair, latest, meta>>
        BY <1>1, <3>2, ClaimControlKeeps, ResultsUnchanged DEF FilesTyped
      <3>3. CASE (PersistRun \/ MarkRepair) /\ UNCHANGED <<latest, meta>>
        BY <1>1, <3>3, PersistRunType, MarkRepairType, ResultsUnchanged
      <3>4. CASE /\ latest' = [latest EXCEPT ![job[w]] = res[w]]
                 /\ UNCHANGED <<storeVars, entries, repair, meta>>
        BY <1>1, <1>4, <3>4 DEF ResultsTyped, WorkersTyped
      <3>5. QED
        BY <1>9, <3>1, <3>2, <3>3, <3>4 DEF SectionFails
    <2>4. QED
      BY <1>1, <1>2, <1>3, <1>9, <2>1, <2>2, <2>3, PlanUnchanged DEF SectionFails
  <1>10. CASE WrapUpFails
    <2>1. FilesTyped' /\ ResultsTyped'
      <3>1. CASE UNCHANGED fileVars
        BY <1>1, <1>4, <1>6, <3>1, ResultsUnchanged
      <3>2. CASE meta' = Recomputed /\ UNCHANGED <<storeVars, entries, repair, latest>>
        BY <1>1, <1>4, <3>2, RecomputedType DEF ResultsTyped
      <3>3. CASE (ClearRound \/ RetainCheckpoint) /\ UNCHANGED <<latest, meta>>
        BY <1>1, <3>3, ClearRoundType, RetainCheckpointType, ResultsUnchanged
      <3>4. CASE UpdateRuntimeState("paused_recoverable") /\ UNCHANGED <<entries, repair, latest, meta>>
        BY <1>1, <3>4, PauseType, ResultsUnchanged
      <3>5. QED
        BY <1>10, <3>1, <3>2, <3>3, <3>4 DEF WrapUpFails
    <2>2. pc' \in Place /\ PlanTyped' /\ WorkersTyped' /\ PoolTyped'
      BY <1>1, <1>3, <1>10, EndSessionType, PlanUnchanged, PoolUnchanged DEF WrapUpFails, Goto
    <2>3. QED
      BY <1>2, <1>3, <1>10, <2>1, <2>2 DEF WrapUpFails
  <1>11. CASE FailureHandlingFails
    BY <1>1, <1>2, <1>3, <1>11, KeptCheckpointType, ResultsUnchanged, EndSessionType
    DEF FailureHandlingFails
  <1>12. CASE Crash
    BY <1>1, <1>2, <1>3, <1>4, <1>6, <1>12, ResultsUnchanged, EndSessionType DEF Crash
  <1>13. QED
    BY <1>7, <1>8, <1>9, <1>10, <1>11, <1>12 DEF Fault

-----------------------------------------------------------------------------
(* Who has which cell.                                                     *)

(* The places of a worker before its cell has the new result. *)
Before == WorkerPlace \ {"free", "e_ckpt", "e_mark"}

(* Outside the pool nothing is queued and no worker is at work; a cell is   *)
(* queued or with one worker, not both, and until its new result is written *)
(* its last one is not good.                                                *)
CellsApart ==
    /\ \A w \in Workers : wpc[w] = "free" => job[w] = NoStep
    /\ \A w \in Workers : job[w] \notin queue
    /\ \A v, w \in Workers : v # w /\ job[v] = job[w] => job[v] = NoStep

StillToRepair ==
    /\ \A c \in queue : latest[c] # "ok"
    /\ \A w \in Workers : wpc[w] \in Before => latest[job[w]] # "ok"
    /\ pc \in {"begin", "persist", "mark"} => \A c \in scope : latest[c] # "ok"

AtRest == pc # "exec" => queue = {} /\ \A w \in Workers : wpc[w] = "free"

IInv == TypeOK /\ Busy /\ CellsApart /\ StillToRepair /\ AtRest

LEMMA IdleInv ==
    ASSUME IInv, TypeOK', EndSession
    PROVE  IInv'
  BY DEF IInv, EndSession, Busy, CellsApart, StillToRepair, AtRest, Before

(* Nothing that concerns the cells changes; pc moves within the pool, or    *)
(* where there is none.                                                     *)
LEMMA CellsUnchanged ==
    ASSUME IInv, TypeOK', UNCHANGED <<queue, job, wpc, latest, scope>>,
           AtRest', StillToRepair'
    PROVE  IInv'
  BY DEF IInv, Busy, CellsApart

LEMMA CommandInv ==
    ASSUME IInv, TypeOK', Command
    PROVE  IInv'
  <1> USE DEF IInv
  <1>1. ASSUME pc = "idle", pc' \in {"idle", "recover"}, UNCHANGED <<queue, job, wpc, scope>>
        PROVE  IInv'
    BY <1>1 DEF Busy, CellsApart, AtRest, StillToRepair, Before
  <1>2. ASSUME NEW r, UserRepair(r) PROVE IInv'
    BY <1>1, <1>2 DEF UserRepair, Goto, poolVars
  <1>3. ASSUME NEW s, AutoRepair(s) PROVE IInv'
    BY <1>1, <1>3 DEF AutoRepair, Goto, poolVars
  <1>4. CASE ScanResumesRound
    BY <1>1, <1>4 DEF ScanResumesRound, poolVars, planVars
  <1>5. ASSUME NEW a, NEW s, RequestControl(a, s) PROVE IInv'
    BY <1>5 DEF RequestControl, poolVars, planVars, Busy, CellsApart, AtRest, StillToRepair
  <1>6. QED
    BY <1>2, <1>3, <1>4, <1>5 DEF Command

LEMMA PlannedFail ==
    ASSUME NEW c \in Planned
    PROVE  latest[c] # "ok"
  BY DEF Planned, CandidateSteps, BatchSteps, Failing

LEMMA ProcessInv ==
    ASSUME IInv, TypeOK', RepairProcess
    PROVE  IInv'
  <1> USE DEF IInv
  <1>1. CASE EndSession
    BY <1>1, IdleInv
  <1>2. ASSUME UNCHANGED <<queue, job, wpc, latest, scope>>, pc # "exec",
               pc' \notin {"begin", "persist", "mark"}
        PROVE  IInv'
    BY <1>2 DEF Busy, CellsApart, AtRest, StillToRepair
  <1>3. CASE Recover
    BY <1>1, <1>2, <1>3 DEF Recover, Goto, planVars, poolVars
  <1>4. CASE Plan
    <2>1. /\ UNCHANGED <<queue, job, wpc, latest>>
          /\ pc # "exec" /\ pc' # "exec"
          /\ \A c \in scope' : latest[c] # "ok"
      BY <1>4, PlannedFail DEF Plan, Goto, fileVars, poolVars
    <2>2. QED
      BY <2>1 DEF Busy, CellsApart, AtRest, StillToRepair
  <1>5. CASE Begin \/ Persist
    <2>1. /\ UNCHANGED <<queue, job, wpc, latest, scope>>
          /\ pc \in {"begin", "persist"} /\ pc' \in {"persist", "mark"}
      BY <1>5 DEF Begin, Persist, Goto, planVars, poolVars
    <2>2. QED
      BY <2>1 DEF Busy, CellsApart, AtRest, StillToRepair
  <1>6. CASE Mark
    <2>1. /\ UNCHANGED <<job, wpc, latest, scope>>
          /\ queue' = scope
          /\ pc = "mark" /\ pc' = "exec"
      BY <1>6 DEF Mark, Goto, planVars
    <2>2. \A w \in Workers : wpc[w] = "free" /\ job[w] = NoStep
      BY <2>1 DEF AtRest, CellsApart
    <2>3. NoStep \notin scope
      BY DEF TypeOK
    <2>4. QED
      BY <2>1, <2>2, <2>3 DEF Busy, CellsApart, AtRest, StillToRepair, Before
  <1>7. CASE WrapUp
    <2>1. /\ UNCHANGED <<queue, job, wpc, latest, scope>>
          /\ queue = {} /\ \A w \in Workers : wpc[w] = "free"
          /\ pc' \notin {"begin", "persist", "mark"}
      BY <1>7 DEF WrapUp, Drained, Goto, fileVars, planVars
    <2>2. QED
      BY <2>1 DEF Busy, CellsApart, AtRest, StillToRepair, Before
  <1>8. CASE SaveMetadata \/ PauseCheckpoint \/ RetainFinalizing \/ FailMetadata
    BY <1>2, <1>8 DEF SaveMetadata, PauseCheckpoint, RetainFinalizing, FailMetadata, Goto,
       planVars, poolVars
  <1>9. CASE PlanRefused \/ PauseLifecycle \/ StopClear \/ CommitSnapshot \/ FailClear
    BY <1>1, <1>9 DEF PlanRefused, PauseLifecycle, StopClear, CommitSnapshot, FailClear
  <1>10. QED
    BY <1>3, <1>4, <1>5, <1>6, <1>7, <1>8, <1>9 DEF RepairProcess

(* A worker gives its cell up, keeping the queue and the results. *)
LEMMA MoveInv ==
    ASSUME IInv, TypeOK', NEW w \in Workers, wpc[w] # "free",
           NEW place \in WorkerPlace, Move(w, place),
           UNCHANGED <<queue, latest, scope, pc>>,
           place \in Before => wpc[w] \in Before
    PROVE  IInv'
  <1> USE DEF IInv, TypeOK
  <1>1. wpc' = [wpc EXCEPT ![w] = place]
    BY DEF Move
  <1>2. CASE place = "free"
    <2>1. job' = [job EXCEPT ![w] = NoStep]
      BY <1>2 DEF Move
    <2>2. NoStep \notin queue
      OBVIOUS
    <2>3. QED
      BY <1>1, <1>2, <2>1, <2>2 DEF Busy, CellsApart, AtRest, StillToRepair, Before
  <1>3. CASE place # "free"
    <2>1. job' = job
      BY <1>3 DEF Move
    <2>2. QED
      BY <1>1, <1>3, <2>1 DEF Busy, CellsApart, AtRest, StillToRepair
  <1>4. QED
    BY <1>2, <1>3

(* The result of a cell that a worker holds is written. *)
LEMMA ResultInv ==
    ASSUME IInv, TypeOK', NEW w \in Workers, wpc[w] = "append",
           NEW place \in {"free", "e_ckpt"}, Move(w, place),
           latest' = [latest EXCEPT ![job[w]] = res[w]],
           UNCHANGED <<queue, scope, pc>>
    PROVE  IInv'
  <1> USE DEF IInv, TypeOK
  <1>1. wpc' = [wpc EXCEPT ![w] = place]
    BY DEF Move
  <1>2. job[w] \in Steps /\ pc = "exec"
    BY DEF Busy, AtRest
  <1>3. \A c \in Steps \ {job[w]} : latest'[c] = latest[c]
    OBVIOUS
  <1>4. \A c \in queue' : latest'[c] # "ok"
    BY <1>2, <1>3 DEF CellsApart, StillToRepair
  <1>5. \A v \in Workers \ {w} : job'[v] = job[v] /\ wpc'[v] = wpc[v]
    BY <1>1 DEF Move
  <1>6. \A v \in Workers : wpc'[v] \in Before => latest'[job'[v]] # "ok"
    <2> SUFFICES ASSUME NEW v \in Workers, wpc'[v] \in Before PROVE latest'[job'[v]] # "ok"
      OBVIOUS
    <2>1. v # w
      BY <1>1 DEF Before
    <2>2. job[v] \in Steps /\ job[v] # job[w] /\ latest[job[v]] # "ok"
      BY <1>2, <1>5, <2>1 DEF Busy, CellsApart, StillToRepair, Before
    <2>3. QED
      BY <1>3, <1>5, <2>1, <2>2
  <1>7. StillToRepair'
    BY <1>2, <1>4, <1>6 DEF StillToRepair
  <1>8. Busy' /\ CellsApart' /\ AtRest'
    <2>1. job' = IF place = "free" THEN [job EXCEPT ![w] = NoStep] ELSE job
      BY DEF Move
    <2>2. QED
      BY <1>1, <1>2, <2>1 DEF Busy, CellsApart, AtRest
  <1>9. QED
    BY <1>7, <1>8

LEMMA WorkerInv ==
    ASSUME IInv, TypeOK', NEW w \in Workers, Worker(w)
    PROVE  IInv'
  <1> USE DEF IInv
  <1>1. {"free", "running", "s_ckpt", "s_mark", "f_mark", "append", "e_ckpt", "e_mark"}
          \subseteq WorkerPlace
    BY DEF WorkerPlace, Locked
  <1>2. {"taken", "running", "failing", "returned", "s_ckpt", "s_mark", "f_mark", "append"}
          \subseteq Before
    BY DEF Before, WorkerPlace, Locked
  <1>3. UNCHANGED planVars => scope' = scope
    BY DEF planVars
  <1>4. "free" \notin Before /\ "e_ckpt" \notin Before /\ "e_mark" \notin Before
    BY DEF Before
  <1>5. CASE TakeJob(w)
    <2>1. PICK c \in queue :
            /\ queue' = queue \ {c}
            /\ IF "failure" \in troubles
               THEN UNCHANGED <<wpc, job>>
               ELSE /\ wpc' = [wpc EXCEPT ![w] = "taken"]
                    /\ job' = [job EXCEPT ![w] = c]
      BY <1>5 DEF TakeJob
    <2>2. UNCHANGED <<latest, scope, pc>> /\ pc = "exec"
      BY <1>5 DEF TakeJob, fileVars, planVars
    <2>3. c \in Steps /\ latest[c] # "ok" /\ \A v \in Workers : job[v] # c
      BY DEF TypeOK, StillToRepair, CellsApart
    <2>4. CASE "failure" \in troubles
      BY <2>1, <2>2, <2>4 DEF Busy, CellsApart, AtRest, StillToRepair
    <2>5. CASE "failure" \notin troubles
      <3>1. wpc' = [wpc EXCEPT ![w] = "taken"] /\ job' = [job EXCEPT ![w] = c]
        BY <2>1, <2>5
      <3>2. Busy' /\ CellsApart' /\ AtRest'
        BY <2>1, <2>2, <2>3, <3>1 DEF TypeOK, Busy, CellsApart, AtRest
      <3>3. StillToRepair'
        BY <2>1, <2>2, <2>3, <3>1 DEF TypeOK, StillToRepair
      <3>4. QED
        BY <3>2, <3>3
    <2>6. QED
      BY <2>4, <2>5
  <1>6. CASE TryStart(w)
    BY <1>1, <1>2, <1>3, <1>4, <1>6, MoveInv DEF TryStart
  <1>7. CASE JobReturns(w)
    <2>1. wpc' = [wpc EXCEPT ![w] = "returned"] /\ wpc[w] = "running"
          /\ UNCHANGED <<queue, job, latest, scope, pc>>
      BY <1>7 DEF JobReturns, fileVars, planVars
    <2>2. QED
      BY <1>2, <2>1 DEF TypeOK, Busy, CellsApart, AtRest, StillToRepair
  <1>8. CASE FailJob(w)
    BY <1>1, <1>2, <1>3, <1>4, <1>8, MoveInv DEF FailJob
  <1>9. CASE FinishJob(w)
    BY <1>1, <1>2, <1>3, <1>4, <1>9, MoveInv DEF FinishJob
  <1>10. CASE AppendRow(w)
    BY <1>3, <1>10, ResultInv DEF AppendRow
  <1>11. CASE WorkerPersists(w)
    BY <1>1, <1>2, <1>3, <1>4, <1>11, MoveInv DEF WorkerPersists
  <1>12. CASE WorkerMarks(w)
    BY <1>1, <1>2, <1>3, <1>4, <1>12, MoveInv DEF WorkerMarks
  <1>13. QED
    BY <1>5, <1>6, <1>7, <1>8, <1>9, <1>10, <1>11, <1>12 DEF Worker

LEMMA FaultInv ==
    ASSUME IInv, TypeOK', Fault
    PROVE  IInv'
  <1> USE DEF IInv
  <1>1. CASE EndSession
    BY <1>1, IdleInv
  <1>2. ASSUME UNCHANGED <<queue, job, wpc, latest, scope>>, pc # "exec",
               pc' = "x_meta"
        PROVE  IInv'
    BY <1>2 DEF Busy, CellsApart, AtRest, StillToRepair
  <1>3. "free" \in WorkerPlace /\ "failing" \in WorkerPlace /\ "free" \notin Before
    BY DEF WorkerPlace, Before
  <1>4. CASE BeginFails
    BY <1>2, <1>4 DEF BeginFails, Goto, planVars, poolVars
  <1>5. ASSUME NEW w \in Workers, JobRaises(w)
        PROVE  IInv'
    <2>1. wpc[w] = "running" /\ "running" \in Before
      BY <1>5 DEF JobRaises, Before, WorkerPlace
    <2>2. QED
      BY <1>3, <1>5, <2>1, MoveInv DEF JobRaises, fileVars, planVars
  <1>6. ASSUME NEW w \in Workers, SectionFails(w)
        PROVE  IInv'
    <2>1. wpc[w] # "free"
      BY <1>6 DEF SectionFails, Locked
    <2>2. CASE latest' = latest
      BY <1>3, <1>6, <2>1, <2>2, MoveInv DEF SectionFails, planVars
    <2>3. CASE latest' # latest
      <3>1. wpc[w] = "append" /\ latest' = [latest EXCEPT ![job[w]] = res[w]]
        BY <1>6, <2>3 DEF SectionFails, fileVars
      <3>2. QED
        BY <1>6, <3>1, ResultInv DEF SectionFails, planVars
    <2>4. QED
      BY <2>2, <2>3
  <1>7. CASE WrapUpFails
    <2>1. latest' = latest /\ pc # "exec"
      BY <1>7 DEF WrapUpFails, fileVars
    <2>2. QED
      BY <1>1, <1>2, <1>7, <2>1 DEF WrapUpFails, Goto, planVars, poolVars
  <1>8. CASE FailureHandlingFails \/ Crash
    BY <1>1, <1>8 DEF FailureHandlingFails, Crash
  <1>9. QED
    BY <1>4, <1>5, <1>6, <1>7, <1>8 DEF Fault

-----------------------------------------------------------------------------
(* The theorems.                                                           *)

LEMMA Invariance == Spec => []IInv
  <1>1. Init => IInv
    <2> SUFFICES ASSUME Init PROVE IInv
      OBVIOUS
    <2>1. StoreTypeOK
      BY DEF Init, StoreInit, StoreTypeOK
    <2>2. ResultsTyped
      BY RecomputedType DEF Init, ResultsTyped
    <2>3. pc \in Place /\ PlanTyped /\ WorkersTyped /\ PoolTyped /\ RestTyped
      BY DEF Init, Place, PlanTyped, WorkersTyped, PoolTyped, RestTyped, Request, NoRequest,
         Kind, WorkerPlace, Result
    <2>4. TypeOK
      BY <2>1, <2>2, <2>3, TypeParts DEF Init, Typed, FilesTyped
    <2>5. QED
      BY <2>4 DEF Init, IInv, Busy, CellsApart, StillToRepair, AtRest, Before
  <1>2. IInv /\ [Next]_vars => IInv'
    <2> SUFFICES ASSUME IInv, [Next]_vars PROVE IInv'
      OBVIOUS
    <2>1. CASE UNCHANGED vars
      BY <2>1 DEF vars, fileVars, storeVars, planVars, poolVars, IInv, TypeOK, StoreTypeOK,
         Busy, CellsApart, StillToRepair, AtRest
    <2>2. CASE Next
      <3>1. TypeOK'
        <4>1. Typed' => TypeOK'
          BY DEF TypeOK, Typed, FilesTyped, ResultsTyped, PlanTyped, WorkersTyped, PoolTyped,
             RestTyped
        <4>2. QED
          BY <2>2, <4>1, CommandType, ProcessType, WorkerType, FaultType DEF Next, IInv
      <3>2. QED
        BY <2>2, <3>1, CommandInv, ProcessInv, WorkerInv, FaultInv DEF Next
    <2>3. QED
      BY <2>1, <2>2
  <1>3. QED
    BY <1>1, <1>2, PTL DEF Spec

(* Every repair, whoever asks for it and whatever fails, keeps its state    *)
(* and the files well formed.                                              *)
THEOREM TypeCorrect == Spec => []TypeOK
  <1>1. IInv => TypeOK
    BY DEF IInv
  <1>2. QED
    BY <1>1, Invariance, PTL

LEMMA ResultsImprove ==
    ASSUME IInv, Next, NEW c \in Steps, latest[c] = "ok"
    PROVE  latest'[c] = "ok"
  <1>1. CASE latest' = latest
    BY <1>1
  <1>2. CASE ScanResumesRound
    BY <1>2 DEF ScanResumesRound
  <1>3. ASSUME NEW w \in Workers, wpc[w] = "append",
               latest' = [latest EXCEPT ![job[w]] = res[w]]
        PROVE  latest'[c] = "ok"
    <2>1. latest[job[w]] # "ok"
      BY <1>3 DEF IInv, StillToRepair, Before, WorkerPlace, Locked
    <2>2. QED
      BY <1>3, <2>1 DEF IInv, TypeOK
  <1>4. CASE Command
    BY <1>1, <1>2, <1>4 DEF Command, UserRepair, AutoRepair, RequestControl, fileVars
  <1>5. CASE RepairProcess
    BY <1>1, <1>5 DEF RepairProcess, Recover, Plan, PlanRefused, Begin, Persist, Mark, WrapUp,
       SaveMetadata, PauseCheckpoint, PauseLifecycle, StopClear, RetainFinalizing,
       CommitSnapshot, FailMetadata, FailClear, fileVars
  <1>6. ASSUME NEW w \in Workers, Worker(w)
        PROVE  latest'[c] = "ok"
    BY <1>1, <1>3, <1>6 DEF Worker, TakeJob, TryStart, JobReturns, FailJob, FinishJob, AppendRow,
       WorkerPersists, WorkerMarks, fileVars
  <1>7. CASE Fault
    <2>1. ASSUME NEW w \in Workers, SectionFails(w)
          PROVE  latest'[c] = "ok"
      BY <1>1, <1>3, <2>1 DEF SectionFails, fileVars
    <2>2. QED
      BY <1>1, <1>7, <2>1 DEF Fault, BeginFails, JobRaises, WrapUpFails, FailureHandlingFails,
         Crash, fileVars
  <1>8. QED
    BY <1>4, <1>5, <1>6, <1>7 DEF Next

(* For any number of workers and cells, whatever crashes, fails, pauses or  *)
(* resumes: a cell that was once evaluated well is never evaluated again.   *)
THEOREM GoodResultsAreKept == Spec => GoodResultsKept
  <1>1. IInv /\ [Next]_vars
          => [\A c \in Steps : latest[c] = "ok" => latest'[c] = "ok"]_vars
    BY ResultsImprove
  <1>2. QED
    BY <1>1, Invariance, PTL DEF Spec, GoodResultsKept

LEMMA MetadataSources ==
    ASSUME Next
    PROVE  \/ meta' = meta
           \/ meta' = Recomputed /\ latest' = latest
           \/ meta' = Failed
           \/ meta'.status = "completed" => \A c \in Steps : latest'[c] = "ok"
  <1>1. CASE Command
    BY <1>1 DEF Command, UserRepair, AutoRepair, ScanResumesRound, RequestControl, fileVars
  <1>2. CASE RepairProcess
    BY <1>2 DEF RepairProcess, Recover, Plan, PlanRefused, Begin, Persist, Mark, WrapUp,
       SaveMetadata, PauseCheckpoint, PauseLifecycle, StopClear, RetainFinalizing,
       CommitSnapshot, FailMetadata, FailClear, fileVars
  <1>3. ASSUME NEW w \in Workers, Worker(w)
        PROVE  meta' = meta
    BY <1>3 DEF Worker, TakeJob, TryStart, JobReturns, FailJob, FinishJob, AppendRow,
       WorkerPersists, WorkerMarks, fileVars
  <1>4. CASE Fault
    BY <1>4 DEF Fault, BeginFails, JobRaises, SectionFails, WrapUpFails, FailureHandlingFails,
       Crash, fileVars
  <1>5. QED
    BY <1>1, <1>2, <1>3, <1>4 DEF Next

(* A round that says it is completed has a good result in every cell,       *)
(* however many repairs and resumed scans contributed to it.                *)
THEOREM CompletedRoundsAreGood == Spec => []CompletedMeansGood
  <1> USE DEF CompletedMeansGood
  <1>1. Init => CompletedMeansGood
    BY DEF Init, Recomputed
  <1>2. IInv /\ CompletedMeansGood /\ [Next]_vars => CompletedMeansGood'
    <2> SUFFICES ASSUME IInv, CompletedMeansGood, [Next]_vars PROVE CompletedMeansGood'
      OBVIOUS
    <2>1. CASE UNCHANGED vars
      BY <2>1 DEF vars, fileVars, Failing
    <2>2. CASE Next /\ meta' = meta
      BY <2>2, ResultsImprove DEF Failing
    <2>3. CASE meta' = Recomputed /\ latest' = latest
      BY <2>3 DEF Recomputed, Failing
    <2>4. CASE meta' = Failed
      BY <2>4 DEF Failed
    <2>5. CASE meta'.status = "completed" => \A c \in Steps : latest'[c] = "ok"
      BY <2>5 DEF Failing
    <2>6. QED
      BY <2>1, <2>2, <2>3, <2>4, <2>5, MetadataSources
  <1>3. QED
    BY <1>1, <1>2, Invariance, PTL DEF Spec

-----------------------------------------------------------------------------
(* The scope of a candidate repair.  A request and the fields in the        *)
(* checkpoint name a candidate, and perhaps one cell of it; what is owed    *)
(* never reaches further than that.                                        *)

Apt(x) == x.kind = "candidate" /\ x.cell # NoStep => CandidateOf[x.cell] \in x.cands

Within(set, x) == set \subseteq CellsOf(x.cands) /\ (x.cell # NoStep => set \subseteq {x.cell})

(* The checkpoint names what is owed, and lists all of it that still fails. *)
StoredScope ==
    repair # NoRepair /\ repair.kind = "candidate" =>
        /\ Apt(repair)
        /\ Within(owed, repair)
        /\ owed \cap Failing \subseteq repair.rest

(* The process was asked for what is owed: from the start when it resumes,  *)
(* from its first checkpoint on when it is a repair of the user's.          *)
AskedScope ==
    req.kind = "candidate" =>
        /\ Apt(req)
        /\ auto \/ pc \in {"mark", "exec"} => Within(owed, req)

(* It planned no more than it was asked, and all of what is owed.           *)
PlannedScope ==
    req.kind = "candidate" /\ pc \in {"begin", "persist", "mark", "exec"} =>
        /\ Within(scope, req)
        /\ auto \/ pc \in {"mark", "exec"} => owed \cap Failing \subseteq scope

(* An idle process resumes nothing. *)
NothingResumed == pc = "idle" => ~auto

Scoped == StoredScope /\ AskedScope /\ PlannedScope /\ NothingResumed

LEMMA FailingShrinks ==
    ASSUME IInv, Next
    PROVE  Failing' \subseteq Failing
  BY ResultsImprove DEF Failing, IInv, TypeOK

(* The fields of the repair stay or go, and so does the process.            *)
LEMMA ScopedKept ==
    ASSUME Scoped, Failing' \subseteq Failing, UNCHANGED owed, repair' \in {repair, NoRepair},
           \/ EndSession
           \/ /\ UNCHANGED planVars
              /\ \/ pc' \notin {"idle", "begin", "persist", "mark", "exec"}
                 \/ pc' = pc
                 \/ pc = "begin" /\ pc' = "persist"
                 \/ pc = "mark" /\ pc' = "exec"
    PROVE  Scoped'
  <1> USE DEF Scoped, Within, Apt, CellsOf
  <1>1. StoredScope'
    BY DEF StoredScope
  <1>2. CASE EndSession
    BY <1>1, <1>2 DEF EndSession, NoRequest, AskedScope, PlannedScope, NothingResumed
  <1>3. CASE ~EndSession
    <2>1. UNCHANGED <<req, auto, scope>>
      BY <1>3 DEF planVars
    <2>2. pc' \in {"mark", "exec"} => pc \in {"mark", "exec"}
      BY <1>3
    <2>3. pc' \in {"begin", "persist", "mark", "exec"}
            => pc \in {"begin", "persist", "mark", "exec"}
      BY <1>3
    <2>4. AskedScope' /\ PlannedScope' /\ NothingResumed'
      BY <1>3, <2>1, <2>2, <2>3 DEF AskedScope, PlannedScope, NothingResumed
    <2>5. QED
      BY <1>1, <2>4
  <1>4. QED
    BY <1>2, <1>3

(* The fields are written again, from what is still to do.                  *)
LEMMA ScopedMarked ==
    ASSUME IInv, Scoped, UNCHANGED <<latest, owed, planVars>>, pc \in {"mark", "exec"},
           pc' \in {"exec", "x_meta"}, MarkRepair
    PROVE  Scoped'
  <1> USE DEF Scoped, Within, Apt, CellsOf
  <1>1. UNCHANGED <<req, auto, scope>> /\ Failing' = Failing
    BY DEF planVars, Failing
  <1>2. AskedScope' /\ PlannedScope' /\ NothingResumed'
    BY <1>1 DEF AskedScope, PlannedScope, NothingResumed
  <1>3. CASE req.kind # "candidate"
    <2>1. repair'.kind # "candidate"
      BY <1>3 DEF MarkRepair
    <2>2. QED
      BY <1>2, <2>1 DEF StoredScope
  <1>4. CASE req.kind = "candidate"
    <2>1. /\ repair'.cands = req.cands
          /\ repair'.rest = Remaining
          /\ repair'.cell = IF req.cell \in Remaining THEN req.cell ELSE NoStep
      BY <1>4 DEF MarkRepair
    <2>2. Apt(req) /\ Within(owed, req) /\ owed \cap Failing \subseteq scope
      BY <1>4 DEF AskedScope, PlannedScope
    <2>3. scope \cap Failing \subseteq Remaining
      BY <1>4 DEF Remaining, Failing
    <2>4. Apt(repair)' /\ Within(owed, repair)'
      BY <1>4, <2>1, <2>2
    <2>5. (owed \cap Failing)' \subseteq repair'.rest
      BY <1>1, <2>1, <2>2, <2>3
    <2>6. QED
      BY <1>2, <2>4, <2>5 DEF StoredScope
  <1>5. QED
    BY <1>3, <1>4

LEMMA ScopedCommand ==
    ASSUME IInv, Scoped, Command
    PROVE  Scoped'
  <1>1. Failing' \subseteq Failing
    BY FailingShrinks DEF Next
  <1>2. ASSUME NEW r \in Asked, UserRepair(r)
        PROVE  Scoped'
    <2>1. Apt(r) /\ UNCHANGED <<repair, latest, owed, auto>> /\ req' = r /\ pc' = "recover"
      BY <1>2 DEF UserRepair, Goto, Askable, Apt, fileVars
    <2>2. StoredScope'
      BY <1>1, <2>1 DEF Scoped, StoredScope, Within, Apt, CellsOf, Failing
    <2>3. ~auto
      BY <1>2 DEF UserRepair, Scoped, NothingResumed
    <2>4. AskedScope' /\ PlannedScope' /\ NothingResumed'
      BY <2>1, <2>3 DEF AskedScope, PlannedScope, NothingResumed, Apt
    <2>5. QED
      BY <2>2, <2>4 DEF Scoped
  <1>3. ASSUME NEW s \in Sessions, AutoRepair(s)
        PROVE  Scoped'
    <2>1. /\ UNCHANGED <<repair, latest, owed>> /\ repair # NoRepair /\ pc' = "recover"
          /\ req' = [kind |-> repair.kind, cands |-> repair.cands, cell |-> repair.cell]
      BY <1>3 DEF AutoRepair, Goto
    <2>2. StoredScope'
      BY <1>1, <2>1 DEF Scoped, StoredScope, Within, Apt, CellsOf, Failing
    <2>3. AskedScope' /\ PlannedScope' /\ NothingResumed'
      BY <2>1 DEF Scoped, StoredScope, AskedScope, PlannedScope, NothingResumed, Apt, Within,
         CellsOf
    <2>4. QED
      BY <2>2, <2>3 DEF Scoped
  <1>4. CASE ScanResumesRound
    BY <1>1, <1>4, ScopedKept DEF ScanResumesRound, ClearRound
  <1>5. ASSUME NEW c, NEW s, RequestControl(c, s)
        PROVE  Scoped'
    BY <1>1, <1>5, ScopedKept DEF RequestControl
  <1>6. QED
    BY <1>2, <1>3, <1>4, <1>5 DEF Command

(* What is planned reaches no further than what was asked, and a resumption *)
(* plans everything that is owed.                                          *)
LEMMA ScopedPlan ==
    ASSUME IInv, Scoped, Plan
    PROVE  Scoped'
  <1>1. UNCHANGED <<repair, latest, owed, req, auto>> /\ Failing' = Failing
    BY DEF Plan, fileVars, Failing
  <1>2. pc' \notin {"mark", "exec"} /\ scope' = Planned
    BY DEF Plan, Goto
  <1>3. StoredScope' /\ AskedScope'
    BY <1>1, <1>2 DEF Scoped, StoredScope, AskedScope, Within, Apt, CellsOf
  <1>4. ASSUME req.kind = "candidate"
        PROVE  /\ Within(Planned, req)
               /\ auto => owed \cap Failing \subseteq Planned
    <2>1. Planned = CandidateSteps /\ Failing \subseteq Steps
      BY <1>4 DEF Planned, Failing
    <2>2. Within(Planned, req)
      BY <1>4, <2>1 DEF CandidateSteps, Scoped, AskedScope, Apt, Within, CellsOf
    <2>3. ASSUME auto
          PROVE  owed \cap Failing \subseteq Planned
      <3>1. Within(owed, req)
        BY <1>4, <2>3 DEF Scoped, AskedScope
      <3>2. Matching => owed \cap Failing \subseteq repair.rest
        BY DEF Matching, Scoped, StoredScope
      <3>3. QED
        BY <2>1, <3>1, <3>2 DEF CandidateSteps, Within
    <2>4. QED
      BY <2>2, <2>3
  <1>5. PlannedScope'
    BY <1>1, <1>2, <1>4 DEF PlannedScope, Within, CellsOf
  <1>6. NothingResumed'
    BY DEF Plan, Goto, NothingResumed
  <1>7. QED
    BY <1>3, <1>5, <1>6 DEF Scoped

LEMMA ScopedPersist ==
    ASSUME IInv, Scoped, Persist
    PROVE  Scoped'
  <1>1. /\ UNCHANGED <<latest, req, auto, scope>> /\ Failing' = Failing
        /\ repair' = NoRepair /\ pc = "persist" /\ pc' = "mark"
        /\ req.kind = "candidate" => owed' = IF auto THEN owed ELSE scope
    BY DEF Persist, PersistRun, planVars, Goto, Failing
  <1>2. QED
    BY <1>1 DEF Scoped, StoredScope, AskedScope, PlannedScope, NothingResumed, Within, Apt, CellsOf

LEMMA ScopedProcess ==
    ASSUME IInv, Scoped, RepairProcess
    PROVE  Scoped'
  <1>1. Failing' \subseteq Failing
    BY FailingShrinks DEF Next
  <1>2. CASE Plan
    BY <1>2, ScopedPlan
  <1>3. CASE Persist
    BY <1>3, ScopedPersist
  <1>4. CASE Mark
    BY <1>4, ScopedMarked DEF Mark, Goto
  <1>5. CASE Recover \/ PlanRefused \/ Begin
    BY <1>1, <1>5, ScopedKept DEF Recover, PlanRefused, Begin, ClearRound, Goto, fileVars, planVars
  <1>6. CASE WrapUp \/ SaveMetadata \/ PauseCheckpoint \/ PauseLifecycle \/ StopClear
    BY <1>1, <1>6, ScopedKept DEF WrapUp, Drained, SaveMetadata, PauseCheckpoint, PauseLifecycle,
       StopClear, ClearRound, Goto, fileVars
  <1>7. CASE RetainFinalizing \/ CommitSnapshot \/ FailMetadata \/ FailClear
    BY <1>1, <1>7, ScopedKept DEF RetainFinalizing, RetainCheckpoint, CommitSnapshot,
       KeptCheckpoint, FailMetadata, FailClear, ClearRound, Goto
  <1>8. QED
    BY <1>2, <1>3, <1>4, <1>5, <1>6, <1>7 DEF RepairProcess

LEMMA ScopedWorker ==
    ASSUME IInv, Scoped, NEW w \in Workers, Worker(w)
    PROVE  Scoped'
  <1>1. Failing' \subseteq Failing
    BY FailingShrinks DEF Next
  <1>2. CASE WorkerMarks(w)
    <2>1. pc = "exec"
      BY <1>2 DEF WorkerMarks, IInv, AtRest
    <2>2. QED
      BY <1>2, <2>1, ScopedMarked DEF WorkerMarks
  <1>3. CASE TakeJob(w) \/ TryStart(w) \/ JobReturns(w) \/ FinishJob(w) \/ AppendRow(w)
    BY <1>1, <1>3, ScopedKept DEF TakeJob, TryStart, JobReturns, FinishJob, AppendRow, fileVars
  <1>4. CASE FailJob(w) \/ WorkerPersists(w)
    BY <1>1, <1>4, ScopedKept DEF FailJob, WorkerPersists, PersistRun
  <1>5. QED
    BY <1>2, <1>3, <1>4 DEF Worker

LEMMA ScopedFault ==
    ASSUME IInv, Scoped, Fault
    PROVE  Scoped'
  <1>1. Failing' \subseteq Failing
    BY FailingShrinks DEF Next
  <1>2. CASE BeginFails
    <2>1. UNCHANGED <<owed, planVars, latest>> /\ pc' = "x_meta"
      BY <1>2 DEF BeginFails, Goto
    <2>2. CASE pc = "mark" /\ MarkRepair
      BY <2>1, <2>2, ScopedMarked
    <2>3. CASE repair' \in {repair, NoRepair}
      BY <1>1, <2>1, <2>3, ScopedKept
    <2>4. QED
      BY <1>2, <2>2, <2>3 DEF BeginFails, PersistRun
  <1>3. ASSUME NEW w \in Workers, JobRaises(w)
        PROVE  Scoped'
    BY <1>1, <1>3, ScopedKept DEF JobRaises, fileVars
  <1>4. ASSUME NEW w \in Workers, SectionFails(w)
        PROVE  Scoped'
    <2>1. UNCHANGED <<owed, planVars, pc>>
      BY <1>4 DEF SectionFails
    <2>2. CASE wpc[w] \in {"s_mark", "f_mark", "e_mark"} /\ MarkRepair /\ UNCHANGED latest
      <3>1. pc = "exec"
        BY <2>2 DEF IInv, AtRest
      <3>2. QED
        BY <2>1, <2>2, <3>1, ScopedMarked
    <2>3. CASE repair' \in {repair, NoRepair}
      BY <1>1, <2>1, <2>3, ScopedKept
    <2>4. QED
      BY <1>4, <2>2, <2>3 DEF SectionFails, PersistRun, fileVars
  <1>5. CASE WrapUpFails
    BY <1>1, <1>5, ScopedKept DEF WrapUpFails, ClearRound, RetainCheckpoint, Goto, fileVars
  <1>6. CASE FailureHandlingFails \/ Crash
    BY <1>1, <1>6, ScopedKept DEF FailureHandlingFails, KeptCheckpoint, Crash, fileVars
  <1>7. QED
    BY <1>2, <1>3, <1>4, <1>5, <1>6 DEF Fault

(* For any candidates and cells, and whatever crashed, failed or resumed    *)
(* before: the scope in the checkpoint of a candidate repair covers all of  *)
(* what the user asked for that still fails.                               *)
THEOREM ScopesAreKept == Spec => []ScopeIsKept
  <1>1. Init => Scoped
    BY DEF Init, NoRequest, Scoped, StoredScope, AskedScope, PlannedScope, NothingResumed
  <1>2. IInv /\ Scoped /\ [Next]_vars => Scoped'
    <2> SUFFICES ASSUME IInv, Scoped, [Next]_vars PROVE Scoped'
      OBVIOUS
    <2>1. CASE UNCHANGED vars
      BY <2>1 DEF vars, fileVars, planVars, Scoped, StoredScope, AskedScope, PlannedScope,
         NothingResumed, Apt, Within, CellsOf, Failing
    <2>2. CASE Next
      BY <2>2, ScopedCommand, ScopedProcess, ScopedWorker, ScopedFault DEF Next
    <2>3. QED
      BY <2>1, <2>2
  <1>3. Scoped => ScopeIsKept
    BY DEF Scoped, StoredScope, ScopeIsKept
  <1>4. QED
    BY <1>1, <1>2, <1>3, Invariance, PTL DEF Spec

-----------------------------------------------------------------------------
(* A pause.  What the process knows of its scope is in active_run.json      *)
(* whenever no worker is between its writes, unless a call has raised: then *)
(* the repair fails and does not pause.                                     *)

OneLockHolder ==
    \A v, w \in Workers : wpc[v] \in Locked /\ wpc[w] \in Locked => v = w

Unraised == "raised" \notin troubles

Persisted == HasRun /\ ckpt.done = done /\ entries = scope

Marked ==
    /\ Persisted
    /\ repair # NoRepair
    /\ repair.kind = req.kind
    /\ repair.rest = Remaining

RunInPool == pc \in {"mark", "exec"} => HasRun /\ ckpt.life = "active_scan"

PoolRecorded ==
    /\ pc = "mark" => Persisted
    /\ pc = "exec" /\ Unraised =>
        /\ \A w \in Workers : wpc[w] \in {"s_mark", "f_mark", "e_mark"} => Persisted
        /\ (\A w \in Workers : wpc[w] \notin {"s_mark", "f_mark", "e_ckpt", "e_mark"}) => Marked

PauseRecorded ==
    /\ pc = "k_life" => action = "pause"
    /\ pc \in {"k_meta", "k_ckpt", "k_life"} /\ action = "pause" => Marked /\ Remaining # {}

(* A cell without a result of this process still has the one it is repaired *)
(* for.                                                                     *)
UntriedFail ==
    /\ pc \in {"idle", "recover", "plan", "begin", "persist", "mark"} => done = {}
    /\ \/ pc = "exec" /\ Unraised
       \/ pc \in {"k_meta", "k_ckpt", "k_life"}
       => \A c \in scope \ done : latest[c] # "ok"

OfRound == HasRun => ckpt.run = Round

(* A repair that is shown as paused has a cell left that still fails: the   *)
(* pause of one that has nothing left is forgotten.  A batch has a cell it  *)
(* has not tried, so that the app offers to resume it; what a candidate     *)
(* repair has left it may have tried already (the run PausedRepair).        *)
PausedHasWork ==
    HasRun /\ ckpt.life = "paused_recoverable" =>
        /\ repair # NoRepair
        /\ repair.rest \cap Failing # {}
        /\ repair.kind # "candidate" => Resumable

PauseInv ==
    /\ OneLockHolder
    /\ RunInPool
    /\ PoolRecorded
    /\ PauseRecorded
    /\ UntriedFail
    /\ OfRound
    /\ PausedHasWork

(* The run, its progress and its state of life are what they were.          *)
SameFiles ==
    /\ HasRun' <=> HasRun
    /\ HasRun => /\ ckpt'.run = ckpt.run
                 /\ ckpt'.done = ckpt.done
                 /\ ckpt'.life = ckpt.life
    /\ UNCHANGED <<entries, repair>>

LEMMA SameIfCheckpoint ==
    ASSUME UNCHANGED <<ckpt, entries, repair>>
    PROVE  SameFiles
  BY DEF SameFiles, HasRun

LEMMA RecordIsRun ==
    ASSUME ckpt' \in Checkpoint
    PROVE  HasRun'
  BY StoreAssumption DEF HasRun

LEMMA SameIfRequested ==
    ASSUME StoreTypeOK, NEW a \in Control, NEW s \in Sessions \cup {NoSession},
           RequestControlForActiveRun(a, s), UNCHANGED <<entries, repair>>
    PROVE  SameFiles
  <1>1. HasRun /\ ckpt \in Checkpoint /\ ckpt' \in {ckpt, Suppressed(ckpt, s)}
        /\ (s = NoSession => ckpt' = ckpt)
    BY CheckpointIsRecord DEF RequestControlForActiveRun, storeVars
  <1>2. ckpt' \in Checkpoint /\ ckpt'.run = ckpt.run /\ ckpt'.done = ckpt.done /\ ckpt'.life = ckpt.life
    BY <1>1, SuppressedType
  <1>3. QED
    BY <1>1, <1>2, RecordIsRun DEF SameFiles

LEMMA SameIfClaimed ==
    ASSUME StoreTypeOK, ClaimControl(Round) \/ ClaimControlFails(Round), UNCHANGED <<entries, repair>>
    PROVE  SameFiles
  <1>1. CASE ckpt' = ckpt
    BY <1>1, SameIfCheckpoint
  <1>2. CASE ckpt' # ckpt
    <2>1. HasRun /\ ckpt \in Checkpoint
          /\ \/ ckpt' = [ckpt EXCEPT !.stop = TRUE]
             \/ mailbox # NoMail /\ mailbox.session # NoSession /\ ckpt' = Suppressed(ckpt, mailbox.session)
      BY <1>2, CheckpointIsRecord DEF ClaimControl, ClaimControlFails, MarkedByClaim, Claimed
    <2>2. mailbox # NoMail /\ mailbox.session # NoSession => mailbox.session \in Sessions
      BY DEF StoreTypeOK, Mail
    <2>3. ckpt' \in Checkpoint /\ ckpt'.run = ckpt.run /\ ckpt'.done = ckpt.done /\ ckpt'.life = ckpt.life
      <3>1. CASE ckpt' = [ckpt EXCEPT !.stop = TRUE]
        BY <2>1, <3>1 DEF Checkpoint
      <3>2. CASE mailbox # NoMail /\ mailbox.session # NoSession /\ ckpt' = Suppressed(ckpt, mailbox.session)
        BY <2>1, <2>2, <3>2, SuppressedType
      <3>3. QED
        BY <2>1, <3>1, <3>2
    <2>4. QED
      BY <2>1, <2>3, RecordIsRun DEF SameFiles
  <1>3. QED
    BY <1>1, <1>2

LEMMA SameIfAutoClaimed ==
    ASSUME StoreTypeOK, HasRun, ckpt.run = Round, NEW s \in Sessions, ClaimAutoResume(Round, s),
           UNCHANGED <<entries, repair>>
    PROVE  SameFiles
  <1> DEFINE claimed == [attempts |-> ckpt.sessions[s].attempts + 1, suppressed |-> FALSE]
  <1>1. ckpt \in Checkpoint /\ ActiveRun = Round
    BY CheckpointIsRecord DEF ActiveRun
  <1>2. ckpt' = [ckpt EXCEPT !.sessions = [ckpt.sessions EXCEPT ![s] = claimed]]
    BY <1>1 DEF ClaimAutoResume, Checkpoint
  <1>3. claimed \in AutoResumeSession
    BY <1>1 DEF Checkpoint, AutoResumeSession
  <1>4. [ckpt.sessions EXCEPT ![s] = claimed] \in [Sessions -> AutoResumeSession]
    BY <1>1, <1>3 DEF Checkpoint
  <1>5. ckpt' \in Checkpoint /\ ckpt'.run = ckpt.run /\ ckpt'.done = ckpt.done /\ ckpt'.life = ckpt.life
    BY <1>1, <1>2, <1>4 DEF Checkpoint
  <1>6. QED
    BY <1>5, RecordIsRun DEF SameFiles

(* Files that are the same keep what is said of them. *)
LEMMA SameRecorded ==
    ASSUME SameFiles, UNCHANGED <<done, scope, req, latest>>
    PROVE  /\ Persisted' = Persisted
           /\ Marked' = Marked
           /\ Remaining' = Remaining
           /\ OfRound => OfRound'
           /\ PausedHasWork => PausedHasWork'
  <1>1. Remaining' = Remaining /\ Failing' = Failing
    BY DEF Remaining, Failing
  <1>2. Resumable => Resumable'
    BY DEF SameFiles, Resumable
  <1>3. Persisted' = Persisted
    BY DEF SameFiles, Persisted
  <1>4. Marked' = Marked
    BY <1>1, <1>3 DEF SameFiles, Marked
  <1>5. QED
    BY <1>1, <1>2, <1>3, <1>4 DEF SameFiles, OfRound, PausedHasWork

(* A checkpoint of the round is removed. *)
LEMMA ClearedRun ==
    ASSUME OfRound, ClearRound
    PROVE  ~HasRun'
  BY StoreAssumption DEF ClearRound, ClearForRun, Clear, ActiveRun, HasRun, OfRound, storeVars

LEMMA PersistedRun ==
    ASSUME TypeOK, PersistRun, UNCHANGED <<done, scope>>
    PROVE  Persisted' /\ HasRun' /\ ckpt'.life = "active_scan" /\ OfRound'
  <1>1. "active_scan" \in Lifecycle /\ Round \in Runs /\ done \in SUBSET Steps /\ Open \in Metadata
    BY RecomputedType DEF TypeOK, Lifecycle
  <1>2. HasRun' /\ ckpt'.run = Round /\ ckpt'.done = done /\ ckpt'.life = "active_scan"
    BY <1>1, ReplaceCheckpointEffect DEF TypeOK, PersistRun
  <1>3. QED
    BY <1>2 DEF PersistRun, Persisted, OfRound

LEMMA MarkedRun ==
    ASSUME TypeOK, MarkRepair, UNCHANGED <<done, scope, req, latest>>
    PROVE  /\ Persisted => Marked'
           /\ HasRun' = HasRun /\ ckpt' = ckpt /\ (OfRound => OfRound')
  <1>1. repair' # NoRepair
    <2>1. repair' \in Repair
      <3>2. PlanTyped
        BY DEF TypeOK, PlanTyped
      <3>3. Remaining \in SUBSET Steps
        BY <3>2, RemainingInScope
      <3>4. (IF req.kind = "candidate" THEN req.cands
             ELSE {CandidateOf[c] : c \in Remaining}) \in SUBSET Candidates
        BY <3>2, <3>3 DEF PlanTyped, Request
      <3>5. (IF req.cell \in Remaining THEN req.cell ELSE NoStep) \in Steps \cup {NoStep}
        BY <3>3
      <3>6. req.kind \in Kind
        BY <3>2 DEF PlanTyped, Request
      <3>7. QED
        BY <3>3, <3>4, <3>5, <3>6 DEF MarkRepair, Repair
    <2>2. QED
      BY <2>1
  <1>2. Remaining' = Remaining /\ repair'.kind = req.kind /\ repair'.rest = Remaining
    BY DEF Remaining, MarkRepair
  <1>3. ckpt' = ckpt /\ entries' = entries
    BY DEF MarkRepair, storeVars
  <1>4. QED
    BY <1>1, <1>2, <1>3 DEF Marked, Persisted, HasRun, OfRound

(* Nothing but the mailbox, the marks of controls, or a free worker.        *)
LEMMA PauseSame ==
    ASSUME PauseInv, SameFiles, UNCHANGED <<latest, pc, scope, done, req, action, troubles, wpc>>
    PROVE  PauseInv'
  BY SameRecorded DEF PauseInv, OneLockHolder, RunInPool, PoolRecorded, PauseRecorded, UntriedFail,
     Unraised, SameFiles

(* The process is outside the pool and not about to pause. *)
LEMMA PauseOutside ==
    ASSUME pc' \notin {"begin", "persist", "mark", "exec", "k_meta", "k_ckpt", "k_life"},
           pc' \in {"idle", "recover", "plan"} => done' = {},
           \A w \in Workers : wpc'[w] = "free",
           OfRound', PausedHasWork'
    PROVE  PauseInv'
  BY DEF PauseInv, OneLockHolder, RunInPool, PoolRecorded, PauseRecorded, UntriedFail, Locked

(* The session ends. *)
LEMMA PauseEnds ==
    ASSUME EndSession, OfRound', PausedHasWork'
    PROVE  PauseInv'
  <1>1. pc' = "idle" /\ done' = {} /\ \A w \in Workers : wpc'[w] = "free"
    BY DEF EndSession
  <1>2. QED
    BY <1>1, PauseOutside

LEMMA NoRunIsFine ==
    ASSUME ~HasRun'
    PROVE  OfRound' /\ PausedHasWork'
  BY DEF OfRound, PausedHasWork

LEMMA PauseCommand ==
    ASSUME IInv, PauseInv, Command
    PROVE  PauseInv'
  <1> USE DEF IInv, TypeOK
  <1>1. ASSUME pc = "idle", pc' \in {"idle", "recover"}, UNCHANGED poolVars, OfRound', PausedHasWork'
        PROVE  PauseInv'
    BY <1>1, PauseOutside DEF PauseInv, UntriedFail, AtRest, poolVars
  <1>2. ASSUME pc = "idle", pc' \in {"idle", "recover"}, UNCHANGED poolVars, SameFiles, UNCHANGED latest
        PROVE  PauseInv'
    <2>1. OfRound' /\ PausedHasWork'
      <3>1. Failing' = Failing /\ (Resumable => Resumable')
        BY <1>2 DEF Failing, Resumable, SameFiles, poolVars
      <3>2. QED
        BY <1>2, <3>1 DEF SameFiles, PauseInv, OfRound, PausedHasWork
    <2>2. QED
      BY <1>1, <1>2, <2>1
  <1>3. ASSUME NEW r, UserRepair(r) PROVE PauseInv'
    BY <1>2, <1>3, SameIfCheckpoint DEF UserRepair, Goto, fileVars, storeVars
  <1>4. ASSUME NEW s \in Sessions, AutoRepair(s) PROVE PauseInv'
    <2>1. HasRun /\ ckpt.run = Round
      BY <1>4 DEF AutoRepair, Resumable, PauseInv, OfRound
    <2>2. SameFiles
      BY <1>4, <2>1, SameIfAutoClaimed DEF AutoRepair
    <2>3. QED
      BY <1>2, <1>4, <2>2 DEF AutoRepair, Goto
  <1>5. CASE ScanResumesRound
    <2>1. ~HasRun'
      BY <1>5, ClearedRun DEF ScanResumesRound, PauseInv
    <2>2. QED
      BY <1>1, <1>5, <2>1, NoRunIsFine DEF ScanResumesRound
  <1>6. ASSUME NEW a \in Control, NEW s \in Sessions \cup {NoSession}, RequestControl(a, s)
        PROVE  PauseInv'
    BY <1>6, SameIfRequested, PauseSame DEF RequestControl, planVars, poolVars
  <1>7. "pause" \in Control /\ "stop" \in Control
    BY DEF Control
  <1>8. QED
    BY <1>3, <1>4, <1>5, <1>6, <1>7 DEF Command

(* What a pause leaves behind is work. *)
LEMMA PauseShown ==
    ASSUME IInv, PauseInv, pc = "k_life", UpdateRuntimeState("paused_recoverable"),
           UNCHANGED <<entries, repair, latest>>
    PROVE  OfRound' /\ PausedHasWork'
  <1>t. StoreTypeOK
    BY DEF IInv, TypeOK
  <1>1. Marked /\ Remaining # {} /\ \A c \in scope \ done : latest[c] # "ok"
    BY DEF PauseInv, PauseRecorded, UntriedFail
  <1>2. repair # NoRepair /\ repair.rest = Remaining /\ repair.kind = req.kind
    BY <1>1 DEF Marked
  <1>3. Remaining \subseteq Failing
    <2>1. scope \subseteq Steps
      BY DEF IInv, TypeOK
    <2>2. QED
      BY <1>1, <2>1 DEF Remaining, Failing
  <1>4. repair.kind # "candidate" => ckpt.done # entries
    BY <1>1, <1>2 DEF Remaining, Marked, Persisted
  <1>5. "paused_recoverable" \in Lifecycle
    BY DEF Lifecycle
  <1>6. HasRun' => HasRun /\ ckpt'.run = ckpt.run /\ ckpt'.done = ckpt.done
    BY <1>t, <1>5, UpdateRuntimeStateEffect
  <1>7. Failing' = Failing
    BY DEF Failing
  <1>8. QED
    BY <1>1, <1>2, <1>3, <1>4, <1>6, <1>7 DEF PauseInv, OfRound, PausedHasWork, Resumable

LEMMA PauseProcess ==
    ASSUME IInv, PauseInv, RepairProcess
    PROVE  PauseInv'
  <1> USE DEF IInv
  <1>t. TypeOK /\ StoreTypeOK
    BY DEF TypeOK
  <1>f. pc # "exec" => \A w \in Workers : wpc[w] = "free"
    BY DEF AtRest
  <1>1. ASSUME SameFiles, UNCHANGED latest PROVE OfRound' /\ PausedHasWork'
    <2>1. Failing' = Failing /\ (Resumable => Resumable')
      BY <1>1 DEF Failing, Resumable, SameFiles
    <2>2. QED
      BY <1>1, <2>1 DEF SameFiles, PauseInv, OfRound, PausedHasWork
  <1>2. CASE Recover
    <2>1. OfRound' /\ PausedHasWork'
      <3>1. CASE ClearRound
        BY <3>1, ClearedRun, NoRunIsFine DEF PauseInv
      <3>2. CASE UNCHANGED <<storeVars, entries, repair>>
        BY <1>1, <1>2, <3>2, SameIfCheckpoint DEF Recover, storeVars
      <3>3. QED
        BY <1>2, <3>1, <3>2 DEF Recover
    <2>2. CASE EndSession
      BY <2>1, <2>2, PauseEnds
    <2>3. CASE Goto("plan") /\ UNCHANGED <<planVars, poolVars>>
      BY <1>2, <1>f, <2>1, <2>3, PauseOutside DEF Recover, Goto, poolVars, PauseInv, UntriedFail
    <2>4. QED
      BY <1>2, <2>2, <2>3 DEF Recover
  <1>3. CASE PlanRefused
    BY <1>1, <1>3, SameIfCheckpoint, PauseEnds DEF PlanRefused, fileVars, storeVars
  <1>4. CASE Plan
    <2>1. OfRound' /\ PausedHasWork' /\ done' = {} /\ \A w \in Workers : wpc'[w] = "free"
      BY <1>1, <1>4, <1>f, SameIfCheckpoint DEF Plan, fileVars, storeVars, poolVars, PauseInv,
         UntriedFail
    <2>2. pc' \in {"c_meta", "begin"}
      BY <1>4 DEF Plan, Goto
    <2>3. QED
      BY <2>1, <2>2 DEF PauseInv, OneLockHolder, RunInPool, PoolRecorded, PauseRecorded,
         UntriedFail, Locked
  <1>5. CASE Begin
    <2>1. SameFiles /\ pc = "begin" /\ pc' = "persist" /\ UNCHANGED <<latest, done, wpc>>
      BY <1>5, SameIfCheckpoint DEF Begin, ClearControlForRun, Goto, poolVars
    <2>2. OfRound' /\ PausedHasWork' /\ done' = {} /\ \A w \in Workers : wpc'[w] = "free"
      BY <1>1, <1>f, <2>1 DEF PauseInv, UntriedFail
    <2>3. QED
      BY <2>1, <2>2 DEF PauseInv, OneLockHolder, RunInPool, PoolRecorded, PauseRecorded,
         UntriedFail, Locked
  <1>6. CASE Persist
    <2>1. pc = "persist" /\ pc' = "mark" /\ PersistRun /\ UNCHANGED <<latest, done, scope, wpc>>
      BY <1>6 DEF Persist, Goto, planVars, poolVars
    <2>2. Persisted' /\ HasRun' /\ ckpt'.life = "active_scan" /\ OfRound'
      BY <1>t, <2>1, PersistedRun
    <2>3. done' = {} /\ \A w \in Workers : wpc'[w] = "free"
      BY <1>f, <2>1 DEF PauseInv, UntriedFail
    <2>4. QED
      BY <2>1, <2>2, <2>3 DEF PauseInv, OneLockHolder, RunInPool, PoolRecorded, PauseRecorded,
         UntriedFail, Locked,
         PausedHasWork
  <1>7. CASE Mark
    <2>1. pc = "mark" /\ pc' = "exec" /\ MarkRepair /\ UNCHANGED <<latest, done, scope, req, wpc, troubles>>
      BY <1>7 DEF Mark, Goto, planVars
    <2>2. Persisted /\ HasRun /\ ckpt.life = "active_scan" /\ OfRound
      BY <2>1 DEF PauseInv, PoolRecorded, RunInPool
    <2>3. Marked' /\ HasRun' /\ ckpt'.life = "active_scan" /\ OfRound'
      BY <1>t, <2>1, <2>2, MarkedRun
    <2>4. \A c \in scope : latest[c] # "ok"
      BY <2>1 DEF StillToRepair
    <2>5. \A w \in Workers : wpc'[w] = "free"
      BY <1>f, <2>1
    <2>6. QED
      BY <2>1, <2>3, <2>4, <2>5 DEF PauseInv, OneLockHolder, RunInPool, PoolRecorded,
         PauseRecorded, UntriedFail, Locked,
         PausedHasWork
  <1>8. CASE WrapUp
    <2>1. pc = "exec" /\ (\A w \in Workers : wpc'[w] = "free" /\ wpc[w] = "free")
          /\ UNCHANGED <<latest, done, scope, req>> /\ SameFiles
      BY <1>8, SameIfCheckpoint DEF WrapUp, Drained, fileVars, storeVars, planVars
    <2>2. OfRound' /\ PausedHasWork'
      BY <1>1, <2>1
    <2>3. CASE pc' \in {"x_meta", "c_meta"}
      BY <2>1, <2>2, <2>3, PauseOutside
    <2>4. CASE pc' = "k_meta"
      <3>1. Unraised /\ action' = action /\ (action = "pause" => Remaining # {})
        BY <1>8, <2>4 DEF WrapUp, Goto, Unraised
      <3>2. Marked /\ \A c \in scope \ done : latest[c] # "ok"
        BY <2>1, <3>1 DEF PauseInv, PoolRecorded, UntriedFail
      <3>3. Marked' = Marked /\ Remaining' = Remaining
        BY <2>1, SameRecorded
      <3>4. QED
        BY <2>1, <2>2, <2>4, <3>1, <3>2, <3>3 DEF PauseInv, OneLockHolder, RunInPool,
           PoolRecorded, PauseRecorded,
           UntriedFail, Locked
    <2>5. QED
      BY <1>8, <2>3, <2>4 DEF WrapUp, Goto
  <1>9. CASE SaveMetadata \/ PauseCheckpoint
    <2>1. /\ pc \in {"k_meta", "c_meta", "k_ckpt"}
          /\ pc' = IF pc = "k_meta" THEN "k_ckpt" ELSE IF pc = "c_meta" THEN "c_ckpt" ELSE "k_life"
          /\ UNCHANGED <<latest, done, scope, req, wpc, action>>
      BY <1>9 DEF SaveMetadata, PauseCheckpoint, Goto, planVars, poolVars
    <2>2. SameFiles
      <3>1. CASE SaveMetadata
        BY <3>1, SameIfCheckpoint DEF SaveMetadata, storeVars
      <3>2. CASE PauseCheckpoint
        <4>1. [status |-> "paused", closed |-> FALSE] \in Metadata
          BY DEF Metadata, Status
        <4>2. ~HasRun => ckpt' = ckpt
          BY <3>2 DEF PauseCheckpoint, UpdateRunMetadata
        <4>3. HasRun => ckpt \in Checkpoint /\ ckpt' = [ckpt EXCEPT !.meta = [status |-> "paused", closed |-> FALSE]]
          BY <3>2, <1>t, CheckpointIsRecord DEF PauseCheckpoint, UpdateRunMetadata
        <4>4. HasRun => ckpt' \in Checkpoint /\ ckpt'.run = ckpt.run /\ ckpt'.done = ckpt.done /\ ckpt'.life = ckpt.life
          BY <4>1, <4>3 DEF Checkpoint
        <4>5. HasRun' <=> HasRun
          BY <4>2, <4>4, RecordIsRun DEF HasRun
        <4>6. QED
          BY <3>2, <4>4, <4>5 DEF PauseCheckpoint, SameFiles
      <3>3. QED
        BY <1>9, <3>1, <3>2
    <2>3. OfRound' /\ PausedHasWork' /\ Marked' = Marked /\ Remaining' = Remaining
      BY <1>1, <2>1, <2>2, SameRecorded
    <2>4. \A w \in Workers : wpc'[w] = "free"
      BY <1>f, <2>1
    <2>5. CASE pc = "c_meta"
      BY <2>1, <2>3, <2>4, <2>5, PauseOutside
    <2>6. CASE pc # "c_meta"
      <3>1. pc \in {"k_meta", "k_ckpt"} /\ pc' \in {"k_ckpt", "k_life"}
        BY <2>1, <2>6
      <3>2. PauseRecorded' /\ UntriedFail'
        <4>1. pc' = "k_life" => action = "pause"
          BY <1>9, <2>1, <3>1 DEF PauseCheckpoint, SaveMetadata, Goto
        <4>2. QED
          BY <2>1, <2>3, <3>1, <4>1 DEF PauseInv, PauseRecorded, UntriedFail
      <3>3. QED
        BY <2>3, <2>4, <3>1, <3>2 DEF PauseInv, OneLockHolder, RunInPool, PoolRecorded, Locked
    <2>7. QED
      BY <2>5, <2>6
  <1>10. CASE PauseLifecycle
    BY <1>10, PauseShown, PauseEnds DEF PauseLifecycle
  <1>11. CASE StopClear \/ FailClear
    <2>1. ~HasRun' /\ EndSession
      BY <1>11, ClearedRun DEF StopClear, FailClear, PauseInv
    <2>2. QED
      BY <2>1, NoRunIsFine, PauseEnds
  <1>12. CASE CommitSnapshot
    <2>1. EndSession /\ latest' = latest
      BY <1>12 DEF CommitSnapshot
    <2>2. CASE ClearRound
      BY <2>1, <2>2, ClearedRun, NoRunIsFine, PauseEnds DEF PauseInv
    <2>3. CASE KeptCheckpoint
      BY <1>1, <2>1, <2>3, SameIfCheckpoint, PauseEnds DEF KeptCheckpoint
    <2>4. QED
      BY <1>12, <2>2, <2>3 DEF CommitSnapshot
  <1>13. CASE RetainFinalizing
    <2>1. RetainCheckpoint /\ pc' = "commit" /\ \A w \in Workers : wpc'[w] = "free"
      BY <1>13, <1>f DEF RetainFinalizing, Goto, poolVars
    <2>2. "finalizing" \in Lifecycle /\ Round \in Runs /\ done \in SUBSET Steps /\ Recomputed \in Metadata
      BY <1>t, RecomputedType DEF Lifecycle, TypeOK
    <2>3. ckpt'.run = Round /\ ckpt'.life = "finalizing"
      BY <1>t, <2>1, <2>2, ReplaceCheckpointEffect DEF RetainCheckpoint
    <2>4. QED
      BY <2>1, <2>3, PauseOutside DEF OfRound, PausedHasWork
  <1>14. CASE FailMetadata
    <2>1. SameFiles /\ pc' = "x_clear" /\ UNCHANGED latest /\ \A w \in Workers : wpc'[w] = "free"
      BY <1>14, <1>f, SameIfCheckpoint DEF FailMetadata, Goto, storeVars, poolVars
    <2>2. QED
      BY <1>1, <2>1, PauseOutside
  <1>15. QED
    BY <1>2, <1>3, <1>4, <1>5, <1>6, <1>7, <1>8, <1>9, <1>10, <1>11, <1>12, <1>13, <1>14
       DEF RepairProcess

(* A step inside the pool. *)
LEMMA PauseInPool ==
    ASSUME pc' = "exec", HasRun', ckpt'.life = "active_scan", OfRound',
           OneLockHolder', PoolRecorded', UntriedFail'
    PROVE  PauseInv'
  BY DEF PauseInv, RunInPool, PauseRecorded, PausedHasWork

(* A worker moves, between its writes or with the session lock.             *)
LEMMA OneMoves ==
    ASSUME IInv, PauseInv, NEW w \in Workers, NEW place \in WorkerPlace, wpc' = [wpc EXCEPT ![w] = place],
           place \in Locked => NoLockHolder \/ wpc[w] \in Locked
    PROVE  OneLockHolder' /\ \A v \in Workers \ {w} : wpc'[v] = wpc[v]
  BY DEF IInv, TypeOK, PauseInv, OneLockHolder, NoLockHolder

LEMMA AloneAtWork ==
    ASSUME PauseInv, NEW w \in Workers, wpc[w] \in Locked
    PROVE  \A v \in Workers \ {w} : wpc[v] \notin Locked
  BY DEF PauseInv, OneLockHolder

LEMMA MovesPlace ==
    ASSUME IInv, NEW w \in Workers, NEW place \in WorkerPlace, Move(w, place)
    PROVE  wpc' = [wpc EXCEPT ![w] = place] /\ wpc'[w] = place
  BY DEF Move, IInv, TypeOK

(* A worker moves without writing a result or a checkpoint. *)
LEMMA PauseMove ==
    ASSUME IInv, PauseInv, NEW w \in Workers, NEW place \in WorkerPlace, wpc' = [wpc EXCEPT ![w] = place],
           place \in Locked => NoLockHolder \/ wpc[w] \in Locked,
           place \notin {"s_mark", "f_mark", "e_ckpt", "e_mark"},
           wpc[w] \notin {"s_mark", "f_mark", "e_ckpt", "e_mark"},
           pc = "exec", SameFiles, UNCHANGED <<latest, pc, scope, done, req>>,
           troubles \subseteq troubles'
    PROVE  PauseInv'
  <1>1. OneLockHolder' /\ (\A v \in Workers \ {w} : wpc'[v] = wpc[v]) /\ wpc'[w] = place
    BY OneMoves DEF IInv, TypeOK
  <1>2. HasRun' /\ ckpt'.life = "active_scan" /\ OfRound'
    BY SameRecorded DEF PauseInv, RunInPool, SameFiles
  <1>3. Persisted' = Persisted /\ Marked' = Marked
    BY SameRecorded
  <1>4. Unraised' => Unraised
    BY DEF Unraised
  <1>5. PoolRecorded' /\ UntriedFail'
    BY <1>1, <1>3, <1>4 DEF PauseInv, PoolRecorded, UntriedFail
  <1>6. QED
    BY <1>1, <1>2, <1>5, PauseInPool

(* A worker meets an exception: the repair will fail. *)
LEMMA PauseRaised ==
    ASSUME IInv, PauseInv, NEW w \in Workers, NEW place \in WorkerPlace, Move(w, place),
           place \in Locked => NoLockHolder \/ wpc[w] \in Locked,
           pc = "exec", HasRun', ckpt'.life = "active_scan", OfRound', UNCHANGED pc,
           troubles' = troubles \cup {"raised"}
    PROVE  PauseInv'
  <1>1. OneLockHolder' /\ ~Unraised'
    BY MovesPlace, OneMoves DEF Unraised
  <1>2. QED
    BY <1>1, PauseInPool DEF PoolRecorded, UntriedFail

LEMMA PauseWorker ==
    ASSUME IInv, PauseInv, NEW w \in Workers, Worker(w)
    PROVE  PauseInv'
  <1>t. TypeOK /\ StoreTypeOK
    BY DEF IInv, TypeOK
  <1>e. pc = "exec" /\ pc' = pc
    BY DEF IInv, AtRest, Worker, TakeJob, TryStart, JobReturns, FailJob, FinishJob, AppendRow,
       WorkerPersists, WorkerMarks
  <1>s. UNCHANGED <<scope, req>>
    BY DEF Worker, TakeJob, TryStart, JobReturns, FailJob, FinishJob, AppendRow,
       WorkerPersists, WorkerMarks, planVars
  <1>p. {"free", "taken", "running", "returned", "append", "s_ckpt", "s_mark", "f_mark", "e_ckpt", "e_mark"}
          \subseteq WorkerPlace
    BY DEF WorkerPlace, Locked
  <1>r. HasRun /\ ckpt.life = "active_scan" /\ OfRound
    BY <1>e DEF PauseInv, RunInPool
  <1>1. CASE TakeJob(w)
    <2>1. SameFiles /\ UNCHANGED <<latest, done, action, troubles>> /\ wpc[w] = "free"
      BY <1>1, SameIfCheckpoint DEF TakeJob, fileVars, storeVars
    <2>2. CASE UNCHANGED wpc
      BY <1>e, <1>s, <2>1, <2>2, PauseSame
    <2>3. CASE wpc' = [wpc EXCEPT ![w] = "taken"]
      BY <1>e, <1>s, <1>p, <2>1, <2>3, PauseMove DEF Locked
    <2>4. QED
      BY <1>1, <2>2, <2>3 DEF TakeJob
  <1>2. CASE TryStart(w)
    <2>1. SameFiles /\ UNCHANGED <<latest, done, troubles>> /\ NoLockHolder /\ wpc[w] = "taken"
      BY <1>2, <1>t, SameIfClaimed DEF TryStart, PollControl
    <2>2. PICK place \in {"free", "running", "s_ckpt"} : Move(w, place)
      BY <1>2 DEF TryStart
    <2>3. wpc' = [wpc EXCEPT ![w] = place]
      BY <2>2 DEF Move
    <2>4. QED
      BY <1>e, <1>s, <1>p, <2>1, <2>2, <2>3, PauseMove
  <1>3. CASE JobReturns(w)
    BY <1>3, <1>e, <1>s, <1>p, SameIfCheckpoint, PauseMove DEF JobReturns, fileVars, storeVars,
       Locked
  <1>4. CASE FailJob(w)
    <2>1. HasRun' /\ ckpt'.life = "active_scan" /\ OfRound'
      <3>1. CASE PersistRun
        BY <1>4, <1>t, <1>s, <3>1, PersistedRun DEF FailJob
      <3>2. CASE UNCHANGED storeVars
        BY <1>r, <3>2 DEF storeVars, HasRun, OfRound
      <3>3. QED
        BY <1>4, <3>1, <3>2 DEF FailJob
    <2>2. PICK place \in {"free", "f_mark"} : Move(w, place)
      BY <1>4 DEF FailJob
    <2>3. NoLockHolder /\ troubles' = troubles \cup {"raised"}
      BY <1>4 DEF FailJob
    <2>4. QED
      BY <1>e, <1>p, <2>1, <2>2, <2>3, PauseRaised
  <1>5. CASE FinishJob(w)
    <2>1. SameFiles /\ UNCHANGED <<latest, done, troubles>> /\ NoLockHolder /\ wpc[w] = "returned"
      BY <1>5, <1>t, SameIfClaimed DEF FinishJob, PollControl
    <2>2. PICK place \in {"free", "append"} : Move(w, place)
      BY <1>5 DEF FinishJob
    <2>3. wpc' = [wpc EXCEPT ![w] = place]
      BY <2>2 DEF Move
    <2>4. QED
      BY <1>e, <1>s, <1>p, <2>1, <2>2, <2>3, PauseMove
  <1>6. CASE AppendRow(w)
    <2>1. wpc[w] = "append" /\ Move(w, "e_ckpt") /\ UNCHANGED <<storeVars, entries, repair, troubles>>
          /\ done' = done \cup {job[w]} /\ latest' = [latest EXCEPT ![job[w]] = res[w]]
      BY <1>6 DEF AppendRow
    <2>2. wpc'[w] = "e_ckpt" /\ OneLockHolder' /\ \A v \in Workers \ {w} : wpc'[v] = wpc[v]
      BY <1>p, <2>1, MovesPlace, OneMoves DEF Locked
    <2>3. \A v \in Workers : wpc'[v] \notin {"s_mark", "f_mark", "e_mark"}
      BY <2>1, <2>2, AloneAtWork DEF Locked
    <2>4. PoolRecorded'
      BY <1>e, <2>2, <2>3 DEF PoolRecorded
    <2>5. UntriedFail'
      <3>1. ASSUME Unraised', NEW c \in scope' \ done' PROVE latest'[c] # "ok"
        <4>1. c \in scope \ done /\ c # job[w] /\ c \in Steps /\ Unraised
          BY <1>s, <1>t, <2>1, <3>1 DEF TypeOK, Unraised
        <4>2. latest'[c] = latest[c]
          BY <1>t, <2>1, <4>1 DEF TypeOK
        <4>3. QED
          BY <1>e, <4>1, <4>2 DEF PauseInv, UntriedFail
      <3>2. QED
        BY <1>e, <3>1 DEF UntriedFail
    <2>6. HasRun' /\ ckpt'.life = "active_scan" /\ OfRound'
      BY <1>r, <2>1 DEF storeVars, HasRun, OfRound
    <2>7. QED
      BY <1>e, <2>2, <2>4, <2>5, <2>6, PauseInPool
  <1>7. CASE WorkerPersists(w)
    <2>1. /\ wpc[w] \in {"s_ckpt", "e_ckpt"} /\ PersistRun /\ UNCHANGED <<latest, done, troubles>>
          /\ Move(w, IF wpc[w] = "s_ckpt" THEN "s_mark" ELSE "e_mark")
      BY <1>7 DEF WorkerPersists
    <2>2. PICK place \in {"s_mark", "e_mark"} : Move(w, place)
      BY <2>1
    <2>3. wpc'[w] = place /\ OneLockHolder'
      BY <1>p, <2>1, <2>2, MovesPlace, OneMoves DEF Locked
    <2>4. Persisted' /\ HasRun' /\ ckpt'.life = "active_scan" /\ OfRound'
      BY <1>t, <1>s, <2>1, PersistedRun
    <2>5. PoolRecorded'
      BY <1>e, <2>3, <2>4 DEF PoolRecorded
    <2>6. UntriedFail'
      BY <1>e, <1>s, <2>1 DEF PauseInv, UntriedFail, Unraised
    <2>7. QED
      BY <1>e, <2>3, <2>4, <2>5, <2>6, PauseInPool
  <1>8. CASE WorkerMarks(w)
    <2>1. wpc[w] \in {"s_mark", "f_mark", "e_mark"} /\ MarkRepair /\ UNCHANGED <<latest, done, troubles>>
      BY <1>8 DEF WorkerMarks
    <2>2. PICK place \in {"running", "free"} : Move(w, place)
      BY <1>8 DEF WorkerMarks
    <2>3. wpc'[w] = place /\ OneLockHolder' /\ \A v \in Workers \ {w} : wpc'[v] = wpc[v]
      BY <1>p, <2>1, <2>2, MovesPlace, OneMoves DEF Locked
    <2>4. \A v \in Workers : wpc'[v] \notin {"s_mark", "f_mark", "e_ckpt", "e_mark"}
      BY <2>1, <2>2, <2>3, AloneAtWork DEF Locked
    <2>5. (Persisted => Marked') /\ HasRun' /\ ckpt'.life = "active_scan" /\ OfRound'
      BY <1>t, <1>s, <1>r, <2>1, MarkedRun
    <2>6. Unraised' => Persisted
      BY <1>e, <2>1 DEF PauseInv, PoolRecorded, Unraised
    <2>7. PoolRecorded'
      BY <1>e, <2>4, <2>5, <2>6 DEF PoolRecorded
    <2>8. UntriedFail'
      BY <1>e, <1>s, <2>1 DEF PauseInv, UntriedFail, Unraised
    <2>9. QED
      BY <1>e, <2>3, <2>5, <2>7, <2>8, PauseInPool
  <1>9. QED
    BY <1>1, <1>2, <1>3, <1>4, <1>5, <1>6, <1>7, <1>8 DEF Worker

LEMMA PauseFault ==
    ASSUME IInv, PauseInv, Fault
    PROVE  PauseInv'
  <1>t. TypeOK /\ StoreTypeOK
    BY DEF IInv, TypeOK
  <1>f. pc # "exec" => \A w \in Workers : wpc[w] = "free"
    BY DEF IInv, AtRest
  <1>1. ASSUME SameFiles, UNCHANGED latest PROVE OfRound' /\ PausedHasWork'
    <2>1. Failing' = Failing /\ (Resumable => Resumable')
      BY <1>1 DEF Failing, Resumable, SameFiles
    <2>2. QED
      BY <1>1, <2>1 DEF SameFiles, PauseInv, OfRound, PausedHasWork
  <1>2. ASSUME PersistRun, UNCHANGED <<done, scope>> PROVE OfRound' /\ PausedHasWork'
    BY <1>t, <1>2, PersistedRun DEF PausedHasWork
  <1>3. CASE BeginFails
    <2>1. pc' = "x_meta" /\ (\A w \in Workers : wpc'[w] = "free") /\ UNCHANGED <<latest, done, scope, req>>
      BY <1>3, <1>f DEF BeginFails, Goto, planVars, poolVars
    <2>2. CASE UNCHANGED <<storeVars, entries, repair>>
      BY <1>1, <2>1, <2>2, SameIfCheckpoint, PauseOutside DEF storeVars
    <2>3. CASE PersistRun
      BY <1>2, <2>1, <2>3, PauseOutside
    <2>4. CASE pc = "mark" /\ MarkRepair
      <3>1. ckpt' = ckpt /\ HasRun' /\ ckpt.life = "active_scan" /\ OfRound'
        BY <1>t, <2>1, <2>4, MarkedRun DEF PauseInv, RunInPool
      <3>2. QED
        BY <2>1, <3>1, PauseOutside DEF PausedHasWork
    <2>5. QED
      BY <1>3, <2>2, <2>3, <2>4 DEF BeginFails
  <1>4. ASSUME NEW w \in Workers, JobRaises(w) PROVE PauseInv'
    <2>1. wpc[w] = "running" /\ wpc' = [wpc EXCEPT ![w] = "failing"] /\ pc = "exec"
      BY <1>4 DEF JobRaises, Move, IInv, AtRest
    <2>2. SameFiles /\ UNCHANGED <<latest, pc, scope, done, req>> /\ troubles \subseteq troubles'
      BY <1>4, SameIfCheckpoint DEF JobRaises, fileVars, storeVars, planVars
    <2>3. "failing" \in WorkerPlace /\ "failing" \notin Locked
      BY DEF WorkerPlace, Locked
    <2>4. QED
      BY <2>1, <2>2, <2>3, PauseMove
  <1>5. ASSUME NEW w \in Workers, SectionFails(w) PROVE PauseInv'
    <2>1. pc = "exec" /\ UNCHANGED <<pc, done, scope, req>> /\ Move(w, "free")
          /\ troubles' = troubles \cup {"raised"}
      BY <1>5 DEF SectionFails, IInv, AtRest, Locked, planVars
    <2>2. HasRun /\ ckpt.life = "active_scan" /\ OfRound
      BY <2>1 DEF PauseInv, RunInPool
    <2>3. ASSUME SameFiles PROVE HasRun' /\ ckpt'.life = "active_scan" /\ OfRound'
      BY <2>2, <2>3 DEF SameFiles, OfRound
    <2>4. HasRun' /\ ckpt'.life = "active_scan" /\ OfRound'
      <3>1. CASE UNCHANGED fileVars
        BY <2>3, <3>1, SameIfCheckpoint DEF fileVars, storeVars
      <3>2. CASE ClaimControlFails(Round) /\ UNCHANGED <<entries, repair, latest, meta>>
        BY <1>t, <2>3, <3>2, SameIfClaimed
      <3>3. CASE PersistRun
        BY <1>t, <2>1, <3>3, PersistedRun
      <3>4. CASE MarkRepair
        BY <2>2, <3>4 DEF MarkRepair, storeVars, HasRun, OfRound
      <3>5. CASE UNCHANGED <<storeVars, entries, repair, meta>>
        BY <2>3, <3>5, SameIfCheckpoint DEF storeVars
      <3>6. QED
        BY <1>5, <3>1, <3>2, <3>3, <3>4, <3>5 DEF SectionFails
    <2>5. "free" \in WorkerPlace /\ "free" \notin Locked
      BY DEF WorkerPlace, Locked
    <2>6. QED
      BY <2>1, <2>4, <2>5, PauseRaised
  <1>6. CASE WrapUpFails
    <2>1. latest' = latest /\ pc \in {"k_meta", "k_ckpt", "k_life", "c_meta", "c_ckpt"}
      BY <1>6 DEF WrapUpFails, fileVars
    <2>2. OfRound' /\ PausedHasWork'
      <3>1. CASE UNCHANGED fileVars
        BY <1>1, <2>1, <3>1, SameIfCheckpoint DEF fileVars, storeVars
      <3>2. CASE UNCHANGED <<storeVars, entries, repair, latest>>
        BY <1>1, <2>1, <3>2, SameIfCheckpoint DEF storeVars
      <3>3. CASE ClearRound
        BY <3>3, ClearedRun, NoRunIsFine DEF PauseInv
      <3>4. CASE RetainCheckpoint
        <4>1. "finalizing" \in Lifecycle /\ Round \in Runs /\ done \in SUBSET Steps /\ Recomputed \in Metadata
          BY <1>t, RecomputedType DEF Lifecycle, TypeOK
        <4>2. ckpt'.run = Round /\ ckpt'.life = "finalizing"
          BY <1>t, <3>4, <4>1, ReplaceCheckpointEffect DEF RetainCheckpoint
        <4>3. QED
          BY <4>2 DEF OfRound, PausedHasWork
      <3>5. CASE pc = "k_life" /\ UpdateRuntimeState("paused_recoverable")
                 /\ UNCHANGED <<entries, repair, latest, meta>>
        BY <3>5, PauseShown
      <3>6. QED
        BY <1>6, <3>1, <3>2, <3>3, <3>4, <3>5 DEF WrapUpFails
    <2>3. CASE EndSession
      BY <2>2, <2>3, PauseEnds
    <2>4. CASE Goto("x_meta") /\ UNCHANGED <<planVars, poolVars>>
      BY <1>f, <2>1, <2>2, <2>4, PauseOutside DEF Goto, poolVars
    <2>5. QED
      BY <1>6, <2>3, <2>4 DEF WrapUpFails
  <1>7. CASE FailureHandlingFails
    BY <1>1, <1>7, SameIfCheckpoint, PauseEnds DEF FailureHandlingFails, KeptCheckpoint
  <1>8. CASE Crash
    BY <1>1, <1>8, SameIfCheckpoint, PauseEnds DEF Crash, fileVars, storeVars
  <1>9. QED
    BY <1>3, <1>4, <1>5, <1>6, <1>7, <1>8 DEF Fault

(* Whatever crashed, failed or raised: a repair that is paused has failing  *)
(* cells left in its stored scope, and a paused batch can be resumed.       *)
THEOREM PausedRepairsHaveWork == Spec => []PausedHasWork
  <1>1. Init => PauseInv
    BY StoreAssumption DEF Init, StoreInit, HasRun, PauseInv, OneLockHolder, RunInPool,
       PoolRecorded, PauseRecorded,
       UntriedFail, OfRound, PausedHasWork, Locked
  <1>2. IInv /\ PauseInv /\ [Next]_vars => PauseInv'
    <2> SUFFICES ASSUME IInv, PauseInv, [Next]_vars PROVE PauseInv'
      OBVIOUS
    <2>1. CASE UNCHANGED vars
      BY <2>1, SameIfCheckpoint, PauseSame DEF vars, fileVars, storeVars, planVars, poolVars
    <2>2. CASE Next
      BY <2>2, PauseCommand, PauseProcess, PauseWorker, PauseFault DEF Next
    <2>3. QED
      BY <2>1, <2>2
  <1>3. PauseInv => PausedHasWork
    BY DEF PauseInv
  <1>4. QED
    BY <1>1, <1>2, <1>3, Invariance, PTL DEF Spec
=============================================================================
