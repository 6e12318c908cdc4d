-------------------------- MODULE ScanPromiseProofs --------------------------
(***************************************************************************)
(* What ScanSession promises while nobody dismisses a run, for any sets of *)
(* runs, steps, sessions and workers, and any number of starts, requests,  *)
(* failed writes and crashes: it implements RunPromise, starts are not     *)
(* refused, automatic resumption is bounded, and a control that was        *)
(* accepted is on disk; if a resumption reads all of the history, the      *)
(* checkpoint is current; a closed run stays closed; at most one job       *)
(* starts after a stop or a pause, unless a request displaces a waiting    *)
(* pause; and a stop is obeyed, unless it is interrupted by a failed write *)
(* or a crash.  And, whoever dismisses a run: one that is recorded as      *)
(* completed has the result of every step.                                 *)
(***************************************************************************)
EXTENDS ScanSessionProofs

NoDismissal == Budget["dismiss"] = 0

Undismissed == dpc = "idle" /\ budget["dismiss"] = 0

-----------------------------------------------------------------------------
(* Transactions of the store that leave the active run what it is.         *)

(* The same run is active afterwards, with the same progress and the same   *)
(* number of automatic resumptions.                                         *)
SameRun ==
    /\ HasRun' <=> HasRun
    /\ ckpt' = EmptyPayload => ckpt = EmptyPayload
    /\ HasRun => /\ ckpt'.run = ckpt.run
                 /\ ckpt'.done = ckpt.done
                 /\ \A s \in Sessions : ckpt'.sessions[s].attempts = ckpt.sessions[s].attempts

SameCheckpoint == SameRun /\ (HasRun => ckpt'.life = ckpt.life /\ ckpt'.meta = ckpt.meta)

LEMMA SameIfKept == ckpt' = ckpt => SameCheckpoint
  BY DEF SameCheckpoint, SameRun, HasRun

LEMMA SameIfUnchanged == UNCHANGED storeVars => SameCheckpoint
  BY SameIfKept DEF storeVars

LEMMA SameActive == SameRun => ActiveRun' = ActiveRun
  BY DEF SameRun, ActiveRun

(* Suppressing a session, or marking a stop, keeps the run.                 *)
LEMMA SuppressedSame ==
    ASSUME StoreTypeOK, HasRun, NEW s \in Sessions, ckpt' = Suppressed(ckpt, s)
    PROVE  SameCheckpoint
  <1>1. ckpt \in Checkpoint /\ ckpt' \in Checkpoint
    BY CheckpointIsRecord, SuppressedType
  <1>2. \A t \in Sessions : ckpt'.sessions[t].attempts = ckpt.sessions[t].attempts
    <2>1. ckpt'.sessions = [ckpt.sessions EXCEPT ![s].suppressed = TRUE]
      BY <1>1 DEF Suppressed, Checkpoint
    <2>2. \A t \in Sessions : ckpt.sessions[t] \in AutoResumeSession
      BY <1>1 DEF Checkpoint
    <2> QED
      BY <1>1, <2>1, <2>2 DEF AutoResumeSession, Checkpoint
  <1> QED
    BY <1>1, <1>2, SuppressedType, StoreAssumption DEF SameCheckpoint, SameRun, HasRun

LEMMA RequestControlSame ==
    ASSUME StoreTypeOK, NEW a \in Control, NEW s \in Sessions \cup {NoSession},
           RequestControlForActiveRun(a, s)
    PROVE  SameCheckpoint
  <1>1. CASE ckpt' = ckpt
    BY <1>1, SameIfKept
  <1>2. CASE s \in Sessions /\ ckpt' = Suppressed(ckpt, s)
    BY <1>2, SuppressedSame DEF RequestControlForActiveRun
  <1> QED
    BY <1>1, <1>2 DEF RequestControlForActiveRun, storeVars

LEMMA ClaimControlSame ==
    ASSUME StoreTypeOK, NEW r \in Runs, ClaimControl(r) \/ ClaimControlFails(r)
    PROVE  SameCheckpoint
  <1>1. CASE ckpt' = ckpt
    BY <1>1, SameIfKept
  <1>2. CASE HasRun /\ ckpt' = [ckpt EXCEPT !.stop = TRUE]
    <2>1. ckpt \in Checkpoint /\ ckpt' \in Checkpoint
      BY <1>2, CheckpointIsRecord DEF Checkpoint
    <2> QED
      BY <1>2, <2>1, StoreAssumption DEF SameCheckpoint, SameRun, HasRun, Checkpoint
  <1>3. CASE HasRun /\ mailbox # NoMail /\ mailbox.session # NoSession
             /\ ckpt' = Suppressed(ckpt, mailbox.session)
    <2>1. mailbox.session \in Sessions
      BY <1>3 DEF StoreTypeOK, Mail
    <2> QED
      BY <1>3, <2>1, SuppressedSame
  <1> QED
    BY <1>1, <1>2, <1>3 DEF ClaimControl, ClaimControlFails, MarkedByClaim, Claimed

LEMMA UpdateMetadataSame ==
    ASSUME StoreTypeOK, NEW m \in Metadata, UpdateRunMetadata(m)
    PROVE  SameRun /\ (HasRun => ckpt'.life = ckpt.life /\ ckpt'.meta = m)
  <1>1. CASE HasRun
    <2>1. ckpt \in Checkpoint /\ ckpt' = [ckpt EXCEPT !.meta = m]
      BY <1>1, CheckpointIsRecord DEF UpdateRunMetadata
    <2>2. ckpt' \in Checkpoint
      BY <2>1 DEF Checkpoint
    <2> QED
      BY <1>1, <2>1, <2>2, StoreAssumption DEF SameRun, HasRun, Checkpoint
  <1>2. CASE ~HasRun
    BY <1>2 DEF UpdateRunMetadata, SameRun, HasRun
  <1> QED
    BY <1>1, <1>2

LEMMA UpdateStateSame ==
    ASSUME StoreTypeOK, NEW l \in Lifecycle, UpdateRuntimeState(l)
    PROVE  SameRun /\ (HasRun => ckpt'.life = l /\ ckpt'.meta = ckpt.meta)
  <1>1. CASE HasRun
    <2>1. ckpt \in Checkpoint /\ ckpt' = [ckpt EXCEPT !.life = l]
      BY <1>1, CheckpointIsRecord DEF UpdateRuntimeState
    <2>2. ckpt' \in Checkpoint
      BY <2>1 DEF Checkpoint
    <2> QED
      BY <1>1, <2>1, <2>2, StoreAssumption DEF SameRun, HasRun, Checkpoint
  <1>2. CASE ~HasRun
    BY <1>2 DEF UpdateRuntimeState, SameRun, HasRun
  <1> QED
    BY <1>1, <1>2

(* A claim of the active run counts one more automatic resumption.          *)
LEMMA ClaimAutoResumeCounts ==
    ASSUME StoreTypeOK, HasRun, NEW s \in Sessions, ClaimAutoResume(ActiveRun, s)
    PROVE  /\ HasRun' /\ ckpt'.run = ckpt.run
           /\ ckpt'.sessions[s].attempts = ckpt.sessions[s].attempts + 1
           /\ \A t \in Sessions \ {s} : ckpt'.sessions[t].attempts = ckpt.sessions[t].attempts
  <1> DEFINE claimed == [attempts |-> ckpt.sessions[s].attempts + 1, suppressed |-> FALSE]
  <1>1. ckpt \in Checkpoint
    BY CheckpointIsRecord
  <1>2. ckpt' = [ckpt EXCEPT !.sessions = [ckpt.sessions EXCEPT ![s] = claimed]]
    BY <1>1 DEF ClaimAutoResume, ActiveRun, Checkpoint
  <1>3. claimed \in AutoResumeSession /\ claimed.attempts = ckpt.sessions[s].attempts + 1
    BY <1>1 DEF Checkpoint, AutoResumeSession
  <1> HIDE DEF claimed
  <1>4. ckpt'.run = ckpt.run /\ ckpt'.sessions = [ckpt.sessions EXCEPT ![s] = claimed]
    BY <1>1, <1>2 DEF Checkpoint
  <1>5. [ckpt.sessions EXCEPT ![s] = claimed] \in [Sessions -> AutoResumeSession]
    BY <1>1, <1>3 DEF Checkpoint
  <1>6. ckpt' \in Checkpoint
    BY <1>1, <1>2, <1>5 DEF Checkpoint
  <1> QED
    BY <1>1, <1>3, <1>4, <1>6, StoreAssumption DEF HasRun, Checkpoint

(* What the process writes of its run: the maintenance record stays within  *)
(* the run, and is new for another one.                                     *)
Rewritten(r, l, m, d) ==
    /\ HasRun' /\ ckpt' # EmptyPayload
    /\ ckpt'.run = r /\ ckpt'.life = l /\ ckpt'.meta = m /\ ckpt'.done = d
    /\ ckpt'.sessions = IF ActiveRun = r THEN ckpt.sessions ELSE NewSessions

LEMMA ReplaceRewrites ==
    ASSUME StoreTypeOK, NEW r \in Runs, NEW l \in Lifecycle, NEW m \in Metadata,
           NEW d \in SUBSET Steps, ReplaceCheckpoint(r, l, m, d)
    PROVE  Rewritten(r, l, m, d)
  BY ReplaceCheckpointEffect DEF Rewritten, ReplaceCheckpoint, HasRun

(* Clearing for a run either leaves the store alone or removes its run.     *)
LEMMA ClearForRunEnds ==
    ASSUME NEW r \in Runs, ClearForRun(r)
    PROVE  ActiveRun' # r /\ (SameCheckpoint \/ (ActiveRun = r /\ ckpt' = NoCheckpoint))
  <1>1. CASE ActiveRun = r
    BY <1>1, StoreAssumption DEF ClearForRun, Clear, ActiveRun, HasRun
  <1>2. CASE ActiveRun # r
    BY <1>2, SameIfUnchanged, SameActive DEF ClearForRun, SameCheckpoint
  <1> QED
    BY <1>1, <1>2

-----------------------------------------------------------------------------
(* Whose checkpoint, run and metadata it is.                               *)

(* What the action of the control coordinator is at a place of a worker.    *)
HeldAt(place, a) ==
    /\ place = "starting" => a = "none"
    /\ place \in {"append", "commit"} => a # "stop"
    /\ place = "c_meta" => a # "none"
    /\ place \in {"c_ckpt", "c_life"} => a = "pause"
    /\ place = "c_clear" => a = "stop"

(* A process that executes its run owns the checkpoint until it is stopped. *)
Owned ==
    /\ ckpt # EmptyPayload
    /\ pc = "claim" => ActiveRun = run
    /\ pc = "exec" => ActiveRun = run \/ (action = "stop" /\ ActiveRun = NoRun)
    /\ pc \in {"k_meta", "k_ckpt"} => action = "none" /\ ActiveRun = run
    /\ \A w \in Workers : HeldAt(wpc[w], action)

(* Nothing is stored of a run whose id was not handed out.                  *)
Known ==
    /\ HasRun => ckpt.run \in used
    /\ \A r \in Runs : meta[r] # NoMeta => r \in used
    /\ pc \in Planned => run \in used
    /\ \A i \in DOMAIN hist : hist[i].run \in used

(* A run is only begun if it is active already, or has not ended.           *)
Unended ==
    /\ pc = "clear" => ~Ended(run)
    /\ pc \in {"reset", "persist"} => ActiveRun = run \/ ~Ended(run)

Own == Owned /\ Known /\ Unended

LEMMA InitOwn == Init => Own
  BY StoreAssumption
     DEF Init, StoreInit, Own, Owned, Known, Unended, HeldAt, HasRun, Planned

LEMMA InitUndismissed ==
    ASSUME NoDismissal, Init
    PROVE  Undismissed
  BY DEF Init, Undismissed, NoDismissal

LEMMA SpendKeepsDismissals ==
    ASSUME TypeInv, NEW l \in Limits \ {"dismiss"}, Spend(l)
    PROVE  budget'["dismiss"] = budget["dismiss"]
  BY DEF Spend, TypeInv, TypeOK, Limits

LEMMA UndismissedStep == TypeInv /\ Undismissed /\ [Next]_vars => Undismissed'
  <1> SUFFICES ASSUME TypeInv, Undismissed, [Next]_vars PROVE Undismissed'
    OBVIOUS
  <1> USE DEF dismissVars
  <1>1. CASE UNCHANGED vars
    BY <1>1 DEF vars, Undismissed
  <1>2. CASE ScanProcess
    <2>1. \A l \in {"fault"} : Spend(l) => budget'["dismiss"] = budget["dismiss"]
      BY SpendKeepsDismissals DEF Limits
    <2> QED
      BY <1>2, <2>1
         DEF ScanProcess, Undismissed, AutoResumeClaim, Recover, PlanFresh, PlanResume,
             PlanRejected, ForcedClear, ResetControl, FirstCheckpoint, WrapUp,
             SaveCompletedMetadata, RetainCheckpoint, CommitSnapshot, FailMetadata,
             FailCheckpoint, FailLifecycle
  <1>3. CASE \E w \in Workers : Worker(w)
    BY <1>3 DEF Worker, Undismissed, TakeJob, NotStarted, TryStart, StartJob, JobReturns,
                FailJob, FinishJob, AppendRow, Commit, ControlMetadata, PauseCheckpoint,
                PauseLifecycle, StopClear
  <1>4. CASE Dismiss
    BY <1>4 DEF Dismiss, Undismissed, DismissCheckLock, DismissLoad, DismissMetadata,
                DismissClear, Spend
  <1>5. CASE Fault
    <2>1. \A l \in {"fault", "crash"} : Spend(l) => budget'["dismiss"] = budget["dismiss"]
      BY SpendKeepsDismissals DEF Limits
    <2> QED
      BY <1>5, <2>1 DEF Fault, Undismissed, RecoverFails, BeginFails, JobRaises, EntryFails,
                        LockedSectionFails, FinishFails, FailureHandlingFails, Crash
  <1>6. CASE Command
    <2>1. \A l \in {"start", "request"} : Spend(l) => budget'["dismiss"] = budget["dismiss"]
      BY SpendKeepsDismissals DEF Limits
    <2> QED
      BY <1>6, <2>1 DEF Command, Undismissed, Start, AutoResumeDecide, RequestControl
  <1> QED
    BY <1>1, <1>2, <1>3, <1>4, <1>5, <1>6 DEF Next

(* The checkpoint still belongs to the run it did, or to none.              *)
NoneOrSame == SameRun \/ (~HasRun' /\ ckpt' # EmptyPayload)

LEMMA OwnKept ==
    ASSUME Own, NoneOrSame, UNCHANGED <<meta, hist>>, used \subseteq used',
           pc' \in {"claim", "k_meta", "k_ckpt"} => ActiveRun' = run',
           pc' = "exec" => ActiveRun' = run' \/ (action' = "stop" /\ ActiveRun' = NoRun),
           pc' \in {"k_meta", "k_ckpt"} => action' = "none",
           \A w \in Workers : HeldAt(wpc'[w], action'),
           pc' \in Planned => run' \in used',
           pc' = "clear" => ~Ended(run'),
           pc' \in {"reset", "persist"} => ActiveRun' = run' \/ ~Ended(run')
    PROVE  Own'
  BY DEF Own, Owned, Known, Unended, NoneOrSame, SameRun, Ended

LEMMA OwnEnd ==
    ASSUME Own, NoneOrSame, EndSession, UNCHANGED <<meta, hist, used>>
    PROVE  Own'
  BY OwnKept DEF EndSession, HeldAt, Planned

(* Starting, recovering, planning and beginning. *)
LEMMA OwnBegin ==
    ASSUME TypeInv, Own,
           \/ \E k \in Kind : Start(k)
           \/ \E s \in Sessions : AutoResumeDecide(s)
           \/ AutoResumeClaim \/ Recover \/ RecoverFails
           \/ \E r \in Runs : PlanFresh(r)
           \/ PlanResume \/ PlanRejected \/ ForcedClear \/ ResetControl
           \/ FirstCheckpoint \/ BeginFails
    PROVE  Own'
  <1> USE DEF Goto, fileVars, storeVars, planVars, execVars, workerVars
  <1>t. TypeOK /\ StoreTypeOK
    BY DEF TypeInv, TypeOK
  <1>f. pc # "exec" => \A w \in Workers : wpc[w] = "free"
    BY DEF TypeInv, PlacesTypeOK
  <1>h. \A a : HeldAt("free", a)
    BY DEF HeldAt
  <1>p. pc \in Planned => run \in Runs /\ base \in Metadata
    BY DEF TypeInv, PlacesTypeOK
  <1>s. ckpt' = ckpt => NoneOrSame /\ ActiveRun' = ActiveRun
    BY SameIfKept, SameActive DEF NoneOrSame, SameCheckpoint
  <1>1. ASSUME NEW k \in Kind, Start(k) PROVE Own'
    BY <1>1, <1>f, <1>h, <1>s, OwnKept DEF Start, Planned
  <1>2. ASSUME NEW s \in Sessions, AutoResumeDecide(s) PROVE Own'
    BY <1>2, <1>f, <1>h, <1>s, OwnKept DEF AutoResumeDecide, Planned, ActiveRun
  <1>3. CASE AutoResumeClaim
    <2>1. ActiveRun = run /\ run \in Runs /\ HasRun /\ sess \in Sessions
      BY <1>3, StoreAssumption
         DEF AutoResumeClaim, Own, Owned, TypeInv, PlacesTypeOK, ActiveRun
    <2>2. HasRun' /\ ckpt'.run = ckpt.run /\ ckpt' # EmptyPayload
      BY <1>3, <1>t, <2>1, ClaimAutoResumeCounts DEF AutoResumeClaim, HasRun
    <2>3. pc' = "recover" /\ UNCHANGED <<meta, hist, used, wpc>>
      BY <1>3, <2>1 DEF AutoResumeClaim
    <2>4. pc = "claim"
      BY <1>3 DEF AutoResumeClaim
    <2> QED
      BY <1>f, <1>h, <2>1, <2>2, <2>3, <2>4
         DEF Own, Owned, Known, Unended, Planned
  <1>4. CASE Recover
    <2>1. NoneOrSame
      <3>1. CASE Finalizing /\ Evidence
        <4>1. ckpt' = NoCheckpoint
          BY <1>4, <3>1 DEF Recover, Finalizing, ClearForRun, Clear, ActiveRun
        <4> QED
          BY <4>1, StoreAssumption DEF NoneOrSame, HasRun
      <3>2. CASE ~(Finalizing /\ Evidence)
        BY <1>4, <1>s, <3>2 DEF Recover
      <3> QED
        BY <3>1, <3>2
    <2> QED
      BY <1>4, <1>f, <1>h, <2>1, OwnKept, OwnEnd DEF Recover, Planned
  <1>5. CASE RecoverFails
    BY <1>5, <1>s, OwnEnd DEF RecoverFails, KeptCheckpoint
  <1>6. ASSUME NEW r \in Runs, PlanFresh(r) PROVE Own'
    <2>1. ~Ended(r)
      BY <1>6 DEF PlanFresh, Own, Known, Ended
    <2> QED
      BY <1>6, <1>f, <1>h, <1>s, <2>1, OwnKept DEF PlanFresh
  <1>7. CASE PlanResume
    <2>1. run' \in used /\ (ActiveRun = run' \/ ~Ended(run'))
      <3>1. CASE HasRun
        BY <1>7, <3>1 DEF PlanResume, ResumeRun, ActiveRun, Own, Known
      <3>2. CASE ~HasRun
        <4>1. hist # <<>> /\ hist \in Seq(Row) /\ ~Ended(LastRun) /\ run' = LastRun
          BY <1>7, <1>t, <3>2 DEF PlanResume, Resumable, Inferred, ResumeRun, TypeOK
        <4>2. Len(hist) \in DOMAIN hist
          BY <4>1
        <4> QED
          BY <4>1, <4>2 DEF Own, Known, LastRun
      <3> QED
        BY <3>1, <3>2
    <2> QED
      BY <1>7, <1>f, <1>h, <1>s, <2>1, OwnKept DEF PlanResume
  <1>8. CASE PlanRejected
    BY <1>8, <1>s, OwnEnd DEF PlanRejected
  <1>9. CASE ForcedClear
    <2>1. CASE Clear /\ Goto("reset") /\ UNCHANGED <<planVars, life, action, execVars, workerVars, budget>>
      <3>1. NoneOrSame
        BY <2>1, StoreAssumption DEF Clear, NoneOrSame, HasRun
      <3>2. run' \in used /\ ~Ended(run')
        BY <1>9, <2>1 DEF ForcedClear, Own, Known, Unended, Planned
      <3> QED
        BY <1>9, <1>f, <1>h, <2>1, <3>1, <3>2, OwnKept DEF ForcedClear
    <2>2. CASE KeptCheckpoint /\ EndSession
      BY <1>9, <1>s, <2>2, OwnEnd DEF ForcedClear, KeptCheckpoint
    <2> QED
      BY <1>9, <2>1, <2>2 DEF ForcedClear
  <1>10. CASE ResetControl
    BY <1>10, <1>f, <1>h, <1>s, OwnKept
       DEF ResetControl, ClearControlForRun, Own, Known, Unended, Planned
  <1>r. ASSUME pc \in {"reset", "persist"}, ReplaceCheckpoint(run, life, base, done)
        PROVE  HasRun' /\ ckpt' # EmptyPayload /\ ckpt'.run = run /\ ActiveRun' = run
    <2>1. Rewritten(run, life, base, done)
      BY <1>r, <1>t, <1>p, ReplaceRewrites DEF TypeOK, Planned
    <2> QED
      BY <2>1 DEF Rewritten, ActiveRun
  <1>11. CASE FirstCheckpoint
    <2>1. pc = "persist" /\ pc' = "exec" /\ UNCHANGED <<meta, hist, used, run, wpc>>
      BY <1>11 DEF FirstCheckpoint
    <2>2. HasRun' /\ ckpt' # EmptyPayload /\ ckpt'.run = run /\ ActiveRun' = run
      BY <1>11, <1>r DEF FirstCheckpoint
    <2> QED
      BY <1>f, <1>h, <2>1, <2>2 DEF Own, Owned, Known, Unended, Planned
  <1>12. CASE BeginFails
    <2>1. pc \in {"reset", "persist"} /\ pc' = "x_meta" /\ UNCHANGED <<meta, hist, used, run, wpc>>
      BY <1>12 DEF BeginFails
    <2>2. CASE UNCHANGED storeVars
      BY <1>f, <1>h, <1>s, <2>1, <2>2, OwnKept DEF Own, Known, Planned
    <2>3. CASE ReplaceCheckpoint(run, life, base, done)
      BY <1>f, <1>h, <1>r, <2>1, <2>3 DEF Own, Owned, Known, Unended, Planned
    <2> QED
      BY <1>12, <2>2, <2>3 DEF BeginFails
  <1> QED
    BY <1>1, <1>2, <1>3, <1>4, <1>5, <1>6, <1>7, <1>8, <1>9, <1>10, <1>11, <1>12

(* A step of a worker: it leaves the active run, writes its own, or ends it *)
(* because of a stop.                                                       *)
LEMMA OwnWorker ==
    ASSUME TypeInv, Own, pc = "exec", NEW w \in Workers, NEW p \in WorkerPlace, Move(w, p),
           UNCHANGED <<pc, run, used>>,
           \A r \in Runs : meta'[r] # NoMeta => r \in used,
           \A i \in DOMAIN hist' : hist'[i].run \in used,
           HeldAt(p, action'),
           action' = action \/ (NoLockHolder /\ (action = "stop" => action' = "stop")),
           \/ SameRun
           \/ action # "stop" /\ HasRun' /\ ckpt' # EmptyPayload /\ ckpt'.run = run
           \/ action' = "stop" /\ ckpt' = NoCheckpoint
    PROVE  Own'
  <1>1. run \in used
    BY DEF Own, Known, Planned
  <1>2. \A v \in Workers : HeldAt(wpc'[v], action')
    <2>1. \A v \in Workers : v # w => wpc'[v] = wpc[v]
      BY MoveType
    <2>2. wpc'[w] = p
      BY MoveType
    <2>3. \A v \in Workers : HeldAt(wpc[v], action)
      BY DEF Own, Owned
    <2>4. NoLockHolder => \A v \in Workers : HeldAt(wpc[v], action')
      BY DEF NoLockHolder, Locked, HeldAt
    <2> QED
      BY <2>1, <2>2, <2>3, <2>4
  <1>3. ckpt' # EmptyPayload
    BY StoreAssumption DEF Own, Owned, SameRun
  <1>4. ActiveRun' = run \/ (action' = "stop" /\ ActiveRun' = NoRun)
    <2>1. CASE SameRun
      BY <2>1, SameActive DEF Own, Owned
    <2>2. CASE HasRun' /\ ckpt'.run = run
      BY <2>2 DEF ActiveRun
    <2>3. CASE action' = "stop" /\ ckpt' = NoCheckpoint
      BY <2>3 DEF ActiveRun, HasRun
    <2> QED
      BY <2>1, <2>2, <2>3
  <1>5. HasRun' => ckpt'.run \in used
    BY <1>1, StoreAssumption DEF Own, Known, SameRun, HasRun
  <1> QED
    BY <1>1, <1>2, <1>3, <1>4, <1>5 DEF Own, Owned, Known, Unended, Planned

(* A poll of the mailbox by the process that owns the checkpoint.           *)
LEMMA PollSame ==
    ASSUME TypeInv, Own, NEW w \in Workers, wpc[w] \in {"taken", "returned"}, PollControl(w)
    PROVE  /\ SameCheckpoint
           /\ action = "stop" => action' = "stop"
           /\ \E p \in {"c_meta", "starting", "append", "free"} :
                /\ Move(w, p)
                /\ HeldAt(p, action')
                /\ (action' = action) \/ p = "c_meta"
  <1>1. pc = "exec" /\ run \in Runs
    BY DEF TypeInv, PlacesTypeOK, Planned
  <1>2. SameCheckpoint
    BY <1>1, ClaimControlSame DEF PollControl, TypeInv, TypeOK
  <1>3. ckpt # NoCheckpoint => ActiveRun = run
    <2>1. HasRun => ActiveRun \in Runs
      BY CheckpointIsRecord DEF TypeInv, TypeOK, ActiveRun
    <2> QED
      BY <1>1, <2>1, StoreAssumption DEF Own, Owned, ActiveRun, HasRun
  <1>4. /\ Polled # action => Polled # "none"
        /\ action = "stop" => Polled = "stop"
    BY <1>3 DEF Polled, Claimed
  <1>5. action' = Polled
    BY DEF PollControl
  <1>6. CASE Polled \notin {"none", action}
    BY <1>2, <1>4, <1>5, <1>6 DEF PollControl, HeldAt
  <1>7. CASE Polled \in {"none", action}
    <2>1. Polled = action /\ Move(w, AfterPoll(w, action))
      BY <1>4, <1>7 DEF PollControl
    <2>2. AfterPoll(w, action) \in {"starting", "append", "free"} /\ HeldAt(AfterPoll(w, action), action)
      BY DEF AfterPoll, HeldAt, Discards
    <2> QED
      BY <1>2, <1>4, <1>5, <2>1, <2>2
  <1> QED
    BY <1>6, <1>7

(* What a worker persists while the run is executed. *)
LEMMA PersistOwn ==
    ASSUME TypeInv, pc = "exec", PersistRun
    PROVE  \/ action = "stop" /\ UNCHANGED storeVars
           \/ action # "stop" /\ Rewritten(run, life, PersistedMetadata, done)
  <1>1. /\ run \in Runs /\ life \in Lifecycle /\ done \in SUBSET Steps
        /\ PersistedMetadata \in Metadata
    BY DEF TypeInv, TypeOK, PlacesTypeOK, Planned, PersistedMetadata, Metadata, Status
  <1> QED
    BY <1>1, ReplaceRewrites DEF PersistRun, TypeInv, TypeOK

LEMMA CommitOwn ==
    ASSUME TypeInv, NEW w \in Workers, wpc[w] = "commit", CountResult(w),
           ReplaceCheckpoint(run, life, PersistedMetadata, done')
    PROVE  Rewritten(run, life, PersistedMetadata, done')
  <1>1. /\ run \in Runs /\ life \in Lifecycle /\ PersistedMetadata \in Metadata
        /\ job[w] \in Steps
    BY DEF TypeInv, TypeOK, PlacesTypeOK, Planned, PersistedMetadata, Metadata, Status
  <1>2. done' \in SUBSET Steps
    BY <1>1, CountResultType
  <1> QED
    BY <1>1, <1>2, ReplaceRewrites DEF TypeInv, TypeOK

LEMMA AppendKnown ==
    ASSUME TypeInv, Own, NEW w \in Workers, wpc[w] = "append", AppendResult(w)
    PROVE  \A i \in DOMAIN hist' : hist'[i].run \in used
  <1> DEFINE row == [run |-> run, step |-> job[w], kind |-> res[w]]
  <1>1. hist \in Seq(Row) /\ row \in Row /\ run \in used
    BY DEF TypeInv, TypeOK, PlacesTypeOK, Planned, Own, Known, Row
  <1>2. hist' = Append(hist, row) /\ row.run = run
    BY DEF AppendResult
  <1> HIDE DEF row
  <1>3. \A i \in DOMAIN hist' : hist'[i] = row \/ (i \in DOMAIN hist /\ hist'[i] = hist[i])
    BY <1>1, <1>2
  <1> QED
    BY <1>1, <1>2, <1>3 DEF Own, Known

LEMMA OwnWork ==
    ASSUME TypeInv, Own, NEW w \in Workers,
           Worker(w) \/ JobRaises(w) \/ EntryFails(w) \/ LockedSectionFails(w)
    PROVE  Own'
  <1> USE DEF fileVars, procVars, planVars, WorkerPlace, Locked
  <1>t. TypeOK /\ StoreTypeOK
    BY DEF TypeInv, TypeOK
  <1>e. pc = "exec" /\ run \in Runs
    BY WorkerExecutes
  <1>m. \A r \in Runs : meta[r] # NoMeta => r \in used
    BY DEF Own, Known
  <1>i. \A i \in DOMAIN hist : hist[i].run \in used
    BY DEF Own, Known
  <1>h. HeldAt(wpc[w], action) /\ \A a : HeldAt("free", a)
    BY DEF Own, Owned, HeldAt
  <1>s. ckpt' = ckpt => SameRun
    BY SameIfKept DEF SameCheckpoint
  <1>r. \A l, m, d : Rewritten(run, l, m, d) => HasRun' /\ ckpt' # EmptyPayload /\ ckpt'.run = run
    BY DEF Rewritten
  <1>q. PersistRun => SameRun \/ (action # "stop" /\ HasRun' /\ ckpt' # EmptyPayload /\ ckpt'.run = run)
    BY <1>e, <1>s, <1>r, PersistOwn DEF storeVars
  <1>1. CASE TakeJob(w) \/ JobReturns(w)
    <2>1. wpc' \in [Workers -> WorkerPlace] /\ wpc'[w] \in {"skipping", "taken", "returned"}
          /\ \A v \in Workers : v # w => wpc'[v] = wpc[v]
      BY <1>1, <1>t DEF TakeJob, JobReturns, TypeOK
    <2>2. \A v \in Workers : HeldAt(wpc'[v], action)
      BY <2>1 DEF HeldAt, Own, Owned
    <2>3. UNCHANGED <<ckpt, meta, hist, used, pc, run, action>>
      BY <1>1 DEF TakeJob, JobReturns, storeVars
    <2> QED
      BY <1>s, <2>2, <2>3 DEF Own, Owned, Known, Unended, HasRun, ActiveRun, Ended
  <1>2. CASE NotStarted(w)
    BY <1>2, <1>e, <1>m, <1>i, <1>h, <1>q, OwnWorker DEF NotStarted
  <1>3. CASE StartJob(w)
    BY <1>3, <1>e, <1>m, <1>i, <1>q, OwnWorker DEF StartJob, HeldAt
  <1>4. CASE EntryFails(w)
    <2>1. SameRun
      BY <1>4, <1>t, <1>e, <1>s, ClaimControlSame DEF EntryFails, SameCheckpoint, storeVars
    <2> QED
      BY <1>4, <1>e, <1>m, <1>i, <1>h, <2>1, OwnWorker DEF EntryFails
  <1>5. CASE JobRaises(w)
    BY <1>5, <1>e, <1>m, <1>i, <1>s, OwnWorker DEF JobRaises, HeldAt, storeVars
  <1>6. CASE TryStart(w) \/ FinishJob(w)
    <2>1. PollControl(w) /\ wpc[w] \in {"taken", "returned"} /\ NoLockHolder
          /\ UNCHANGED <<pc, run, used, meta, hist>>
      BY <1>6 DEF TryStart, FinishJob
    <2> QED
      BY <1>e, <1>m, <1>i, <2>1, PollSame, OwnWorker DEF SameCheckpoint
  <1>7. CASE FailJob(w)
    BY <1>7, <1>e, <1>m, <1>i, <1>h, <1>s, <1>q, OwnWorker DEF FailJob, storeVars
  <1>8. CASE AppendRow(w)
    <2>1. HeldAt("commit", action)
      BY <1>8, <1>h DEF AppendRow, HeldAt
    <2> QED
      BY <1>8, <1>e, <1>m, <1>s, <2>1, AppendKnown, OwnWorker DEF AppendRow, storeVars
  <1>9. CASE Commit(w)
    <2>1. action # "stop"
      BY <1>9, <1>h DEF Commit, HeldAt
    <2> QED
      BY <1>9, <1>e, <1>m, <1>i, <1>h, <1>r, <2>1, CommitOwn, OwnWorker DEF Commit
  <1>10. CASE ControlMetadata(w)
    <2>1. \A r \in Runs : meta'[r] # NoMeta => r \in used
      BY <1>10, <1>e, <1>m, <1>t DEF ControlMetadata, SaveRunMetadata, TypeOK, Own, Known, Planned
    <2>2. action \in Control
      BY <1>10, <1>h, <1>t DEF ControlMetadata, HeldAt, TypeOK
    <2>3. \E p \in {"c_ckpt", "c_clear"} : Move(w, p) /\ HeldAt(p, action)
      BY <1>10, <2>2 DEF ControlMetadata, HeldAt, Control
    <2> QED
      BY <1>10, <1>e, <1>i, <1>s, <2>1, <2>3, OwnWorker DEF ControlMetadata, storeVars
  <1>11. CASE PauseCheckpoint(w)
    <2>1. SameRun
      BY <1>11, <1>t, MetadataTypes, UpdateMetadataSame DEF PauseCheckpoint
    <2>2. HeldAt("c_life", action)
      BY <1>11, <1>h DEF PauseCheckpoint, HeldAt
    <2> QED
      BY <1>11, <1>e, <1>m, <1>i, <2>1, <2>2, OwnWorker DEF PauseCheckpoint
  <1>a. AfterPoll(w, action) \in {"starting", "append", "free"} /\ HeldAt(AfterPoll(w, action), action)
    BY DEF AfterPoll, HeldAt, Discards
  <1>12. CASE PauseLifecycle(w)
    <2>1. SameRun
      BY <1>12, <1>t, UpdateStateSame DEF PauseLifecycle, TypeOK
    <2> QED
      BY <1>12, <1>e, <1>m, <1>i, <1>a, <2>1, OwnWorker DEF PauseLifecycle
  <1>13. CASE StopClear(w)
    <2>1. action = "stop"
      BY <1>13, <1>h DEF StopClear, HeldAt
    <2>2. SameRun \/ ckpt' = NoCheckpoint
      BY <1>13, <1>e, ClearForRunEnds DEF StopClear, SameCheckpoint
    <2> QED
      BY <1>13, <1>e, <1>m, <1>i, <1>a, <2>1, <2>2, OwnWorker DEF StopClear
  <1>14. CASE LockedSectionFails(w)
    <2>1. /\ Move(w, "free")
          /\ UNCHANGED <<pc, run, used, meta, action>>
      BY <1>14 DEF LockedSectionFails
    <2>2. CASE ckpt' = ckpt /\ UNCHANGED hist
      BY <1>e, <1>m, <1>i, <1>h, <1>s, <2>1, <2>2, OwnWorker
    <2>3. CASE wpc[w] = "starting" /\ PersistRun /\ UNCHANGED hist
      BY <1>e, <1>m, <1>i, <1>h, <1>q, <2>1, <2>3, OwnWorker
    <2>4. CASE wpc[w] = "append" /\ AppendResult(w) /\ UNCHANGED storeVars
      BY <1>e, <1>m, <1>h, <1>s, <2>1, <2>4, AppendKnown, OwnWorker DEF storeVars
    <2>5. CASE /\ wpc[w] = "commit"
               /\ CountResult(w)
               /\ ReplaceCheckpoint(run, life, PersistedMetadata, done')
               /\ UNCHANGED hist
      <3>1. action # "stop"
        BY <1>h, <2>5 DEF HeldAt
      <3> QED
        BY <1>e, <1>m, <1>i, <1>h, <1>r, <2>1, <2>5, <3>1, CommitOwn, OwnWorker
    <2> QED
      BY <1>14, <2>2, <2>3, <2>4, <2>5 DEF LockedSectionFails, KeptCheckpoint, storeVars
  <1> QED
    BY <1>1, <1>2, <1>3, <1>4, <1>5, <1>6, <1>7, <1>8, <1>9, <1>10, <1>11, <1>12, <1>13, <1>14
       DEF Worker

(* The end of a scan. *)
LEMMA OwnFinish ==
    ASSUME TypeInv, Own,
           \/ WrapUp \/ SaveCompletedMetadata \/ RetainCheckpoint \/ FinishFails
           \/ CommitSnapshot \/ FailMetadata \/ FailCheckpoint \/ FailLifecycle
           \/ FailureHandlingFails \/ Crash
    PROVE  Own'
  <1> USE DEF Goto, fileVars, storeVars, planVars, execVars, workerVars
  <1>t. TypeOK /\ StoreTypeOK
    BY DEF TypeInv, TypeOK
  <1>f. pc # "exec" => \A w \in Workers : wpc[w] = "free"
    BY DEF TypeInv, PlacesTypeOK
  <1>h. \A a : HeldAt("free", a)
    BY DEF HeldAt
  <1>p. pc \in Planned => run \in Runs /\ run \in used
    BY DEF TypeInv, PlacesTypeOK, Own, Known
  <1>s. ckpt' = ckpt => NoneOrSame /\ ActiveRun' = ActiveRun
    BY SameIfKept, SameActive DEF NoneOrSame, SameCheckpoint
  <1>r. ASSUME pc = "k_ckpt", ReplaceCheckpoint(run, RetainedLifecycle, CompletedMetadata, done)
        PROVE  HasRun' /\ ckpt' # EmptyPayload /\ ckpt'.run = run
    <2>1. Rewritten(run, RetainedLifecycle, CompletedMetadata, done)
      BY <1>r, <1>t, <1>p, MetadataTypes, ReplaceRewrites DEF TypeOK, Planned
    <2> QED
      BY <2>1 DEF Rewritten
  <1>1. CASE WrapUp
    <2>1. CASE EndSession
      BY <1>1, <1>s, <2>1, OwnEnd DEF WrapUp
    <2>2. CASE pc' = "x_meta" /\ UNCHANGED <<run, wpc>>
      BY <1>1, <1>h, <1>s, <1>p, <2>2, OwnKept DEF WrapUp, Drained, Planned
    <2>3. CASE action # "stop" /\ pc' = "k_meta" /\ action' = "none" /\ UNCHANGED <<run, wpc>>
      <3>1. ActiveRun = run
        BY <1>1, <2>3 DEF WrapUp, Drained, Own, Owned
      <3> QED
        BY <1>1, <1>h, <1>s, <1>p, <2>3, <3>1, OwnKept DEF WrapUp, Drained, Planned
    <2> QED
      BY <1>1, <2>1, <2>2, <2>3 DEF WrapUp
  <1>2. ASSUME NEW m, SaveRunMetadata(run, m), pc \in Planned \ {"exec"}, pc' \in Planned,
               pc' \notin {"exec", "clear", "reset", "persist"},
               pc' \in {"k_meta", "k_ckpt"} => pc \in {"k_meta", "k_ckpt"},
               UNCHANGED <<ckpt, hist, run, action, wpc, used>>
        PROVE  Own'
    <2>1. \A r \in Runs : meta'[r] # NoMeta => r \in used
      BY <1>2, <1>p, <1>t DEF SaveRunMetadata, TypeOK, Own, Known
    <2> QED
      BY <1>2, <1>f, <1>h, <1>p, <1>s, <2>1
         DEF Own, Owned, Known, Unended, HasRun, ActiveRun, Planned
  <1>3. CASE SaveCompletedMetadata
    BY <1>3, <1>2 DEF SaveCompletedMetadata, Planned
  <1>4. CASE FailMetadata
    BY <1>4, <1>2 DEF FailMetadata, Planned
  <1>5. CASE RetainCheckpoint
    <2>1. HasRun' /\ ckpt' # EmptyPayload /\ ckpt'.run = run /\ UNCHANGED <<meta, hist, used>>
      BY <1>5, <1>r DEF RetainCheckpoint
    <2>2. CASE EndSession
      BY <1>5, <1>h, <1>p, <2>1, <2>2
         DEF RetainCheckpoint, EndSession, Own, Owned, Known, Unended, Planned
    <2>3. CASE pc' = "commit" /\ UNCHANGED <<run, wpc>>
      BY <1>5, <1>f, <1>h, <1>p, <2>1, <2>3
         DEF RetainCheckpoint, Own, Owned, Known, Unended, Planned
    <2> QED
      BY <1>5, <2>2, <2>3 DEF RetainCheckpoint
  <1>6. CASE FinishFails
    <2>1. pc \in {"k_meta", "k_ckpt"} /\ pc' = "x_meta" /\ UNCHANGED <<meta, hist, used, run, wpc>>
      BY <1>6 DEF FinishFails
    <2>2. CASE UNCHANGED storeVars
      BY <1>f, <1>h, <1>s, <1>p, <2>1, <2>2, OwnKept DEF Planned
    <2>3. CASE pc = "k_ckpt" /\ ReplaceCheckpoint(run, RetainedLifecycle, CompletedMetadata, done)
      BY <1>f, <1>h, <1>p, <1>r, <2>1, <2>3 DEF Own, Owned, Known, Unended, Planned
    <2> QED
      BY <1>6, <2>2, <2>3 DEF FinishFails
  <1>7. CASE CommitSnapshot
    <2>1. NoneOrSame
      <3>1. CASE Finalizing /\ ckpt.meta.closed /\ ClearForRun(ckpt.run)
        <4>1. ckpt' = NoCheckpoint
          BY <3>1 DEF Finalizing, ClearForRun, Clear, ActiveRun
        <4> QED
          BY <4>1, StoreAssumption DEF NoneOrSame, HasRun
      <3>2. CASE ckpt' = ckpt
        BY <1>s, <3>2
      <3> QED
        BY <1>7, <3>1, <3>2 DEF CommitSnapshot, KeptCheckpoint
    <2> QED
      BY <1>7, <2>1, OwnEnd DEF CommitSnapshot
  <1>8. CASE FailCheckpoint
    <2>1. NoneOrSame
      BY <1>8, <1>t, MetadataTypes, UpdateMetadataSame DEF FailCheckpoint, NoneOrSame
    <2> QED
      BY <1>8, <1>f, <1>h, <1>p, <2>1, OwnKept DEF FailCheckpoint, Planned
  <1>9. CASE FailLifecycle
    <2>1. NoneOrSame
      BY <1>9, <1>t, UpdateStateSame DEF FailLifecycle, NoneOrSame, Lifecycle
    <2> QED
      BY <1>9, <2>1, OwnEnd DEF FailLifecycle
  <1>10. CASE FailureHandlingFails \/ Crash
    BY <1>10, <1>s, OwnEnd DEF FailureHandlingFails, Crash
  <1> QED
    BY <1>1, <1>3, <1>4, <1>5, <1>6, <1>7, <1>8, <1>9, <1>10

(* A pause or stop asked for by another process.                            *)
LEMMA RequestSame ==
    ASSUME TypeInv,
           (\E s \in Requesters : RequestControl("pause", s)) \/ RequestControl("stop", NoSession)
    PROVE  SameCheckpoint /\ UNCHANGED <<hist, meta, procVars, workerVars, used, late, autos>>
  <1>1. ASSUME NEW a \in Control, NEW s \in Sessions \cup {NoSession}, RequestControl(a, s)
        PROVE  SameCheckpoint
    BY <1>1, RequestControlSame DEF RequestControl, TypeInv, TypeOK
  <1> QED
    BY <1>1, SessionAssumption DEF RequestControl, Control

LEMMA OwnRequest ==
    ASSUME TypeInv, Own,
           (\E s \in Requesters : RequestControl("pause", s)) \/ RequestControl("stop", NoSession)
    PROVE  Own'
  <1>1. SameRun /\ ActiveRun' = ActiveRun
    BY RequestSame, SameActive DEF SameCheckpoint
  <1> QED
    BY <1>1, RequestSame DEF procVars, workerVars, planVars, Own, Owned, Known, Unended, SameRun,
       Ended

LEMMA NoDismissalStarts == Undismissed => ~Dismiss
  BY DEF Undismissed, Dismiss, DismissCheckLock, DismissLoad, DismissMetadata, DismissClear, Spend

LEMMA OwnStep == TypeInv /\ Undismissed /\ Own /\ [Next]_vars => Own'
  <1> SUFFICES ASSUME TypeInv, Undismissed, Own, [Next]_vars PROVE Own'
    OBVIOUS
  <1>1. CASE UNCHANGED vars
    BY <1>1 DEF vars, fileVars, storeVars, procVars, planVars, execVars, workerVars, Own, Owned,
                Known, Unended, HasRun, ActiveRun, Ended
  <1>2. CASE Command
    BY <1>2, OwnBegin, OwnRequest DEF Command
  <1>3. CASE ScanProcess
    BY <1>3, OwnBegin, OwnFinish DEF ScanProcess
  <1>4. CASE \E w \in Workers : Worker(w)
    BY <1>4, OwnWork
  <1>5. CASE Dismiss
    BY <1>5, NoDismissalStarts
  <1>6. CASE Fault
    BY <1>6, OwnBegin, OwnWork, OwnFinish DEF Fault
  <1> QED
    BY <1>1, <1>2, <1>3, <1>4, <1>5, <1>6 DEF Next

(* What every reachable state satisfies if no run is dismissed.             *)
LEMMA UndismissedSession ==
    ASSUME NoDismissal
    PROVE  Spec => [](TypeInv /\ Backed /\ Evident /\ Undismissed /\ Own)
  <1>1. Init => TypeInv /\ Backed /\ Evident /\ Undismissed /\ Own
    BY InitTyped, InitBacked, InitEvident, InitUndismissed, InitOwn
  <1>2. TypeInv /\ Backed /\ Evident /\ Undismissed /\ Own /\ [Next]_vars
          => (TypeInv /\ Backed /\ Evident /\ Undismissed /\ Own)'
    BY TypeStep, BackedStep, EvidentStep, UndismissedStep, OwnStep
  <1> QED
    BY <1>1, <1>2, PTL DEF Spec

(* While nobody dismisses a run, every state the store is left in can be    *)
(* recovered, so a start of the user is not refused.                        *)
THEOREM StartsAreNotRefused == NoDismissal => (Spec => []StartIsNeverRefused)
  <1> SUFFICES ASSUME NoDismissal PROVE Spec => []StartIsNeverRefused
    OBVIOUS
  <1>1. Own /\ Evident => StartIsNeverRefused
    BY DEF Own, Owned, Evident, FinalizingHasEvidence, StartIsNeverRefused, Incomplete
  <1> QED
    BY UndismissedSession, <1>1, PTL

-----------------------------------------------------------------------------
(* The refinement of RunPromise.                                           *)

PromiseStep == [Promise!Next]_(Promise!vars)

LEMMA InitPromise == Init => Promise!Init
  BY StoreAssumption
     DEF Init, StoreInit, Promise!Init, Closed, Ended, Committed, StepsOf

(* Nothing is opened or committed, and at most one run, open, is closed.    *)
LEMMA PromiseCloses ==
    ASSUME UNCHANGED <<hist, used>>, NEW c \in used \cap Runs, Closed(c) => Closed(c)',
           \A r \in Runs \ {c} : Closed(r)' <=> Closed(r)
    PROVE  PromiseStep
  <1>1. \A r \in Runs : Committed(r)' = Committed(r)
    BY DEF Committed, StepsOf
  <1>2. CASE Closed(c)' <=> Closed(c)
    BY <1>1, <1>2 DEF PromiseStep, Promise!vars
  <1>3. CASE ~Closed(c) /\ Closed(c)'
    BY <1>1, <1>3 DEF PromiseStep, Promise!Next, Promise!Close
  <1> QED
    BY <1>2, <1>3

LEMMA PromiseStutters ==
    ASSUME UNCHANGED <<hist, used>>, \A r \in Runs : Closed(r)' <=> Closed(r)
    PROVE  PromiseStep
  <1>1. \A r \in Runs : Committed(r)' = Committed(r)
    BY DEF Committed, StepsOf
  <1> QED
    BY <1>1 DEF PromiseStep, Promise!vars

RunKept == HasRun' => HasRun /\ ckpt'.run = ckpt.run

(* A write of the checkpoint: it stays that of its run, becomes that of the *)
(* process, whose run has not ended or is active already, or is removed.    *)
LEMMA PromiseKeeps ==
    ASSUME TypeInv, Own, UNCHANGED <<meta, hist, used>>,
           \/ CheckpointKept \/ RunKept
           \/ HasRun' /\ ckpt'.run = run /\ (ActiveRun = run \/ ~Ended(run))
    PROVE  PromiseStep
  <1>1. \A r \in Runs : Ended(r)' <=> Ended(r)
    BY DEF Ended
  <1>2. CASE HasRun /\ HasRun' /\ ckpt'.run = ckpt.run
    BY <1>1, <1>2, PromiseStutters DEF Closed, ActiveRun
  <1>3. CASE ~HasRun /\ ~HasRun'
    BY <1>1, <1>3, PromiseStutters DEF Closed, ActiveRun
  <1>4. CASE ~HasRun /\ HasRun' /\ ckpt'.run = run /\ (ActiveRun = run \/ ~Ended(run))
    <2>1. \A r \in Runs : r # run => (Closed(r)' <=> Closed(r))
      BY <1>1, <1>4, StoreAssumption DEF Closed, ActiveRun
    <2>2. \A r \in Runs : r = run => ~Closed(r) /\ ~Closed(r)'
      BY <1>4, StoreAssumption DEF Closed, ActiveRun
    <2> QED
      BY <2>1, <2>2, PromiseStutters
  <1>5. CASE HasRun /\ (~HasRun' \/ (ckpt'.run = run /\ (ActiveRun = run \/ ~Ended(run))))
    <2>1. PICK c \in used \cap Runs : c = ckpt.run
      BY <1>5, CheckpointIsRecord DEF Own, Known, TypeInv, TypeOK
    <2>2. ~Closed(c) /\ \A r \in Runs \ {c} : Closed(r)' <=> Closed(r)
      BY <1>1, <1>5, <2>1, StoreAssumption DEF Closed, ActiveRun
    <2> QED
      BY <2>1, <2>2, PromiseCloses
  <1> QED
    BY <1>2, <1>3, <1>4, <1>5 DEF CheckpointKept, RunKept

(* Metadata of the process's run: it ends the run, or the run is active.    *)
LEMMA PromiseMetadata ==
    ASSUME TypeInv, Own, UNCHANGED <<ckpt, hist, used>>, pc \in Planned,
           NEW m \in Metadata, SaveRunMetadata(run, m), m.closed \/ ActiveRun = run
    PROVE  PromiseStep
  <1>1. PICK c \in used \cap Runs : c = run
    BY DEF Own, Known, TypeInv, PlacesTypeOK
  <1>2. ActiveRun' = ActiveRun
    BY DEF ActiveRun, HasRun
  <1>3. \A r \in Runs \ {c} : Ended(r)' <=> Ended(r)
    BY <1>1 DEF SaveRunMetadata, Ended, TypeInv, TypeOK
  <1>4. m.closed => Ended(c)'
    BY <1>1, SessionAssumption DEF SaveRunMetadata, Ended, TypeInv, TypeOK
  <1> QED
    BY <1>1, <1>2, <1>3, <1>4, PromiseCloses DEF Closed

(* A result that is committed belongs to an open run.                       *)
LEMMA PromiseAppends ==
    ASSUME TypeInv, Own, NEW w \in Workers, wpc[w] = "append", AppendResult(w),
           UNCHANGED <<storeVars, meta, used, run>>
    PROVE  PromiseStep
  <1> DEFINE row == [run |-> run, step |-> job[w], kind |-> res[w]]
  <1>1. /\ hist \in Seq(Row) /\ row \in Row
        /\ pc = "exec" /\ run \in Runs /\ run \in used /\ job[w] \in Steps
    BY DEF TypeInv, TypeOK, PlacesTypeOK, Planned, Own, Known, Row
  <1>2. hist' = Append(hist, row) /\ row.run = run /\ row.step = job[w]
    BY DEF AppendResult
  <1>3. /\ DOMAIN hist' = DOMAIN hist \cup {Len(hist) + 1} /\ Len(hist) + 1 \notin DOMAIN hist
        /\ hist'[Len(hist) + 1] = row
        /\ \A i \in DOMAIN hist : hist'[i] = hist[i]
    <2> HIDE DEF row
    <2> QED
      BY <1>1, <1>2
  <1>c. PICK c \in used \cap Runs : c = run
    BY <1>1
  <1>j. PICK s \in Steps : s = job[w]
    BY <1>1
  <1>4. Committed(c)' = Committed(c) \cup {s}
    BY <1>2, <1>3, <1>c, <1>j DEF Committed, StepsOf
  <1>5. \A r \in Runs \ {c} : Committed(r)' = Committed(r)
    BY <1>2, <1>3, <1>c DEF Committed, StepsOf
  <1>6. \A r \in Runs : Closed(r)' <=> Closed(r)
    BY DEF Closed, Ended, ActiveRun, HasRun, storeVars
  <1>7. ~Closed(c)
    <2>1. ActiveRun = c
      BY <1>1, <1>c DEF Own, Owned, HeldAt
    <2> QED
      BY <2>1 DEF Closed
  <1>8. CASE s \in Committed(c)
    BY <1>4, <1>5, <1>6, <1>8 DEF PromiseStep, Promise!vars
  <1>9. CASE s \notin Committed(c)
    <2>1. Promise!Commit(c, s)
      BY <1>4, <1>5, <1>6, <1>7, <1>9 DEF Promise!Commit
    <2> QED
      BY <2>1 DEF PromiseStep, Promise!Next
  <1> QED
    BY <1>8, <1>9

LEMMA PromiseBegin ==
    ASSUME TypeInv, Own,
           \/ \E k \in Kind : Start(k)
           \/ \E s \in Sessions : AutoResumeDecide(s)
           \/ AutoResumeClaim \/ Recover \/ RecoverFails
           \/ \E r \in Runs : PlanFresh(r)
           \/ PlanResume \/ PlanRejected \/ ForcedClear \/ ResetControl
           \/ FirstCheckpoint \/ BeginFails
    PROVE  PromiseStep
  <1> USE DEF fileVars, storeVars
  <1>t. TypeOK /\ StoreTypeOK
    BY DEF TypeInv, TypeOK
  <1>u. CASE \/ \E k \in Kind : Start(k)
             \/ \E s \in Sessions : AutoResumeDecide(s)
             \/ PlanResume \/ PlanRejected
    BY <1>u, StoreKept, PromiseKeeps DEF Start, AutoResumeDecide, PlanResume, PlanRejected
  <1>1. CASE AutoResumeClaim
    <2>1. run \in Runs /\ sess \in Sessions
      BY <1>1 DEF AutoResumeClaim, TypeInv, PlacesTypeOK
    <2> QED
      BY <1>1, <1>t, <2>1, ClaimAutoResumeKeeps, PromiseKeeps DEF AutoResumeClaim
  <1>2. CASE Recover \/ RecoverFails
    <2>1. CheckpointKept
      BY <1>2, <1>t, StoreKept, ClearForRunKeeps, KeptCheckpointKeeps DEF Recover, RecoverFails
    <2> QED
      BY <1>2, <2>1, PromiseKeeps DEF Recover, RecoverFails
  <1>3. ASSUME NEW r \in Runs, PlanFresh(r) PROVE PromiseStep
    <2>1. /\ UNCHANGED <<hist, meta, ckpt>>
          /\ r \notin used /\ used' = used \cup {r}
      BY <1>3 DEF PlanFresh
    <2>2. \A q \in Runs : (Closed(q)' <=> Closed(q)) /\ Committed(q)' = Committed(q)
      BY <2>1 DEF Closed, Ended, ActiveRun, HasRun, Committed, StepsOf
    <2>3. ~Closed(r)
      BY <2>1 DEF Closed, Ended, Own, Known
    <2>4. Promise!Open(r)
      BY <2>1, <2>2, <2>3 DEF Promise!Open
    <2> QED
      BY <2>4 DEF PromiseStep, Promise!Next
  <1>4. CASE ForcedClear
    <2>1. CheckpointKept
      BY <1>4, <1>t, ClearEffect, KeptCheckpointKeeps DEF ForcedClear, CheckpointKept
    <2> QED
      BY <1>4, <2>1, PromiseKeeps DEF ForcedClear
  <1>5. CASE ResetControl
    <2>1. CheckpointKept
      BY <1>5, <1>t, ClearControlKeeps DEF ResetControl
    <2> QED
      BY <1>5, <2>1, PromiseKeeps DEF ResetControl
  <1>6. CASE FirstCheckpoint \/ BeginFails
    <2>1. pc \in {"reset", "persist"} /\ UNCHANGED <<meta, hist, used>>
      BY <1>6 DEF FirstCheckpoint, BeginFails
    <2>2. CASE UNCHANGED storeVars
      BY <2>1, <2>2, StoreKept, PromiseKeeps
    <2>3. CASE ReplaceCheckpoint(run, life, base, done)
      <3>1. Rewritten(run, life, base, done)
        BY <1>t, <2>1, <2>3, ReplaceRewrites DEF TypeInv, PlacesTypeOK, Planned, TypeOK
      <3> QED
        BY <2>1, <3>1, PromiseKeeps DEF Rewritten, Own, Unended
    <2> QED
      BY <1>6, <2>2, <2>3 DEF FirstCheckpoint, BeginFails
  <1> QED
    BY <1>u, <1>1, <1>2, <1>3, <1>4, <1>5, <1>6

LEMMA PromiseWork ==
    ASSUME TypeInv, Own, NEW w \in Workers,
           Worker(w) \/ JobRaises(w) \/ EntryFails(w) \/ LockedSectionFails(w)
    PROVE  PromiseStep
  <1> USE DEF fileVars, storeVars, procVars, planVars
  <1>t. TypeOK /\ StoreTypeOK
    BY DEF TypeInv, TypeOK
  <1>e. pc = "exec" /\ pc \in Planned /\ run \in Runs
    BY WorkerExecutes DEF Planned
  <1>h. HeldAt(wpc[w], action) /\ (action # "stop" => ActiveRun = run)
    BY <1>e DEF Own, Owned
  <1>k. UNCHANGED <<ckpt, meta, hist, used>> => PromiseStep
    BY PromiseKeeps DEF CheckpointKept, HasRun
  <1>p. PersistRun /\ UNCHANGED <<meta, hist, used>> => PromiseStep
    BY <1>e, <1>h, <1>k, PersistOwn, PromiseKeeps DEF Rewritten
  <1>1. CASE TakeJob(w) \/ JobReturns(w) \/ JobRaises(w)
    BY <1>1, <1>k DEF TakeJob, JobReturns, JobRaises
  <1>2. CASE NotStarted(w) \/ StartJob(w) \/ FailJob(w)
    BY <1>2, <1>k, <1>p DEF NotStarted, StartJob, FailJob
  <1>3. CASE TryStart(w) \/ FinishJob(w)
    BY <1>3, <1>t, <1>e, ClaimControlKeeps, PromiseKeeps DEF TryStart, FinishJob, PollControl
  <1>4. CASE EntryFails(w)
    BY <1>4, <1>e, EntryFailsKeeps, PromiseKeeps DEF EntryFails
  <1>5. CASE AppendRow(w)
    BY <1>5, PromiseAppends DEF AppendRow
  <1>6. ASSUME wpc[w] = "commit", CountResult(w), UNCHANGED <<meta, hist, used>>,
               ReplaceCheckpoint(run, life, PersistedMetadata, done')
        PROVE  PromiseStep
    <2>1. HasRun' /\ ckpt'.run = run
      BY <1>6, CommitOwn DEF Rewritten
    <2> QED
      BY <1>6, <1>h, <2>1, PromiseKeeps DEF HeldAt
  <1>7. CASE Commit(w)
    BY <1>7, <1>6 DEF Commit
  <1>8. CASE ControlMetadata(w)
    <2>1. ControlledMetadata.closed \/ ActiveRun = run
      BY <1>h DEF ControlledMetadata
    <2> QED
      BY <1>8, <1>e, <2>1, MetadataTypes, PromiseMetadata DEF ControlMetadata
  <1>9. CASE PauseCheckpoint(w)
    <2>1. RunKept
      BY <1>9, <1>t, MetadataTypes, UpdateMetadataSame DEF PauseCheckpoint, RunKept, SameRun
    <2> QED
      BY <1>9, <2>1, PromiseKeeps DEF PauseCheckpoint
  <1>10. CASE PauseLifecycle(w)
    <2>1. RunKept
      BY <1>10, <1>t, UpdateStateSame DEF PauseLifecycle, SameRun, TypeOK, RunKept
    <2> QED
      BY <1>10, <2>1, PromiseKeeps DEF PauseLifecycle
  <1>11. CASE StopClear(w)
    BY <1>11, <1>t, ClearForRunKeeps, PromiseKeeps DEF StopClear
  <1>12. CASE LockedSectionFails(w)
    <2>1. UNCHANGED <<meta, used, run>>
      BY <1>12 DEF LockedSectionFails
    <2>2. CASE ckpt' = ckpt /\ UNCHANGED hist
      BY <1>k, <2>1, <2>2
    <2>3. CASE PersistRun /\ UNCHANGED hist
      BY <1>p, <2>1, <2>3
    <2>4. CASE wpc[w] = "append" /\ AppendResult(w) /\ UNCHANGED storeVars
      BY <2>1, <2>4, PromiseAppends
    <2>5. CASE /\ wpc[w] = "commit" /\ CountResult(w) /\ UNCHANGED hist
               /\ ReplaceCheckpoint(run, life, PersistedMetadata, done')
      BY <1>6, <2>1, <2>5
    <2> QED
      BY <1>12, <2>2, <2>3, <2>4, <2>5 DEF LockedSectionFails, KeptCheckpoint
  <1> QED
    BY <1>1, <1>2, <1>3, <1>4, <1>5, <1>7, <1>8, <1>9, <1>10, <1>11, <1>12 DEF Worker

LEMMA PromiseFinish ==
    ASSUME TypeInv, Own,
           \/ WrapUp \/ SaveCompletedMetadata \/ RetainCheckpoint \/ FinishFails
           \/ CommitSnapshot \/ FailMetadata \/ FailCheckpoint \/ FailLifecycle
           \/ FailureHandlingFails \/ Crash
    PROVE  PromiseStep
  <1> USE DEF fileVars, storeVars, planVars
  <1>t. TypeOK /\ StoreTypeOK
    BY DEF TypeInv, TypeOK
  <1>1. CASE WrapUp \/ FailureHandlingFails \/ Crash
    BY <1>1, StoreKept, PromiseKeeps DEF WrapUp, FailureHandlingFails, Crash
  <1>2. CASE SaveCompletedMetadata
    BY <1>2, MetadataTypes, PromiseMetadata DEF SaveCompletedMetadata, CompletedMetadata, Planned
  <1>3. CASE FailMetadata
    BY <1>3, MetadataTypes, PromiseMetadata DEF FailMetadata, FailedMetadata, Planned
  <1>4. CASE RetainCheckpoint \/ FinishFails
    <2>1. CASE UNCHANGED storeVars
      BY <1>4, <2>1, StoreKept, PromiseKeeps DEF RetainCheckpoint, FinishFails
    <2>2. CASE pc = "k_ckpt" /\ ReplaceCheckpoint(run, RetainedLifecycle, CompletedMetadata, done)
      <3>1. Rewritten(run, RetainedLifecycle, CompletedMetadata, done)
        BY <1>t, <2>2, MetadataTypes, ReplaceRewrites DEF TypeInv, PlacesTypeOK, Planned, TypeOK
      <3> QED
        BY <1>4, <2>2, <3>1, PromiseKeeps DEF RetainCheckpoint, FinishFails, Rewritten, Own, Owned
    <2> QED
      BY <1>4, <2>1, <2>2 DEF RetainCheckpoint, FinishFails
  <1>5. CASE CommitSnapshot
    <2>1. CheckpointKept
      BY <1>5, <1>t, StoreKept, ClearForRunKeeps, KeptCheckpointKeeps DEF CommitSnapshot
    <2> QED
      BY <1>5, <2>1, PromiseKeeps DEF CommitSnapshot
  <1>6. CASE FailCheckpoint
    <2>1. RunKept
      BY <1>6, <1>t, MetadataTypes, UpdateMetadataSame DEF FailCheckpoint, SameRun, RunKept
    <2> QED
      BY <1>6, <2>1, PromiseKeeps DEF FailCheckpoint
  <1>7. CASE FailLifecycle
    <2>1. RunKept
      BY <1>7, <1>t, UpdateStateSame DEF FailLifecycle, SameRun, Lifecycle, RunKept
    <2> QED
      BY <1>7, <2>1, PromiseKeeps DEF FailLifecycle
  <1> QED
    BY <1>1, <1>2, <1>3, <1>4, <1>5, <1>6, <1>7

LEMMA PromiseIsKept == TypeInv /\ Undismissed /\ Own /\ [Next]_vars => PromiseStep
  <1> SUFFICES ASSUME TypeInv, Undismissed, Own, [Next]_vars PROVE PromiseStep
    OBVIOUS
  <1>1. CASE UNCHANGED vars
    BY <1>1, PromiseStutters DEF vars, fileVars, storeVars, Closed, Ended, ActiveRun, HasRun
  <1>2. CASE \/ \E s \in Requesters : RequestControl("pause", s)
             \/ RequestControl("stop", NoSession)
    BY <1>2, OthersKeepCheckpoint, RequestSame, PromiseKeeps
  <1>3. CASE (\E k \in Kind \ {"auto"} : Start(k)) \/ (\E s \in Sessions : AutoResumeDecide(s))
    BY <1>3, PromiseBegin
  <1>4. CASE ScanProcess
    BY <1>4, PromiseBegin, PromiseFinish DEF ScanProcess
  <1>5. CASE \E w \in Workers : Worker(w)
    BY <1>5, PromiseWork
  <1>6. CASE Dismiss
    BY <1>6, NoDismissalStarts
  <1>7. CASE Fault
    BY <1>7, PromiseBegin, PromiseWork, PromiseFinish DEF Fault
  <1> QED
    BY <1>1, <1>2, <1>3, <1>4, <1>5, <1>6, <1>7 DEF Next, Command

(* The detailed system implements RunPromise while nobody dismisses a run:  *)
(* each run is opened once, commits a step once and only while it is open,  *)
(* and stays closed, whatever is interrupted, resumed, refused or lost.     *)
THEOREM RunPromiseIsKept == NoDismissal => (Spec => KeepsPromise)
  <1> SUFFICES ASSUME NoDismissal PROVE Spec => KeepsPromise
    OBVIOUS
  <1>1. TypeInv /\ Undismissed /\ Own /\ [Next]_vars => [Promise!Next]_(Promise!vars)
    BY PromiseIsKept DEF PromiseStep
  <1> QED
    BY UndismissedSession, InitPromise, <1>1, PTL DEF Spec, KeepsPromise, Promise!Spec

-----------------------------------------------------------------------------
(* The bound on automatic resumption.                                      *)

(* A run whose checkpoint is in finalizing has ended in its metadata too.   *)
Concluded ==
    /\ pc = "k_ckpt" => Ended(run)
    /\ Finalizing => Ended(ckpt.run)

(* An automatic resumption plans and begins the run it claimed, if at all:  *)
(* if recovery cleared that run, its metadata forbid to infer it again.     *)
Purposeful ==
    /\ pc = "claim" => kind = "auto"
    /\ kind = "recover" => pc = "recover"
    /\ pc = "clear" => kind = "force"
    /\ kind = "auto" /\ pc \in {"recover", "reset", "persist"} => ActiveRun = run
    /\ kind = "auto" /\ pc = "plan" => ActiveRun = run \/ (~HasRun /\ Ended(run))

(* The checkpoint counts at least the automatic resumptions there were.     *)
Counted ==
    /\ AutoResumesAreBounded
    /\ HasRun => \A s \in Sessions : /\ autos[s] <= ckpt.sessions[s].attempts
                                     /\ ckpt.sessions[s].attempts <= AttemptLimit
    /\ pc = "claim" => ckpt.sessions[sess].attempts + 1 <= AttemptLimit
    /\ pc # "idle" /\ kind \in {"scan", "force"} => \A s \in Sessions : autos[s] = 0

LEMMA InitBounds == Init => Concluded /\ Purposeful /\ Counted
  BY SessionAssumption
     DEF Init, StoreInit, Concluded, Purposeful, Counted, Finalizing, HasRun, AutoResumesAreBounded

LEMMA ConcludedKept ==
    ASSUME Concluded, UNCHANGED meta,
           HasRun' => \/ HasRun /\ ckpt'.run = ckpt.run /\ ckpt'.life = ckpt.life
                      \/ ckpt'.life # "finalizing",
           pc' = "k_ckpt" => pc = "k_ckpt" /\ run' = run
    PROVE  Concluded'
  BY DEF Concluded, Finalizing, Ended

(* Metadata that end the run of the process, or are written while no run is *)
(* in finalizing.                                                           *)
LEMMA ConcludedMetadata ==
    ASSUME TypeInv, Concluded, pc \in Planned, UNCHANGED <<ckpt, run>>,
           NEW m \in Metadata, SaveRunMetadata(run, m),
           m.closed \/ (~Finalizing /\ pc' # "k_ckpt")
    PROVE  Concluded'
  <1>1. run \in Runs /\ meta' = [meta EXCEPT ![run] = m] /\ m # NoMeta
    BY SessionAssumption DEF TypeInv, PlacesTypeOK, SaveRunMetadata
  <1>2. m.closed => \A r \in Runs : r = run \/ Ended(r) => Ended(r)'
    BY <1>1 DEF Ended, TypeInv, TypeOK
  <1>3. HasRun => ckpt.run \in Runs
    BY CheckpointIsRecord DEF TypeInv, TypeOK
  <1> QED
    BY <1>1, <1>2, <1>3 DEF Concluded, Finalizing, HasRun

LEMMA ConcludedBegin ==
    ASSUME TypeInv, Evident, Concluded,
           \/ \E k \in Kind : Start(k)
           \/ \E s \in Sessions : AutoResumeDecide(s)
           \/ AutoResumeClaim \/ Recover \/ RecoverFails
           \/ \E r \in Runs : PlanFresh(r)
           \/ PlanResume \/ PlanRejected \/ ForcedClear \/ ResetControl
           \/ FirstCheckpoint \/ BeginFails
    PROVE  Concluded'
  <1> USE DEF fileVars, storeVars, Goto, EndSession
  <1>t. TypeOK /\ StoreTypeOK
    BY DEF TypeInv, TypeOK
  <1>k. CheckpointKept => (HasRun' => HasRun /\ ckpt'.run = ckpt.run /\ ckpt'.life = ckpt.life)
    BY DEF CheckpointKept
  <1>u. CASE \/ \E k \in Kind : Start(k)
             \/ \E s \in Sessions : AutoResumeDecide(s)
             \/ \E r \in Runs : PlanFresh(r)
             \/ PlanResume \/ PlanRejected
    <2>1. UNCHANGED <<ckpt, meta>> /\ pc' # "k_ckpt"
      BY <1>u DEF Start, AutoResumeDecide, PlanFresh, PlanResume, PlanRejected
    <2> QED
      BY <2>1, ConcludedKept DEF HasRun
  <1>1. CASE AutoResumeClaim
    <2>1. run \in Runs /\ sess \in Sessions
      BY <1>1 DEF AutoResumeClaim, TypeInv, PlacesTypeOK
    <2> QED
      BY <1>1, <1>t, <1>k, <2>1, ClaimAutoResumeKeeps, ConcludedKept DEF AutoResumeClaim
  <1>2. CASE Recover \/ RecoverFails
    <2>1. CheckpointKept
      BY <1>2, <1>t, StoreKept, ClearForRunKeeps, KeptCheckpointKeeps DEF Recover, RecoverFails
    <2> QED
      BY <1>2, <1>k, <2>1, ConcludedKept DEF Recover, RecoverFails
  <1>4. CASE ForcedClear
    <2>1. CheckpointKept
      BY <1>4, <1>t, ClearEffect, KeptCheckpointKeeps DEF ForcedClear, CheckpointKept
    <2> QED
      BY <1>4, <1>k, <2>1, ConcludedKept DEF ForcedClear
  <1>5. CASE ResetControl
    <2>1. CheckpointKept
      BY <1>5, <1>t, ClearControlKeeps DEF ResetControl
    <2> QED
      BY <1>5, <1>k, <2>1, ConcludedKept DEF ResetControl
  <1>6. CASE FirstCheckpoint \/ BeginFails
    <2>1. pc \in {"reset", "persist"} /\ UNCHANGED meta /\ pc' # "k_ckpt"
      BY <1>6 DEF FirstCheckpoint, BeginFails
    <2>2. CASE UNCHANGED storeVars
      BY <1>k, <2>1, <2>2, StoreKept, ConcludedKept
    <2>3. CASE ReplaceCheckpoint(run, life, base, done)
      <3>1. Rewritten(run, life, base, done)
        BY <1>t, <2>1, <2>3, ReplaceRewrites DEF TypeInv, PlacesTypeOK, Planned, TypeOK
      <3> QED
        BY <2>1, <3>1, ConcludedKept DEF Rewritten, Evident
    <2> QED
      BY <1>6, <2>2, <2>3 DEF FirstCheckpoint, BeginFails
  <1> QED
    BY <1>u, <1>1, <1>2, <1>4, <1>5, <1>6

(* No worker writes "finalizing".                                           *)
LEMMA ConcludedWork ==
    ASSUME TypeInv, Evident, Concluded, NEW w \in Workers,
           Worker(w) \/ JobRaises(w) \/ EntryFails(w) \/ LockedSectionFails(w)
    PROVE  Concluded'
  <1>1. pc = "exec" /\ UNCHANGED <<pc, kind, run>>
    BY WorkStays
  <1>2. ~Finalizing'
    BY <1>1, EvidentWork DEF Evident, BeforeFinalizing
  <1> QED
    BY <1>1, <1>2 DEF Concluded

LEMMA ConcludedFinish ==
    ASSUME TypeInv, Evident, Concluded,
           \/ WrapUp \/ SaveCompletedMetadata \/ RetainCheckpoint \/ FinishFails
           \/ CommitSnapshot \/ FailMetadata \/ FailCheckpoint \/ FailLifecycle
           \/ FailureHandlingFails \/ Crash
    PROVE  Concluded'
  <1> USE DEF fileVars, storeVars, planVars, Goto, EndSession
  <1>t. TypeOK /\ StoreTypeOK
    BY DEF TypeInv, TypeOK
  <1>k. CheckpointKept => (HasRun' => HasRun /\ ckpt'.run = ckpt.run /\ ckpt'.life = ckpt.life)
    BY DEF CheckpointKept
  <1>1. CASE WrapUp \/ FailureHandlingFails \/ Crash
    BY <1>1, <1>k, StoreKept, ConcludedKept DEF WrapUp, FailureHandlingFails, Crash
  <1>2. CASE SaveCompletedMetadata
    <2>1. CompletedMetadata.closed
      BY DEF CompletedMetadata
    <2> QED
      BY <1>2, <2>1, MetadataTypes, ConcludedMetadata DEF SaveCompletedMetadata, Planned
  <1>3. CASE FailMetadata
    <2>1. FailedMetadata.closed
      BY DEF FailedMetadata
    <2> QED
      BY <1>3, <2>1, MetadataTypes, ConcludedMetadata DEF FailMetadata, Planned
  <1>4. CASE RetainCheckpoint \/ FinishFails
    <2>1. CASE UNCHANGED storeVars
      BY <1>4, <1>k, <2>1, StoreKept, ConcludedKept DEF RetainCheckpoint, FinishFails
    <2>2. CASE pc = "k_ckpt" /\ ReplaceCheckpoint(run, RetainedLifecycle, CompletedMetadata, done)
      <3>1. Rewritten(run, RetainedLifecycle, CompletedMetadata, done)
        BY <1>t, <2>2, MetadataTypes, ReplaceRewrites DEF TypeInv, PlacesTypeOK, Planned, TypeOK
      <3>2. UNCHANGED meta /\ pc' # "k_ckpt"
        BY <1>4 DEF RetainCheckpoint, FinishFails
      <3> QED
        BY <2>2, <3>1, <3>2 DEF Rewritten, Concluded, Finalizing, Ended
    <2> QED
      BY <1>4, <2>1, <2>2 DEF RetainCheckpoint, FinishFails
  <1>5. CASE CommitSnapshot
    <2>1. CheckpointKept
      BY <1>5, <1>t, StoreKept, ClearForRunKeeps, KeptCheckpointKeeps DEF CommitSnapshot
    <2> QED
      BY <1>5, <1>k, <2>1, ConcludedKept DEF CommitSnapshot
  <1>6. CASE FailCheckpoint
    <2>1. HasRun' => HasRun /\ ckpt'.run = ckpt.run /\ ckpt'.life = ckpt.life
      BY <1>6, <1>t, MetadataTypes, UpdateMetadataSame DEF FailCheckpoint, SameRun
    <2> QED
      BY <1>6, <2>1, ConcludedKept DEF FailCheckpoint
  <1>7. CASE FailLifecycle
    <2>1. HasRun' => ckpt'.life # "finalizing"
      BY <1>7, <1>t, UpdateStateSame DEF FailLifecycle, SameRun, Lifecycle
    <2> QED
      BY <1>7, <2>1, ConcludedKept DEF FailLifecycle
  <1> QED
    BY <1>1, <1>2, <1>3, <1>4, <1>5, <1>6, <1>7

LEMMA ConcludedStep ==
    TypeInv /\ Evident /\ Undismissed /\ Concluded /\ [Next]_vars => Concluded'
  <1> SUFFICES ASSUME TypeInv, Evident, Undismissed, Concluded, [Next]_vars PROVE Concluded'
    OBVIOUS
  <1>1. CASE UNCHANGED vars
    BY <1>1 DEF vars, fileVars, storeVars, procVars, planVars, Concluded, Finalizing, HasRun, Ended
  <1>2. CASE \/ \E s \in Requesters : RequestControl("pause", s)
             \/ RequestControl("stop", NoSession)
    BY <1>2, OthersKeepCheckpoint, RequestSame, ConcludedKept DEF CheckpointKept, procVars, planVars
  <1>3. CASE (\E k \in Kind \ {"auto"} : Start(k)) \/ (\E s \in Sessions : AutoResumeDecide(s))
    BY <1>3, ConcludedBegin
  <1>4. CASE ScanProcess
    BY <1>4, ConcludedBegin, ConcludedFinish DEF ScanProcess
  <1>5. CASE \E w \in Workers : Worker(w)
    BY <1>5, ConcludedWork
  <1>6. CASE Dismiss
    BY <1>6, NoDismissalStarts
  <1>7. CASE Fault
    BY <1>7, ConcludedBegin, ConcludedWork, ConcludedFinish DEF Fault
  <1> QED
    BY <1>1, <1>2, <1>3, <1>4, <1>5, <1>6, <1>7 DEF Next, Command

LEMMA PurposefulBegin ==
    ASSUME TypeInv, Own, Concluded, Purposeful,
           \/ \E k \in Kind \ {"auto"} : Start(k)
           \/ \E s \in Sessions : AutoResumeDecide(s)
           \/ AutoResumeClaim \/ Recover \/ RecoverFails
           \/ \E r \in Runs : PlanFresh(r)
           \/ PlanResume \/ PlanRejected \/ ForcedClear \/ ResetControl
           \/ FirstCheckpoint \/ BeginFails
    PROVE  Purposeful'
  <1> USE DEF fileVars, storeVars, planVars, Goto, EndSession
  <1>t. TypeOK /\ StoreTypeOK
    BY DEF TypeInv, TypeOK
  <1>1. CASE (\E k \in Kind \ {"auto"} : Start(k)) \/ (\E s \in Sessions : AutoResumeDecide(s))
    BY <1>1 DEF Start, AutoResumeDecide, Purposeful
  <1>2. CASE AutoResumeClaim
    <2>1. ActiveRun = run /\ HasRun /\ sess \in Sessions
      BY <1>2, StoreAssumption
         DEF AutoResumeClaim, Own, Owned, TypeInv, PlacesTypeOK, ActiveRun
    <2>2. HasRun' /\ ckpt'.run = ckpt.run
      BY <1>2, <1>t, <2>1, ClaimAutoResumeCounts DEF AutoResumeClaim
    <2>3. pc' = "recover" /\ UNCHANGED <<kind, run>> /\ kind = "auto"
      BY <1>2, <2>1 DEF AutoResumeClaim, Purposeful
    <2> QED
      BY <2>1, <2>2, <2>3 DEF Purposeful, ActiveRun
  <1>3. CASE Recover
    <2>1. CASE pc' = "idle" /\ kind' = "scan"
      BY <2>1 DEF Purposeful
    <2>2. CASE pc' = "plan" /\ kind # "recover" /\ UNCHANGED <<kind, run>>
      <3>1. kind = "auto" => ActiveRun = run
        BY <1>3 DEF Recover, Purposeful
      <3>2. CASE Finalizing /\ Evidence
        <4>1. ckpt' = NoCheckpoint /\ UNCHANGED meta /\ ActiveRun = ckpt.run
          BY <1>3, <3>2 DEF Recover, Finalizing, ClearForRun, Clear, ActiveRun
        <4>2. Ended(ckpt.run)
          BY <3>2 DEF Concluded
        <4> QED
          BY <2>2, <3>1, <4>1, <4>2 DEF Purposeful, Ended, HasRun
      <3>3. CASE ~(Finalizing /\ Evidence)
        BY <1>3, <2>2, <3>1, <3>3 DEF Recover, Purposeful, ActiveRun, HasRun
      <3> QED
        BY <3>2, <3>3
    <2> QED
      BY <1>3, <2>1, <2>2 DEF Recover
  <1>4. CASE RecoverFails \/ PlanRejected
    BY <1>4 DEF RecoverFails, PlanRejected, Purposeful
  <1>5. CASE \E r \in Runs : PlanFresh(r)
    BY <1>5 DEF PlanFresh, Purposeful
  <1>6. CASE PlanResume
    <2>1. kind = "auto" => HasRun /\ ckpt.run = run
      <3>1. ASSUME kind = "auto", ~HasRun PROVE FALSE
        <4>1. hist # <<>> /\ hist \in Seq(Row) /\ ~Ended(LastRun) /\ run = LastRun
          BY <1>6, <1>t, <3>1 DEF PlanResume, Resumable, Inferred, ResumeRun, TypeOK
        <4>2. hist[Len(hist)] \in Row
          BY <4>1
        <4>3. run \in Runs
          BY <4>1, <4>2 DEF LastRun, Row
        <4> QED
          BY <1>6, <3>1, <4>1, <4>3, StoreAssumption DEF PlanResume, Purposeful, ActiveRun
      <3>2. ASSUME kind = "auto", HasRun PROVE ckpt.run = run
        BY <1>6, <3>2 DEF PlanResume, ResumeRun
      <3> QED
        BY <3>1, <3>2
    <2>2. pc' = "reset" /\ UNCHANGED <<ckpt, kind>> /\ pc = "plan"
      BY <1>6 DEF PlanResume
    <2>3. kind = "auto" => run' = run
      BY <1>6, <2>1 DEF PlanResume
    <2> QED
      BY <2>1, <2>2, <2>3 DEF Purposeful, ActiveRun, HasRun
  <1>7. CASE ForcedClear
    BY <1>7 DEF ForcedClear, Purposeful
  <1>8. CASE ResetControl
    BY <1>8 DEF ResetControl, ClearControlForRun, Purposeful, ActiveRun, HasRun
  <1>9. CASE FirstCheckpoint \/ BeginFails
    BY <1>9 DEF FirstCheckpoint, BeginFails, Purposeful
  <1> QED
    BY <1>1, <1>2, <1>3, <1>4, <1>5, <1>6, <1>7, <1>8, <1>9

LEMMA PurposefulFinish ==
    ASSUME Purposeful,
           \/ WrapUp \/ SaveCompletedMetadata \/ RetainCheckpoint \/ FinishFails
           \/ CommitSnapshot \/ FailMetadata \/ FailCheckpoint \/ FailLifecycle
           \/ FailureHandlingFails \/ Crash
    PROVE  Purposeful'
  <1> USE DEF planVars, Goto, EndSession
  <1>1. CASE pc' = "idle" /\ kind' = "scan"
    BY <1>1 DEF Purposeful
  <1>2. CASE pc \notin {"idle", "recover"} /\ UNCHANGED kind
             /\ pc' \in {"x_meta", "x_ckpt", "x_life", "k_meta", "k_ckpt", "commit"}
    BY <1>2 DEF Purposeful
  <1>3. CASE WrapUp
    BY <1>1, <1>2, <1>3 DEF WrapUp, Drained
  <1> QED
    BY <1>1, <1>2, <1>3
       DEF SaveCompletedMetadata, RetainCheckpoint, FinishFails, CommitSnapshot, FailMetadata,
           FailCheckpoint, FailLifecycle, FailureHandlingFails, Crash

LEMMA PurposefulStep ==
    TypeInv /\ Own /\ Undismissed /\ Concluded /\ Purposeful /\ [Next]_vars => Purposeful'
  <1> SUFFICES ASSUME TypeInv, Own, Undismissed, Concluded, Purposeful, [Next]_vars
               PROVE  Purposeful'
    OBVIOUS
  <1>1. CASE UNCHANGED vars
    BY <1>1 DEF vars, fileVars, storeVars, procVars, planVars, Purposeful, ActiveRun, HasRun, Ended
  <1>2. CASE \/ \E s \in Requesters : RequestControl("pause", s)
             \/ RequestControl("stop", NoSession)
    <2>1. SameRun /\ ActiveRun' = ActiveRun
      BY <1>2, RequestSame, SameActive DEF SameCheckpoint
    <2> QED
      BY <1>2, <2>1, RequestSame DEF procVars, planVars, Purposeful, SameRun, Ended
  <1>3. CASE (\E k \in Kind \ {"auto"} : Start(k)) \/ (\E s \in Sessions : AutoResumeDecide(s))
    BY <1>3, PurposefulBegin
  <1>4. CASE ScanProcess
    BY <1>4, PurposefulBegin, PurposefulFinish DEF ScanProcess
  <1>5. ASSUME NEW w \in Workers,
               Worker(w) \/ JobRaises(w) \/ EntryFails(w) \/ LockedSectionFails(w)
        PROVE  Purposeful'
    BY <1>5, WorkStays DEF Purposeful
  <1>6. CASE Dismiss
    BY <1>6, NoDismissalStarts
  <1>7. CASE Fault
    BY <1>5, <1>7, PurposefulBegin, PurposefulFinish DEF Fault
  <1> QED
    BY <1>1, <1>2, <1>3, <1>4, <1>5, <1>6, <1>7 DEF Next, Command

(* The process writes the checkpoint of its run.                            *)
WritesRun ==
    /\ HasRun' /\ ckpt'.run = run
    /\ ckpt'.sessions = IF ActiveRun = run THEN ckpt.sessions ELSE NewSessions

(* What a step of a worker does to the checkpoint.                          *)
LEMMA WorkWrites ==
    ASSUME TypeInv, Own, NEW w \in Workers,
           Worker(w) \/ JobRaises(w) \/ EntryFails(w) \/ LockedSectionFails(w)
    PROVE  SameRun \/ ~HasRun' \/ (action # "stop" /\ WritesRun)
  <1> USE DEF fileVars, storeVars
  <1>t. TypeOK /\ StoreTypeOK
    BY DEF TypeInv, TypeOK
  <1>e. pc = "exec" /\ run \in Runs /\ HeldAt(wpc[w], action)
    BY WorkerExecutes DEF Own, Owned
  <1>s. ckpt' = ckpt => SameRun
    BY SameIfKept DEF SameCheckpoint
  <1>p. PersistRun => SameRun \/ (action # "stop" /\ WritesRun)
    BY <1>e, <1>s, PersistOwn DEF Rewritten, WritesRun
  <1>c. wpc[w] = "commit" /\ CountResult(w) /\ ReplaceCheckpoint(run, life, PersistedMetadata, done')
          => action # "stop" /\ WritesRun
    BY <1>e, CommitOwn DEF Rewritten, WritesRun, HeldAt
  <1>1. CASE TakeJob(w) \/ JobReturns(w) \/ JobRaises(w) \/ AppendRow(w) \/ ControlMetadata(w)
    BY <1>1, <1>s DEF TakeJob, JobReturns, JobRaises, AppendRow, ControlMetadata
  <1>2. CASE NotStarted(w) \/ StartJob(w) \/ FailJob(w)
    BY <1>2, <1>s, <1>p DEF NotStarted, StartJob, FailJob
  <1>3. CASE TryStart(w) \/ FinishJob(w) \/ EntryFails(w)
    BY <1>3, <1>t, <1>e, <1>s, ClaimControlSame
       DEF TryStart, FinishJob, PollControl, EntryFails, SameCheckpoint
  <1>4. CASE Commit(w)
    BY <1>4, <1>c DEF Commit
  <1>5. CASE PauseCheckpoint(w)
    BY <1>5, <1>t, MetadataTypes, UpdateMetadataSame DEF PauseCheckpoint
  <1>6. CASE PauseLifecycle(w)
    BY <1>6, <1>t, UpdateStateSame DEF PauseLifecycle, TypeOK
  <1>7. CASE StopClear(w)
    BY <1>7, <1>e, ClearForRunEnds DEF StopClear, SameCheckpoint, HasRun
  <1>8. CASE LockedSectionFails(w)
    BY <1>8, <1>s, <1>p, <1>c DEF LockedSectionFails, KeptCheckpoint
  <1> QED
    BY <1>1, <1>2, <1>3, <1>4, <1>5, <1>6, <1>7, <1>8 DEF Worker

LEMMA CountedKept ==
    ASSUME Counted, SameRun \/ ~HasRun', UNCHANGED autos, pc' # "claim",
           pc' # "idle" /\ kind' \in {"scan", "force"} => pc # "idle" /\ kind' = kind
    PROVE  Counted'
  BY DEF Counted, SameRun, AutoResumesAreBounded

(* A checkpoint of another run counts from 0, and so does the user's start. *)
LEMMA CountedWritten ==
    ASSUME TypeInv, Counted, WritesRun, run \in Runs, UNCHANGED autos, pc' # "claim",
           pc' # "idle" => pc # "idle" /\ kind' = kind,
           ActiveRun = run \/ (pc # "idle" /\ kind \in {"scan", "force"})
    PROVE  Counted'
  <1>1. CASE ActiveRun = run
    <2>1. HasRun /\ ckpt'.sessions = ckpt.sessions
      BY <1>1, StoreAssumption DEF WritesRun, ActiveRun
    <2> QED
      BY <2>1 DEF Counted, AutoResumesAreBounded
  <1>2. CASE ActiveRun # run
    <2>1. \A s \in Sessions : autos[s] = 0 /\ ckpt'.sessions[s].attempts = 0
      BY <1>2 DEF Counted, WritesRun, NewSessions
    <2>2. AttemptLimit \in Nat
      BY SessionAssumption
    <2> QED
      BY <2>1, <2>2 DEF Counted, AutoResumesAreBounded
  <1> QED
    BY <1>1, <1>2

LEMMA CountedBegin ==
    ASSUME TypeInv, Own, Purposeful, Counted,
           \/ \E k \in Kind \ {"auto"} : Start(k)
           \/ \E s \in Sessions : AutoResumeDecide(s)
           \/ AutoResumeClaim \/ Recover \/ RecoverFails
           \/ \E r \in Runs : PlanFresh(r)
           \/ PlanResume \/ PlanRejected \/ ForcedClear \/ ResetControl
           \/ FirstCheckpoint \/ BeginFails
    PROVE  Counted'
  <1> USE DEF fileVars, storeVars, planVars, observed, Goto
  <1>t. TypeOK /\ StoreTypeOK
    BY DEF TypeInv, TypeOK
  <1>s. ckpt' = ckpt => SameRun
    BY SameIfKept DEF SameCheckpoint
  <1>1. ASSUME NEW k \in Kind \ {"auto"}, Start(k) PROVE Counted'
    <2>1. AttemptLimit \in Nat /\ autos \in [Sessions -> Nat]
      BY <1>t, SessionAssumption DEF TypeOK
    <2>2. HasRun => \A s \in Sessions : ckpt.sessions[s].attempts \in Nat
      BY <1>t, CheckpointIsRecord DEF Checkpoint, AutoResumeSession
    <2> QED
      BY <1>1, <2>1, <2>2 DEF Start, Counted, AutoResumesAreBounded, HasRun, Kind
  <1>2. CASE \E s \in Sessions : AutoResumeDecide(s)
    BY <1>2 DEF AutoResumeDecide, Counted, AutoResumesAreBounded, HasRun
  <1>3. CASE AutoResumeClaim
    <2>1. pc = "claim" /\ kind = "auto" /\ ActiveRun = run /\ HasRun /\ sess \in Sessions
      BY <1>3, StoreAssumption
         DEF AutoResumeClaim, Own, Owned, TypeInv, PlacesTypeOK, ActiveRun, Purposeful
    <2>2. /\ HasRun'
          /\ ckpt'.sessions[sess].attempts = ckpt.sessions[sess].attempts + 1
          /\ \A s \in Sessions \ {sess} : ckpt'.sessions[s].attempts = ckpt.sessions[s].attempts
      BY <1>3, <1>t, <2>1, ClaimAutoResumeCounts DEF AutoResumeClaim
    <2>3. pc' = "recover" /\ kind' = "auto" /\ autos' = [autos EXCEPT ![sess] = @ + 1]
      BY <1>3, <2>1 DEF AutoResumeClaim
    <2>4. AttemptLimit \in Nat /\ \A s \in Sessions : autos[s] \in Nat /\ ckpt.sessions[s].attempts \in Nat
      BY <1>t, <2>1, SessionAssumption, CheckpointIsRecord DEF TypeOK, Checkpoint, AutoResumeSession
    <2>5. autos'[sess] = autos[sess] + 1 /\ \A s \in Sessions \ {sess} : autos'[s] = autos[s]
      BY <1>t, <2>1, <2>3 DEF TypeOK
    <2> QED
      BY <2>1, <2>2, <2>3, <2>4, <2>5 DEF Counted, AutoResumesAreBounded
  <1>4. CASE Recover \/ RecoverFails
    <2>1. SameRun \/ ~HasRun'
      BY <1>4, <1>s DEF Recover, RecoverFails, KeptCheckpoint, ClearForRun, Clear, HasRun
    <2> QED
      BY <1>4, <2>1, CountedKept DEF Recover, RecoverFails, EndSession
  <1>5. CASE (\E r \in Runs : PlanFresh(r)) \/ PlanResume \/ PlanRejected \/ ResetControl
    BY <1>5, <1>s, CountedKept
       DEF PlanFresh, PlanResume, PlanRejected, ResetControl, ClearControlForRun, EndSession
  <1>6. CASE ForcedClear
    <2>1. SameRun \/ ~HasRun'
      BY <1>6, <1>s DEF ForcedClear, KeptCheckpoint, Clear, HasRun
    <2> QED
      BY <1>6, <2>1, CountedKept DEF ForcedClear, EndSession
  <1>7. CASE FirstCheckpoint \/ BeginFails
    <2>1. pc \in {"reset", "persist"} /\ pc' \in {"exec", "x_meta"} /\ UNCHANGED <<kind, autos>>
      BY <1>7 DEF FirstCheckpoint, BeginFails
    <2>2. CASE UNCHANGED storeVars
      BY <1>s, <2>1, <2>2, CountedKept
    <2>3. CASE ReplaceCheckpoint(run, life, base, done)
      <3>1. run \in Runs /\ WritesRun
        BY <1>t, <2>1, <2>3, ReplaceRewrites
           DEF TypeInv, PlacesTypeOK, Planned, TypeOK, Rewritten, WritesRun
      <3>2. ActiveRun = run \/ kind \in {"scan", "force"}
        BY <1>t, <2>1 DEF Purposeful, TypeOK, Kind
      <3> QED
        BY <2>1, <3>1, <3>2, CountedWritten
    <2> QED
      BY <1>7, <2>2, <2>3 DEF FirstCheckpoint, BeginFails
  <1> QED
    BY <1>1, <1>2, <1>3, <1>4, <1>5, <1>6, <1>7

LEMMA CountedWork ==
    ASSUME TypeInv, Own, Counted, NEW w \in Workers,
           Worker(w) \/ JobRaises(w) \/ EntryFails(w) \/ LockedSectionFails(w)
    PROVE  Counted'
  <1>1. pc = "exec" /\ UNCHANGED <<pc, kind, run, sess, autos>> /\ run \in Runs
    BY WorkStays, WorkerExecutes
  <1>2. action # "stop" => ActiveRun = run
    BY <1>1 DEF Own, Owned
  <1> QED
    BY <1>1, <1>2, WorkWrites, CountedKept, CountedWritten

LEMMA CountedFinish ==
    ASSUME TypeInv, Own, Counted,
           \/ WrapUp \/ SaveCompletedMetadata \/ RetainCheckpoint \/ FinishFails
           \/ CommitSnapshot \/ FailMetadata \/ FailCheckpoint \/ FailLifecycle
           \/ FailureHandlingFails \/ Crash
    PROVE  Counted'
  <1> USE DEF fileVars, storeVars, planVars, observed, Goto, EndSession
  <1>t. TypeOK /\ StoreTypeOK
    BY DEF TypeInv, TypeOK
  <1>s. ckpt' = ckpt => SameRun
    BY SameIfKept DEF SameCheckpoint
  <1>1. pc # "idle" /\ pc' # "claim" /\ (pc' # "idle" => kind' = kind) /\ UNCHANGED autos
    BY DEF WrapUp, Drained, SaveCompletedMetadata, RetainCheckpoint, FinishFails, CommitSnapshot,
           FailMetadata, FailCheckpoint, FailLifecycle, FailureHandlingFails, Crash
  <1>2. CASE pc = "k_ckpt" /\ ReplaceCheckpoint(run, RetainedLifecycle, CompletedMetadata, done)
    <2>1. run \in Runs /\ WritesRun
      BY <1>t, <1>2, MetadataTypes, ReplaceRewrites
         DEF TypeInv, PlacesTypeOK, Planned, TypeOK, Rewritten, WritesRun
    <2>2. ActiveRun = run
      BY <1>2 DEF Own, Owned
    <2> QED
      BY <1>1, <2>1, <2>2, CountedWritten
  <1>3. CASE SameRun \/ ~HasRun'
    BY <1>1, <1>3, CountedKept
  <1>4. CASE CommitSnapshot
    <2>1. SameRun \/ ~HasRun'
      BY <1>4, <1>s DEF CommitSnapshot, KeptCheckpoint, ClearForRun, Clear, HasRun
    <2> QED
      BY <1>3, <2>1
  <1>5. CASE FailCheckpoint
    BY <1>3, <1>5, <1>t, MetadataTypes, UpdateMetadataSame DEF FailCheckpoint
  <1>6. CASE FailLifecycle
    BY <1>3, <1>6, <1>t, UpdateStateSame DEF FailLifecycle, Lifecycle
  <1> QED
    BY <1>2, <1>3, <1>4, <1>5, <1>6, <1>s
       DEF WrapUp, SaveCompletedMetadata, RetainCheckpoint, FinishFails, FailMetadata,
           FailureHandlingFails, Crash

LEMMA CountedStep ==
    TypeInv /\ Own /\ Undismissed /\ Purposeful /\ Counted /\ [Next]_vars => Counted'
  <1> SUFFICES ASSUME TypeInv, Own, Undismissed, Purposeful, Counted, [Next]_vars
               PROVE  Counted'
    OBVIOUS
  <1>1. CASE UNCHANGED vars
    BY <1>1 DEF vars, fileVars, storeVars, procVars, planVars, observed, Counted,
                AutoResumesAreBounded, HasRun
  <1>2. CASE \/ \E s \in Requesters : RequestControl("pause", s)
             \/ RequestControl("stop", NoSession)
    <2>1. SameRun
      BY <1>2, RequestSame DEF SameCheckpoint
    <2>2. UNCHANGED <<pc, kind, sess, autos>>
      BY <1>2, RequestSame DEF procVars, planVars
    <2>3. pc = "claim" => HasRun /\ sess \in Sessions
      BY StoreAssumption DEF Own, Owned, ActiveRun, TypeInv, PlacesTypeOK
    <2> QED
      BY <2>1, <2>2, <2>3 DEF Counted, SameRun, AutoResumesAreBounded
  <1>3. CASE (\E k \in Kind \ {"auto"} : Start(k)) \/ (\E s \in Sessions : AutoResumeDecide(s))
    BY <1>3, CountedBegin
  <1>4. CASE ScanProcess
    BY <1>4, CountedBegin, CountedFinish DEF ScanProcess
  <1>5. CASE \E w \in Workers : Worker(w)
    BY <1>5, CountedWork
  <1>6. CASE Dismiss
    BY <1>6, NoDismissalStarts
  <1>7. CASE Fault
    BY <1>7, CountedBegin, CountedWork, CountedFinish DEF Fault
  <1> QED
    BY <1>1, <1>2, <1>3, <1>4, <1>5, <1>6, <1>7 DEF Next, Command

(* Between two starts of the user a session resumes automatically at most   *)
(* AttemptLimit times, however many attempts crash or fail to write.        *)
THEOREM AutoResumesStayBounded == NoDismissal => (Spec => []AutoResumesAreBounded)
  <1> SUFFICES ASSUME NoDismissal PROVE Spec => []AutoResumesAreBounded
    OBVIOUS
  <1> DEFINE Bounds == Concluded /\ Purposeful /\ Counted
  <1>1. Init => Bounds
    BY InitBounds
  <1>2. TypeInv /\ Evident /\ Undismissed /\ Own /\ Bounds /\ [Next]_vars => Bounds'
    BY ConcludedStep, PurposefulStep, CountedStep
  <1>3. Bounds => AutoResumesAreBounded
    BY DEF Counted
  <1> HIDE DEF Bounds
  <1> QED
    BY UndismissedSession, <1>1, <1>2, <1>3, PTL DEF Spec

-----------------------------------------------------------------------------
(* An accepted control is recorded on disk.                                *)

Whole == pc = "exec" /\ "raised" \notin troubles

At(places) == \E w \in Workers : wpc[w] \in places

ControlPlaces == {"c_meta", "c_ckpt", "c_life", "c_clear"}

Paused == [status |-> "paused", closed |-> FALSE]

(* Each write of the control is done, unless a worker is still before it.   *)
PauseRecorded ==
    /\ At({"c_meta"}) \/ meta[run] = Paused
    /\ At({"c_meta", "c_ckpt"}) \/ (ckpt.meta = Paused /\ life = "paused_recoverable")
    /\ At({"c_meta", "c_ckpt", "c_life"}) \/ ckpt.life = "paused_recoverable"

StopRecorded ==
    /\ At({"c_meta"}) \/ Ended(run)
    /\ At({"c_meta", "c_clear"}) \/ ActiveRun # run

Recorded ==
    /\ pc = "persist" => action = "none"
    /\ Whole /\ action = "pause" => PauseRecorded
    /\ Whole /\ action = "stop" => StopRecorded

LEMMA InitRecorded == Init => Recorded
  BY DEF Init, Recorded, Whole

LEMMA RecordedElsewhere ==
    ASSUME pc' # "exec", pc' = "persist" => action' = "none"
    PROVE  Recorded'
  BY DEF Recorded, Whole

(* A step of a worker that is not one of the control's own writes.          *)
LEMMA RecordedKept ==
    ASSUME TypeInv, Own, Recorded, pc = "exec",
           UNCHANGED <<pc, run, action, meta, life>>,
           "raised" \in troubles => "raised" \in troubles',
           \A v \in Workers : wpc[v] \in ControlPlaces => wpc'[v] = wpc[v],
           \/ SameCheckpoint
           \/ action # "stop" /\ \E d \in SUBSET Steps : Rewritten(run, life, PersistedMetadata, d)
    PROVE  Recorded'
  <1> SUFFICES ASSUME Whole' PROVE Recorded'
    BY DEF Recorded, Whole
  <1>1. Whole
    BY DEF Whole
  <1>2. /\ At({"c_meta"}) => At({"c_meta"})'
        /\ At({"c_meta", "c_ckpt"}) => At({"c_meta", "c_ckpt"})'
        /\ At({"c_meta", "c_ckpt", "c_life"}) => At({"c_meta", "c_ckpt", "c_life"})'
        /\ At({"c_meta", "c_clear"}) => At({"c_meta", "c_clear"})'
    BY DEF At, ControlPlaces
  <1>3. CASE action = "pause"
    <2>1. HasRun
      BY <1>3, StoreAssumption DEF Own, Owned, ActiveRun, TypeInv, PlacesTypeOK, Planned
    <2>2. PauseRecorded /\ PersistedMetadata = Paused
      BY <1>1, <1>3 DEF Recorded, PersistedMetadata, Paused
    <2>3. \/ ckpt'.meta = ckpt.meta /\ ckpt'.life = ckpt.life
          \/ ckpt'.meta = Paused /\ ckpt'.life = life
      BY <2>1, <2>2 DEF SameCheckpoint, Rewritten
    <2>4. PauseRecorded'
      BY <1>2, <2>2, <2>3 DEF PauseRecorded, At
    <2> QED
      BY <1>3, <2>4 DEF Recorded
  <1>4. CASE action = "stop"
    <2>1. StopRecorded /\ SameRun
      BY <1>1, <1>4 DEF Recorded, SameCheckpoint
    <2>2. StopRecorded'
      BY <1>2, <2>1, SameActive DEF StopRecorded, Ended
    <2> QED
      BY <1>4, <2>2 DEF Recorded
  <1> QED
    BY <1>3, <1>4 DEF Recorded

LEMMA RecordedWork ==
    ASSUME TypeInv, Own, Recorded, NEW w \in Workers,
           Worker(w) \/ JobRaises(w) \/ EntryFails(w) \/ LockedSectionFails(w)
    PROVE  Recorded'
  <1> USE DEF fileVars, storeVars, procVars, planVars, execVars, WorkerPlace, Locked, ControlPlaces
  <1>t. TypeOK /\ StoreTypeOK
    BY DEF TypeInv, TypeOK
  <1>e. pc = "exec" /\ UNCHANGED pc /\ run \in Runs /\ HeldAt(wpc[w], action)
    BY WorkerExecutes, WorkStays DEF Own, Owned
  <1>s. ckpt' = ckpt => SameCheckpoint
    BY SameIfKept
  <1>m. ASSUME NEW p \in WorkerPlace, Move(w, p)
        PROVE  wpc'[w] = p /\ \A v \in Workers : v # w => wpc'[v] = wpc[v]
    BY <1>m, MoveType
  <1>p. PersistRun => \/ SameCheckpoint
                      \/ action # "stop" /\ \E d \in SUBSET Steps : Rewritten(run, life, PersistedMetadata, d)
    BY <1>t, <1>e, <1>s, PersistOwn DEF TypeOK
  <1>c. wpc[w] = "commit" /\ CountResult(w) /\ ReplaceCheckpoint(run, life, PersistedMetadata, done')
          => action # "stop" /\ \E d \in SUBSET Steps : Rewritten(run, life, PersistedMetadata, d)
    <2> SUFFICES ASSUME wpc[w] = "commit", CountResult(w),
                        ReplaceCheckpoint(run, life, PersistedMetadata, done')
                 PROVE  action # "stop" /\ \E d \in SUBSET Steps : Rewritten(run, life, PersistedMetadata, d)
      OBVIOUS
    <2>1. done' \in SUBSET Steps
      BY CountResultType DEF TypeInv, PlacesTypeOK
    <2> QED
      BY <1>e, <2>1, CommitOwn DEF HeldAt
  <1>1. CASE TakeJob(w) \/ JobReturns(w)
    <2>1. \A v \in Workers : wpc[v] \in ControlPlaces => wpc'[v] = wpc[v]
      BY <1>1, <1>t DEF TakeJob, JobReturns, TypeOK
    <2> QED
      BY <1>1, <1>e, <1>s, <2>1, RecordedKept DEF TakeJob, JobReturns
  <1>2. CASE NotStarted(w) \/ StartJob(w)
    BY <1>2, <1>e, <1>m, <1>p, RecordedKept DEF NotStarted, StartJob
  <1>3. CASE AppendRow(w)
    BY <1>3, <1>e, <1>m, <1>s, RecordedKept DEF AppendRow
  <1>4. CASE Commit(w)
    BY <1>4, <1>e, <1>m, <1>c, RecordedKept DEF Commit
  <1>5. CASE JobRaises(w)
    BY <1>5, <1>e, <1>m, <1>s, RecordedKept DEF JobRaises
  <1>6. CASE FailJob(w) \/ EntryFails(w) \/ LockedSectionFails(w)
    BY <1>6, <1>e DEF FailJob, EntryFails, LockedSectionFails, Recorded, Whole
  <1>7. CASE TryStart(w) \/ FinishJob(w)
    <2>1. /\ PollControl(w) /\ wpc[w] \in {"taken", "returned"}
          /\ UNCHANGED <<pc, run, meta, life, troubles>>
      BY <1>7 DEF TryStart, FinishJob
    <2>2. SameCheckpoint
      BY <2>1, PollSame
    <2>3. PICK p \in {"c_meta", "starting", "append", "free"} :
             Move(w, p) /\ (action' = action \/ p = "c_meta")
      BY <2>1, PollSame
    <2>4. CASE action' = action
      BY <1>e, <1>m, <2>1, <2>2, <2>3, <2>4, RecordedKept
    <2>5. CASE p = "c_meta"
      <3>1. wpc'[w] = "c_meta"
        BY <1>m, <2>3, <2>5
      <3> QED
        BY <1>e, <3>1 DEF Recorded, PauseRecorded, StopRecorded, At
    <2> QED
      BY <2>3, <2>4, <2>5
  <1>8. CASE ControlMetadata(w)
    <2>1. action \in Control
      BY <1>8, <1>e, <1>t DEF ControlMetadata, HeldAt, TypeOK
    <2>2. meta'[run] = ControlledMetadata /\ UNCHANGED <<ckpt, pc, run, action, life, troubles>>
      BY <1>8, <1>e, <1>t DEF ControlMetadata, SaveRunMetadata, TypeOK
    <2>3. wpc'[w] = IF action = "pause" THEN "c_ckpt" ELSE "c_clear"
      BY <1>8, <1>m DEF ControlMetadata
    <2>4. CASE action = "pause"
      BY <1>e, <2>2, <2>3, <2>4 DEF Recorded, PauseRecorded, At, ControlledMetadata, Paused
    <2>5. CASE action = "stop"
      <3>1. Ended(run)'
        BY <2>2, <2>5, MetadataTypes, SessionAssumption DEF ControlledMetadata, Ended
      <3> QED
        BY <1>e, <2>2, <2>3, <2>5, <3>1 DEF Recorded, StopRecorded, At
    <2> QED
      BY <2>1, <2>4, <2>5 DEF Control
  <1>9. CASE PauseCheckpoint(w)
    <2>1. action = "pause" /\ HasRun
      BY <1>9, <1>e, StoreAssumption DEF PauseCheckpoint, HeldAt, Own, Owned, ActiveRun
    <2>2. /\ ckpt'.meta = Paused /\ life' = "paused_recoverable"
          /\ UNCHANGED <<pc, run, action, meta, troubles>>
      BY <1>9, <1>t, <2>1, MetadataTypes, UpdateMetadataSame
         DEF PauseCheckpoint, ControlledMetadata, Paused
    <2>3. wpc'[w] = "c_life" /\ \A v \in Workers : v # w => wpc'[v] = wpc[v]
      BY <1>9, <1>m DEF PauseCheckpoint
    <2>4. At({"c_meta"}) => At({"c_meta"})'
      BY <1>9, <2>3 DEF PauseCheckpoint, At
    <2> QED
      BY <1>e, <2>1, <2>2, <2>3, <2>4 DEF Recorded, Whole, PauseRecorded, At
  <1>10. CASE PauseLifecycle(w)
    <2>1. action = "pause" /\ HasRun
      BY <1>10, <1>e, StoreAssumption DEF PauseLifecycle, HeldAt, Own, Owned, ActiveRun
    <2>2. /\ ckpt'.meta = ckpt.meta /\ ckpt'.life = life
          /\ UNCHANGED <<pc, run, action, meta, life, troubles>>
      BY <1>10, <1>t, <2>1, UpdateStateSame DEF PauseLifecycle, TypeOK
    <2>3. \A v \in Workers : v # w => wpc'[v] = wpc[v]
      BY <1>10, MoveType DEF PauseLifecycle, AfterPoll
    <2>4. /\ At({"c_meta"}) => At({"c_meta"})'
          /\ At({"c_meta", "c_ckpt"}) => At({"c_meta", "c_ckpt"})'
      BY <1>10, <2>3 DEF PauseLifecycle, At
    <2> QED
      BY <1>e, <2>1, <2>2, <2>4 DEF Recorded, Whole, PauseRecorded, At
  <1>11. CASE StopClear(w)
    <2>1. action = "stop" /\ ActiveRun' # run
      BY <1>11, <1>e, ClearForRunEnds DEF StopClear, HeldAt
    <2>2. UNCHANGED <<pc, run, action, meta, troubles>>
      BY <1>11 DEF StopClear
    <2>3. \A v \in Workers : v # w => wpc'[v] = wpc[v]
      BY <1>11, MoveType DEF StopClear, AfterPoll
    <2>4. At({"c_meta"}) => At({"c_meta"})'
      BY <1>11, <2>3 DEF StopClear, At
    <2> QED
      BY <1>e, <2>1, <2>2, <2>4 DEF Recorded, Whole, StopRecorded, Ended
  <1> QED
    BY <1>1, <1>2, <1>3, <1>4, <1>5, <1>6, <1>7, <1>8, <1>9, <1>10, <1>11 DEF Worker

LEMMA RecordedStep ==
    TypeInv /\ Own /\ Undismissed /\ Recorded /\ [Next]_vars => Recorded'
  <1> SUFFICES ASSUME TypeInv, Own, Undismissed, Recorded, [Next]_vars
               PROVE  Recorded'
    OBVIOUS
  <1> USE DEF fileVars, storeVars, procVars, planVars, execVars, workerVars, Goto, EndSession
  <1>1. CASE UNCHANGED vars
    BY <1>1 DEF vars, Recorded, Whole, PauseRecorded, StopRecorded, At, Ended, ActiveRun, HasRun
  <1>2. CASE \/ \E s \in Requesters : RequestControl("pause", s)
             \/ RequestControl("stop", NoSession)
    <2>1. SameCheckpoint /\ UNCHANGED <<pc, run, meta, life, action, troubles, wpc>>
      BY <1>2, RequestSame
    <2>2. CASE pc = "exec"
      BY <2>1, <2>2, RecordedKept
    <2>3. CASE pc # "exec"
      BY <2>1, <2>3, RecordedElsewhere DEF Recorded
    <2> QED
      BY <2>2, <2>3
  <1>3. CASE (\E k \in Kind \ {"auto"} : Start(k)) \/ (\E s \in Sessions : AutoResumeDecide(s))
    BY <1>3, RecordedElsewhere DEF Start, AutoResumeDecide
  <1>4. CASE FirstCheckpoint
    BY <1>4 DEF FirstCheckpoint, Recorded
  <1>5. CASE ScanProcess /\ ~FirstCheckpoint
    BY <1>5, RecordedElsewhere
       DEF ScanProcess, AutoResumeClaim, Recover, PlanFresh, PlanResume, PlanRejected,
           ForcedClear, ResetControl, WrapUp, SaveCompletedMetadata, RetainCheckpoint,
           CommitSnapshot, FailMetadata, FailCheckpoint, FailLifecycle
  <1>6. ASSUME NEW w \in Workers,
               Worker(w) \/ JobRaises(w) \/ EntryFails(w) \/ LockedSectionFails(w)
        PROVE  Recorded'
    BY <1>6, RecordedWork
  <1>7. CASE Dismiss
    BY <1>7, NoDismissalStarts
  <1>8. CASE RecoverFails \/ BeginFails \/ FinishFails \/ FailureHandlingFails \/ Crash
    BY <1>8, RecordedElsewhere
       DEF RecoverFails, BeginFails, FinishFails, FailureHandlingFails, Crash
  <1> QED
    BY <1>1, <1>2, <1>3, <1>4, <1>5, <1>6, <1>7, <1>8 DEF Next, Command, Fault

(* Outside the session lock, a pause the scan accepted is on disk and no    *)
(* later persist overwrites it; a stop has ended the run and left it no     *)
(* checkpoint.                                                              *)
THEOREM ControlStaysRecorded == NoDismissal => (Spec => []ControlIsRecorded)
  <1> SUFFICES ASSUME NoDismissal PROVE Spec => []ControlIsRecorded
    OBVIOUS
  <1>1. TypeInv /\ Undismissed /\ Own /\ Recorded /\ [Next]_vars => Recorded'
    BY RecordedStep
  <1>2. Own /\ Recorded => ControlIsRecorded
    <2> SUFFICES ASSUME Own, Recorded, Quiet PROVE ControlIsRecorded
      BY DEF ControlIsRecorded
    <2>1. Whole /\ \A places \in SUBSET ControlPlaces : ~At(places)
      BY DEF Quiet, Whole, NoLockHolder, Locked, At, ControlPlaces
    <2>2. CASE action = "pause"
      BY <2>1, <2>2
         DEF Recorded, PauseRecorded, Paused, Own, Owned, Whole, ControlIsRecorded, ControlPlaces
    <2>3. CASE action = "stop"
      BY <2>1, <2>3 DEF Recorded, StopRecorded, Ended, ControlIsRecorded, ControlPlaces
    <2> QED
      BY <2>2, <2>3 DEF ControlIsRecorded
  <1> QED
    BY UndismissedSession, InitRecorded, <1>1, <1>2, PTL DEF Spec

-----------------------------------------------------------------------------
(* The checkpoint is current, as long as a resumption reads all of the     *)
(* history.                                                                *)

(* Steps whose row is durable but not yet counted.                          *)
Committing == {job[w] : w \in {v \in Workers : wpc[v] = "commit"}}

Tracked ==
    /\ pc \in {"clear", "reset", "persist"} => done = Committed(run)
    /\ Whole => Committed(run) = done \cup Committing
    /\ Whole /\ action # "stop" => ckpt.done = done

LEMMA InitTracked == Init => Tracked
  BY DEF Init, Tracked, Whole

LEMMA TrackedElsewhere ==
    ASSUME pc' \notin {"clear", "reset", "persist", "exec"}
    PROVE  Tracked'
  BY DEF Tracked, Whole

(* A step of a worker that neither commits nor counts.                      *)
LEMMA TrackedMoves ==
    ASSUME TypeInv, Own, Tracked, pc = "exec", UNCHANGED <<hist, pc, run, done>>,
           \A v \in Workers : (wpc'[v] = "commit") <=> (wpc[v] = "commit"),
           \A v \in Workers : wpc[v] = "commit" => job'[v] = job[v],
           "raised" \in troubles => "raised" \in troubles',
           action = "stop" => action' = "stop",
           \/ action' = "stop" \/ SameRun
           \/ \E l \in Lifecycle, m \in Metadata : Rewritten(run, l, m, done)
    PROVE  Tracked'
  <1> SUFFICES ASSUME Whole' PROVE Tracked'
    BY DEF Tracked, Whole
  <1>1. Whole
    BY DEF Whole
  <1>2. Committing' = Committing
    BY DEF Committing
  <1>3. StepsOf(hist', run') = done' \cup Committing'
    BY <1>1, <1>2 DEF Tracked, Committed
  <1>4. ASSUME action' # "stop" PROVE ckpt'.done = done'
    <2>1. HasRun /\ ckpt.done = done
      BY <1>1, <1>4, StoreAssumption
         DEF Tracked, Own, Owned, ActiveRun, TypeInv, PlacesTypeOK, Planned
    <2> QED
      BY <1>4, <2>1 DEF SameRun, Rewritten
  <1> QED
    BY <1>3, <1>4 DEF Tracked, Committed, Whole

LEMMA TrackedWork ==
    ASSUME TypeInv, Own, Tracked, NEW w \in Workers,
           Worker(w) \/ JobRaises(w) \/ EntryFails(w) \/ LockedSectionFails(w)
    PROVE  Tracked'
  <1> USE DEF fileVars, storeVars, procVars, planVars, execVars, WorkerPlace, Locked
  <1>t. TypeOK /\ StoreTypeOK
    BY DEF TypeInv, TypeOK
  <1>e. pc = "exec" /\ UNCHANGED <<pc, run>> /\ run \in Runs /\ HeldAt(wpc[w], action)
    BY WorkerExecutes, WorkStays DEF Own, Owned
  <1>s. ckpt' = ckpt => SameRun
    BY SameIfKept DEF SameCheckpoint
  <1>m. ASSUME NEW p \in WorkerPlace \ {"commit"}, Move(w, p), wpc[w] # "commit"
        PROVE  /\ \A v \in Workers : (wpc'[v] = "commit") <=> (wpc[v] = "commit")
               /\ \A v \in Workers : wpc[v] = "commit" => job'[v] = job[v]
    BY <1>m, MoveType
  <1>p. PersistRun => SameRun \/ \E l \in Lifecycle, m \in Metadata : Rewritten(run, l, m, done)
    <2>1. life \in Lifecycle /\ PersistedMetadata \in Metadata
      BY <1>t, <1>e DEF TypeOK, TypeInv, PlacesTypeOK, Planned, PersistedMetadata, Metadata, Status
    <2> QED
      BY <1>e, <1>s, <2>1, PersistOwn
  <1>1. CASE TakeJob(w) \/ JobReturns(w)
    <2>1. /\ \A v \in Workers : (wpc'[v] = "commit") <=> (wpc[v] = "commit")
          /\ \A v \in Workers : wpc[v] = "commit" => job'[v] = job[v]
      BY <1>1, <1>t DEF TakeJob, JobReturns, TypeOK
    <2> QED
      BY <1>1, <1>e, <1>s, <2>1, TrackedMoves DEF TakeJob, JobReturns
  <1>2. CASE NotStarted(w) \/ StartJob(w)
    BY <1>2, <1>e, <1>m, <1>p, TrackedMoves DEF NotStarted, StartJob
  <1>3. CASE JobRaises(w) \/ ControlMetadata(w)
    BY <1>3, <1>e, <1>m, <1>s, TrackedMoves DEF JobRaises, ControlMetadata
  <1>4. CASE FailJob(w) \/ EntryFails(w) \/ LockedSectionFails(w)
    BY <1>4, <1>e DEF FailJob, EntryFails, LockedSectionFails, Tracked, Whole
  <1>5. CASE TryStart(w) \/ FinishJob(w)
    <2>1. /\ PollControl(w) /\ wpc[w] \in {"taken", "returned"}
          /\ UNCHANGED <<hist, done, troubles>>
      BY <1>5 DEF TryStart, FinishJob
    <2>2. /\ SameRun /\ (action = "stop" => action' = "stop")
          /\ \E p \in {"c_meta", "starting", "append", "free"} : Move(w, p)
      BY <2>1, PollSame DEF SameCheckpoint
    <2> QED
      BY <1>e, <1>m, <2>1, <2>2, TrackedMoves
  <1>6. CASE PauseCheckpoint(w)
    BY <1>6, <1>t, <1>e, <1>m, MetadataTypes, UpdateMetadataSame, TrackedMoves DEF PauseCheckpoint
  <1>a. AfterPoll(w, action) \in WorkerPlace \ {"commit"}
    BY DEF AfterPoll
  <1>7. CASE PauseLifecycle(w)
    <2>1. SameRun
      BY <1>7, <1>t, UpdateStateSame DEF PauseLifecycle, TypeOK
    <2> QED
      BY <1>7, <1>e, <1>m, <1>a, <2>1, TrackedMoves DEF PauseLifecycle
  <1>8. CASE StopClear(w)
    BY <1>8, <1>e, <1>m, <1>a, TrackedMoves DEF StopClear, HeldAt
  <1>9. CASE AppendRow(w)
    <2>1. /\ AppendResult(w) /\ Move(w, "commit") /\ wpc[w] = "append"
          /\ UNCHANGED <<ckpt, done, action, troubles>>
      BY <1>9 DEF AppendRow
    <2>2. /\ wpc'[w] = "commit"
          /\ \A v \in Workers : v # w => wpc'[v] = wpc[v]
          /\ \A v \in Workers : job'[v] = job[v]
      BY <2>1, MoveType DEF Move
    <2>3. StepsOf(hist', run') = Committed(run) \cup {job[w]}
      BY <1>e, <2>1, AppendCommits
    <2>4. Committing' = Committing \cup {job[w]}
      BY <2>1, <2>2 DEF Committing
    <2> QED
      BY <1>e, <2>1, <2>3, <2>4 DEF Tracked, Whole, Committed
  <1>10. CASE Commit(w)
    <2>1. /\ wpc[w] = "commit" /\ CountResult(w) /\ Move(w, "free")
          /\ ReplaceCheckpoint(run, life, PersistedMetadata, done')
          /\ UNCHANGED <<hist, troubles, action>>
      BY <1>10 DEF Commit
    <2>2. /\ wpc'[w] = "free"
          /\ \A v \in Workers : v # w => wpc'[v] = wpc[v] /\ job'[v] = job[v]
      BY <2>1, MoveType
    <2>3. ckpt'.done = done'
      BY <2>1, CommitOwn DEF Rewritten
    <2>4. done' \cup Committing' = done \cup Committing
      <3>1. done' = done \cup {job[w]}
        BY <2>1 DEF CountResult
      <3>2. Committing' \cup {job[w]} = Committing
        BY <2>1, <2>2 DEF Committing
      <3> QED
        BY <3>1, <3>2
    <2>5. StepsOf(hist', run') = Committed(run)
      BY <1>e, <2>1 DEF Committed
    <2> QED
      BY <1>e, <2>1, <2>3, <2>4, <2>5 DEF Tracked, Whole, Committed
  <1> QED
    BY <1>1, <1>2, <1>3, <1>4, <1>5, <1>6, <1>7, <1>8, <1>9, <1>10 DEF Worker

LEMMA TrackedBegin ==
    ASSUME TypeInv, Own, Backed, WindowSuffices, Tracked,
           \/ \E k \in Kind \ {"auto"} : Start(k)
           \/ \E s \in Sessions : AutoResumeDecide(s)
           \/ AutoResumeClaim \/ Recover \/ RecoverFails
           \/ \E r \in Runs : PlanFresh(r)
           \/ PlanResume \/ PlanRejected \/ ForcedClear \/ ResetControl
           \/ FirstCheckpoint \/ BeginFails
    PROVE  Tracked'
  <1> USE DEF fileVars, storeVars, planVars, execVars, Goto, EndSession
  <1>1. CASE \/ \E k \in Kind \ {"auto"} : Start(k)
             \/ \E s \in Sessions : AutoResumeDecide(s)
             \/ AutoResumeClaim \/ Recover \/ RecoverFails \/ PlanRejected \/ BeginFails
    BY <1>1, TrackedElsewhere
       DEF Start, AutoResumeDecide, AutoResumeClaim, Recover, RecoverFails, PlanRejected,
           BeginFails
  <1>2. ASSUME NEW r \in Runs, PlanFresh(r) PROVE Tracked'
    <2>1. pc = "plan" /\ run' = r /\ r \notin used /\ pc' # "exec" /\ UNCHANGED <<hist, done>>
      BY <1>2 DEF PlanFresh
    <2>2. done = {}
      BY <2>1 DEF Backed, Planned
    <2>3. StepsOf(hist', run') = {}
      BY <2>1 DEF StepsOf, Own, Known
    <2> QED
      BY <2>1, <2>2, <2>3 DEF Tracked, Whole, Committed
  <1>3. CASE PlanResume
    <2>1. /\ run' = ResumeRun /\ done' = Recent(ResumeRun) /\ pc' # "exec" /\ UNCHANGED hist
      BY <1>3 DEF PlanResume
    <2>2. done' = Committed(ResumeRun)
      BY <2>1, WindowReadsAll
    <2>3. done' = StepsOf(hist', run')
      BY <2>1, <2>2 DEF Committed
    <2> QED
      BY <2>1, <2>3 DEF Tracked, Whole, Committed
  <1>4. CASE ForcedClear \/ ResetControl
    <2>1. \/ pc' = "idle"
          \/ pc \in {"clear", "reset"} /\ pc' # "exec" /\ UNCHANGED <<hist, run, done>>
      BY <1>4 DEF ForcedClear, ResetControl
    <2> QED
      BY <2>1, TrackedElsewhere DEF Tracked, Whole, Committed
  <1>5. CASE FirstCheckpoint
    <2>1. /\ pc = "persist" /\ pc' = "exec" /\ UNCHANGED <<hist, run, done, wpc>>
          /\ \A w \in Workers : wpc[w] = "free"
      BY <1>5 DEF FirstCheckpoint, TypeInv, PlacesTypeOK, workerVars
    <2>2. StepsOf(hist', run') = done' /\ Committing' = {}
      BY <2>1 DEF Tracked, Committed, Committing
    <2>3. ckpt'.done = done'
      BY <1>5, <2>1 DEF FirstCheckpoint, ReplaceCheckpoint
    <2> QED
      BY <2>1, <2>2, <2>3 DEF Tracked, Whole, Committed
  <1> QED
    BY <1>1, <1>2, <1>3, <1>4, <1>5

LEMMA TrackedStep ==
    TypeInv /\ Own /\ Backed /\ Undismissed /\ WindowSuffices /\ Tracked /\ [Next]_vars => Tracked'
  <1> SUFFICES ASSUME TypeInv, Own, Backed, Undismissed, WindowSuffices, Tracked, [Next]_vars
               PROVE  Tracked'
    OBVIOUS
  <1> USE DEF fileVars, storeVars, procVars, planVars, execVars, workerVars, Goto, EndSession
  <1>1. CASE UNCHANGED vars
    BY <1>1 DEF vars, Tracked, Whole, Committed, Committing
  <1>2. CASE \/ \E s \in Requesters : RequestControl("pause", s)
             \/ RequestControl("stop", NoSession)
    <2>1. SameRun /\ UNCHANGED <<hist, pc, run, done, action, troubles, wpc, job>>
      BY <1>2, RequestSame DEF SameCheckpoint
    <2>2. CASE pc = "exec"
      BY <2>1, <2>2, TrackedMoves
    <2>3. CASE pc # "exec"
      BY <2>1, <2>3 DEF Tracked, Whole, Committed
    <2> QED
      BY <2>2, <2>3
  <1>3. CASE (\E k \in Kind \ {"auto"} : Start(k)) \/ (\E s \in Sessions : AutoResumeDecide(s))
    BY <1>3, TrackedBegin
  <1>4. CASE \/ WrapUp \/ SaveCompletedMetadata \/ RetainCheckpoint \/ FinishFails
             \/ CommitSnapshot \/ FailMetadata \/ FailCheckpoint \/ FailLifecycle
             \/ FailureHandlingFails \/ Crash
    BY <1>4, TrackedElsewhere
       DEF WrapUp, SaveCompletedMetadata, RetainCheckpoint, FinishFails, CommitSnapshot,
           FailMetadata, FailCheckpoint, FailLifecycle, FailureHandlingFails, Crash
  <1>5. CASE ScanProcess
    BY <1>4, <1>5, TrackedBegin DEF ScanProcess
  <1>6. ASSUME NEW w \in Workers,
               Worker(w) \/ JobRaises(w) \/ EntryFails(w) \/ LockedSectionFails(w)
        PROVE  Tracked'
    BY <1>6, TrackedWork
  <1>7. CASE Dismiss
    BY <1>7, NoDismissalStarts
  <1>8. CASE RecoverFails \/ BeginFails
    BY <1>8, TrackedBegin
  <1> QED
    BY <1>1, <1>2, <1>3, <1>4, <1>5, <1>6, <1>7, <1>8 DEF Next, Command, Fault

LEMMA WindowedSession ==
    ASSUME NoDismissal
    PROVE  Spec /\ []WindowSuffices => [](Own /\ Tracked)
  <1>1. TypeInv /\ Backed /\ Undismissed /\ Own /\ WindowSuffices /\ Tracked /\ [Next]_vars
        => Tracked'
    BY TrackedStep
  <1> QED
    BY UndismissedSession, InitTracked, <1>1, PTL DEF Spec

(* While a resumption reads all of the history, the checkpoint of the run   *)
(* that is executed shows exactly the steps whose results are durable,      *)
(* whenever no worker is inside the session lock.                           *)
THEOREM CheckpointStaysCurrent ==
    NoDismissal => (Spec /\ []WindowSuffices => []CheckpointIsCurrent)
  <1> SUFFICES ASSUME NoDismissal PROVE Spec /\ []WindowSuffices => []CheckpointIsCurrent
    OBVIOUS
  <1>1. Own /\ Tracked => CheckpointIsCurrent
    <2> SUFFICES ASSUME Own, Tracked, Quiet, action # "stop"
                 PROVE  ActiveRun = run /\ ckpt.done = Committed(run)
      BY DEF CheckpointIsCurrent
    <2>1. Whole /\ Committing = {}
      BY DEF Quiet, Whole, NoLockHolder, Locked, Committing
    <2> QED
      BY <2>1 DEF Tracked, Own, Owned, Whole
  <1> QED
    BY WindowedSession, <1>1, PTL

-----------------------------------------------------------------------------
(* Jobs that start late.                                                   *)

(* A pause asked for by session s waits in the mailbox of run r.            *)
PauseWaits(r, s) == MailFor(r) /\ mailbox.action = "pause" /\ mailbox.session = s

(* The active run is the same, and no session is freed of its suppression.  *)
Heeds ==
    /\ ActiveRun' = ActiveRun
    /\ HasRun => \A s \in Sessions : ckpt.sessions[s].suppressed => ckpt'.sessions[s].suppressed

LEMMA HeedsIfKept == ckpt' = ckpt => Heeds
  BY DEF Heeds, ActiveRun, HasRun

(* Suppressing a session suppresses that one and leaves the others alone.   *)
LEMMA SuppressedHeeds ==
    ASSUME StoreTypeOK, HasRun, NEW s \in Sessions, ckpt' = Suppressed(ckpt, s)
    PROVE  Heeds /\ ckpt'.sessions[s].suppressed
  <1>1. ckpt \in Checkpoint /\ ckpt' \in Checkpoint /\ ckpt'.run = ckpt.run
    BY CheckpointIsRecord, SuppressedType
  <1>2. ckpt'.sessions = [ckpt.sessions EXCEPT ![s].suppressed = TRUE]
    BY <1>1 DEF Suppressed, Checkpoint
  <1>3. \A t \in Sessions : ckpt.sessions[t] \in AutoResumeSession
    BY <1>1 DEF Checkpoint
  <1>4. \A t \in Sessions : ckpt.sessions[t].suppressed \/ t = s => ckpt'.sessions[t].suppressed
    BY <1>1, <1>2, <1>3 DEF AutoResumeSession, Checkpoint
  <1>5. ActiveRun' = ActiveRun
    BY <1>1, StoreAssumption DEF ActiveRun, HasRun
  <1> QED
    BY <1>4, <1>5 DEF Heeds

(* A poll of the active run that is made takes what the mailbox holds for   *)
(* it, and a pause it takes suppresses the session; one that fails leaves   *)
(* the mailbox.                                                             *)
LEMMA ClaimControlHeeds ==
    ASSUME StoreTypeOK, NEW r \in Runs, ClaimControl(r) \/ ClaimControlFails(r)
    PROVE  /\ Heeds
           /\ ClaimControl(r) /\ ActiveRun = r => \A s \in Sessions :
                 PauseWaits(r, s) => ckpt'.sessions[s].suppressed
           /\ ClaimControl(r) => mailbox' \in {mailbox, NoMail}
           /\ ClaimControlFails(r) => mailbox' = mailbox
  <1>1. ActiveRun = r => HasRun
    BY StoreAssumption DEF ActiveRun
  <1>2. CASE MarkedByClaim(r) = ckpt
    <2>1. ckpt' = ckpt
      BY <1>2 DEF ClaimControl, ClaimControlFails
    <2>2. ActiveRun = r => \A s \in Sessions : ~PauseWaits(r, s) \/ ckpt.sessions[s].suppressed
      <3> SUFFICES ASSUME ActiveRun = r, NEW s \in Sessions, PauseWaits(r, s)
                   PROVE  ckpt.sessions[s].suppressed
        OBVIOUS
      <3>1. Claimed(r) = "pause" /\ mailbox.session = s /\ s # NoSession
        BY <1>1, StoreAssumption DEF PauseWaits, MailFor, Claimed, ForeignToClaim
      <3>2. Suppressed(ckpt, s) = ckpt
        BY <1>1, <1>2, <3>1 DEF MarkedByClaim
      <3>3. ckpt \in Checkpoint
        BY <1>1, CheckpointIsRecord
      <3>4. ckpt.sessions[s] \in AutoResumeSession
        BY <3>3 DEF Checkpoint
      <3>5. Suppressed(ckpt, s).sessions[s].suppressed = TRUE
        BY <3>3, <3>4 DEF Suppressed, Checkpoint, AutoResumeSession
      <3> QED
        BY <3>2, <3>5
    <2> QED
      BY <2>1, <2>2, HeedsIfKept DEF ClaimControl, ClaimControlFails
  <1>3. CASE HasRun /\ Claimed(r) = "stop" /\ MarkedByClaim(r) = [ckpt EXCEPT !.stop = TRUE]
    <2>1. ckpt \in Checkpoint
      BY <1>3, CheckpointIsRecord
    <2>2. [ckpt EXCEPT !.stop = TRUE].sessions = ckpt.sessions
          /\ [ckpt EXCEPT !.stop = TRUE].run = ckpt.run
          /\ [ckpt EXCEPT !.stop = TRUE] \in Checkpoint
      BY <2>1 DEF Checkpoint
    <2>3. ckpt' = ckpt \/ ckpt' = [ckpt EXCEPT !.stop = TRUE]
      BY <1>3 DEF ClaimControl, ClaimControlFails
    <2>4. Heeds
      BY <1>3, <2>2, <2>3, HeedsIfKept, StoreAssumption DEF Heeds, ActiveRun, HasRun
    <2>5. \A s : ~PauseWaits(r, s)
      BY <1>3 DEF PauseWaits, MailFor, Claimed
    <2> QED
      BY <2>4, <2>5 DEF ClaimControl, ClaimControlFails
  <1>4. CASE HasRun /\ Claimed(r) # "none" /\ mailbox.session # NoSession
             /\ MarkedByClaim(r) = Suppressed(ckpt, mailbox.session)
    <2>1. mailbox.session \in Sessions
      BY <1>4 DEF Claimed, StoreTypeOK, Mail
    <2>2. ckpt' = ckpt \/ ckpt' = Suppressed(ckpt, mailbox.session)
      BY <1>4 DEF ClaimControl, ClaimControlFails
    <2>3. Heeds
      BY <1>4, <2>1, <2>2, HeedsIfKept, SuppressedHeeds
    <2>4. ClaimControl(r) => ckpt'.sessions[mailbox.session].suppressed
      BY <1>4, <2>1, SuppressedHeeds DEF ClaimControl
    <2> QED
      BY <2>3, <2>4 DEF PauseWaits, ClaimControl, ClaimControlFails
  <1>5. \/ MarkedByClaim(r) = ckpt
        \/ HasRun /\ Claimed(r) = "stop" /\ MarkedByClaim(r) = [ckpt EXCEPT !.stop = TRUE]
        \/ HasRun /\ Claimed(r) # "none" /\ mailbox.session # NoSession
           /\ MarkedByClaim(r) = Suppressed(ckpt, mailbox.session)
    BY DEF MarkedByClaim
  <1> QED
    BY <1>2, <1>3, <1>4, <1>5

(* What is claimed of a mailbox under the run's own checkpoint.             *)
LEMMA ClaimedIsMail ==
    ASSUME StoreTypeOK, NEW r \in Runs, ActiveRun = r
    PROVE  /\ MailFor(r) => Claimed(r) \in Control
           /\ ~MailFor(r) => Claimed(r) = "none"
  <1>1. HasRun
    BY StoreAssumption DEF ActiveRun
  <1> QED
    BY <1>1 DEF MailFor, Claimed, ForeignToClaim, StoreTypeOK, Mail, Control

(* A request keeps what is suppressed, leaves a mail for the active run,    *)
(* and suppresses the session whose pause it accepts.                       *)
LEMMA RequestHeeds ==
    ASSUME StoreTypeOK, NEW a \in Control, NEW s \in Sessions \cup {NoSession},
           RequestControlForActiveRun(a, s)
    PROVE  /\ HasRun /\ Heeds
           /\ UNCHANGED mailbox \/ MailFor(ckpt.run)'
           /\ MailFor(ckpt.run) => mailbox' # NoMail /\ mailbox'.run = ckpt.run
           /\ Effective(a) = "pause" /\ s # NoSession =>
                 /\ ckpt'.sessions[s].suppressed
                 /\ mailbox' # NoMail /\ mailbox'.run = ckpt.run
                 /\ mailbox'.action = "pause" /\ mailbox'.session = s
  <1>1. HasRun /\ ckpt \in Checkpoint /\ ckpt.run \in Runs
    BY CheckpointIsRecord DEF RequestControlForActiveRun
  <1>2. CASE AnsweredByMarker(a)
    <2>1. UNCHANGED <<ckpt, mailbox>> /\ Effective(a) = "stop"
      BY <1>2 DEF RequestControlForActiveRun, storeVars, Effective
    <2> QED
      BY <1>1, <2>1, HeedsIfKept DEF MailFor
  <1>3. CASE ~AnsweredByMarker(a)
    <2>1. mailbox' = Written(a, s)
      BY <1>3 DEF RequestControlForActiveRun
    <2>2. Written(a, s) \in Mail /\ Written(a, s).run = ckpt.run
      BY <1>1 DEF Written, MailFor, StoreTypeOK, Mail
    <2>3. Effective(a) = "pause" => Written(a, s) = [run |-> ckpt.run, action |-> "pause", session |-> s]
      BY <1>3 DEF Effective, Written
    <2>4. CASE s \in Sessions /\ Written(a, s).action = "pause"
      <3>1. Heeds /\ ckpt'.sessions[s].suppressed
        BY <1>1, <1>3, <2>4, SuppressedHeeds, StoreAssumption DEF RequestControlForActiveRun
      <3>2. ckpt'.run = ckpt.run
        BY <1>1, <1>3, <2>4, SuppressedType, StoreAssumption DEF RequestControlForActiveRun
      <3> QED
        BY <1>1, <2>1, <2>2, <2>3, <3>1, <3>2, StoreAssumption DEF MailFor
    <2>5. CASE ~(s \in Sessions /\ Written(a, s).action = "pause")
      <3>1. ckpt' = ckpt
        BY <1>3, <2>5 DEF RequestControlForActiveRun
      <3> QED
        BY <1>1, <2>1, <2>2, <2>3, <2>5, <3>1, HeedsIfKept, StoreAssumption DEF MailFor
    <2> QED
      BY <2>4, <2>5
  <1> QED
    BY <1>2, <1>3

LEMMA UpdatesHeed ==
    ASSUME StoreTypeOK, NEW m \in Metadata, NEW l \in Lifecycle,
           UpdateRunMetadata(m) \/ UpdateRuntimeState(l)
    PROVE  Heeds /\ mailbox' = mailbox
  <1>1. CASE HasRun
    <2>1. ckpt \in Checkpoint
      BY <1>1, CheckpointIsRecord
    <2>2. ckpt' \in Checkpoint /\ ckpt'.run = ckpt.run /\ ckpt'.sessions = ckpt.sessions
      BY <1>1, <2>1 DEF UpdateRunMetadata, UpdateRuntimeState, Checkpoint
    <2> QED
      BY <1>1, <2>2, StoreAssumption
         DEF Heeds, ActiveRun, HasRun, UpdateRunMetadata, UpdateRuntimeState
  <1>2. CASE ~HasRun
    BY <1>2, HeedsIfKept DEF UpdateRunMetadata, UpdateRuntimeState
  <1> QED
    BY <1>1, <1>2

LEMMA RewritesHeed ==
    ASSUME NEW r, ActiveRun = r, NEW l, NEW m, NEW d, Rewritten(r, l, m, d)
    PROVE  Heeds
  BY DEF Rewritten, Heeds, ActiveRun

(* A poll by the process that owns the checkpoint: what waits for the run   *)
(* becomes its action, and a pause among it suppresses the session.         *)
LEMMA PollHeeds ==
    ASSUME TypeInv, Own, NEW w \in Workers, wpc[w] \in {"taken", "returned"}, PollControl(w)
    PROVE  /\ Heeds
           /\ action # "none" => action' # "none"
           /\ action = "none" /\ MailFor(run) => action' # "none"
           /\ action = "none" => \A s \in Sessions :
                 PauseWaits(run, s) => ckpt'.sessions[s].suppressed
           /\ \A v \in Workers : wpc'[v] = "starting" =>
                 wpc[v] = "starting" \/ action' = "none"
  <1>1. pc = "exec" /\ run \in Runs /\ StoreTypeOK
    BY DEF TypeInv, TypeOK, PlacesTypeOK, Planned
  <1>2. ClaimControl(run) /\ action' = Polled
    BY DEF PollControl
  <1>3. ckpt # NoCheckpoint => ActiveRun = run
    <2>1. HasRun => ActiveRun \in Runs
      BY <1>1, CheckpointIsRecord DEF ActiveRun
    <2> QED
      BY <1>1, <2>1, StoreAssumption DEF Own, Owned, ActiveRun, HasRun
  <1>4. action = "none" => ActiveRun = run
    BY <1>1 DEF Own, Owned
  <1>5. action # "none" => Polled # "none"
    BY <1>3 DEF Polled
  <1>6. action = "none" /\ MailFor(run) => Polled # "none"
    BY <1>1, <1>3, <1>4, ClaimedIsMail DEF Polled, Control
  <1>7. \A v \in Workers : wpc'[v] = "starting" => wpc[v] = "starting" \/ action' = "none"
    <2>1. PICK p \in {"c_meta", "starting", "append", "free"} : Move(w, p) /\ HeldAt(p, action')
      BY PollSame
    <2> QED
      BY <2>1, MoveType DEF HeldAt, WorkerPlace, Locked
  <1> QED
    BY <1>1, <1>2, <1>4, <1>5, <1>6, <1>7, ClaimControlHeeds

(* What a step of a worker does to the mailbox, to the action, and to the   *)
(* sessions that are suppressed.                                            *)
LEMMA WorkHeeds ==
    ASSUME TypeInv, Own, NEW w \in Workers,
           Worker(w) \/ JobRaises(w) \/ EntryFails(w) \/ LockedSectionFails(w)
    PROVE  /\ Heeds \/ ~HasRun'
           /\ action # "none" => action' # "none"
           /\ action = "none" =>
                \/ mailbox' = mailbox /\ action' = action
                \/ /\ MailFor(run) => action' # "none"
                   /\ \A s \in Sessions : PauseWaits(run, s) => ckpt'.sessions[s].suppressed
           /\ \A v \in Workers : wpc'[v] = "starting" =>
                 wpc[v] = "starting" \/ (action = "none" /\ ~MailFor(run))
  <1> USE DEF fileVars, storeVars, procVars, planVars, execVars
  <1>t. TypeOK /\ StoreTypeOK
    BY DEF TypeInv, TypeOK
  <1>e. pc = "exec" /\ run \in Runs /\ HeldAt(wpc[w], action)
        /\ (action # "stop" => ActiveRun = run)
    BY WorkerExecutes DEF Own, Owned
  <1>h. ckpt' = ckpt => Heeds
    BY HeedsIfKept
  <1>p. PersistRun => Heeds /\ mailbox' = mailbox
    BY <1>e, <1>h, PersistOwn, RewritesHeed DEF PersistRun, ReplaceCheckpoint
  <1>c. wpc[w] = "commit" /\ CountResult(w) /\ ReplaceCheckpoint(run, life, PersistedMetadata, done')
          => Heeds /\ mailbox' = mailbox
    BY <1>e, CommitOwn, RewritesHeed DEF HeldAt, ReplaceCheckpoint
  <1>m. ASSUME NEW p \in WorkerPlace \ {"starting"}, Move(w, p)
        PROVE  \A v \in Workers : wpc'[v] = "starting" => wpc[v] = "starting"
    BY <1>m, MoveType
  <1>a. action # "none" => AfterPoll(w, action) \in WorkerPlace \ {"starting"}
    BY DEF AfterPoll, WorkerPlace, Locked
  <1> USE DEF WorkerPlace, Locked
  <1>1. CASE TakeJob(w) \/ JobReturns(w)
    <2>1. \A v \in Workers : wpc'[v] = "starting" => wpc[v] = "starting"
      BY <1>1, <1>t DEF TakeJob, JobReturns, TypeOK
    <2> QED
      BY <1>1, <1>h, <2>1 DEF TakeJob, JobReturns
  <1>2. CASE NotStarted(w) \/ StartJob(w)
    BY <1>2, <1>p, <1>m DEF NotStarted, StartJob
  <1>3. CASE FailJob(w)
    BY <1>3, <1>p, <1>h, <1>m DEF FailJob
  <1>4. CASE JobRaises(w) \/ AppendRow(w)
    BY <1>4, <1>h, <1>m DEF JobRaises, AppendRow
  <1>5. CASE TryStart(w) \/ FinishJob(w)
    <2>1. PollControl(w) /\ wpc[w] \in {"taken", "returned"}
      BY <1>5 DEF TryStart, FinishJob
    <2> QED
      BY <2>1, PollHeeds
  <1>6. CASE EntryFails(w)
    <2>1. Heeds /\ mailbox' = mailbox
      BY <1>6, <1>t, <1>e, <1>h, ClaimControlHeeds DEF EntryFails
    <2> QED
      BY <1>6, <1>m, <2>1 DEF EntryFails
  <1>7. CASE Commit(w)
    BY <1>7, <1>c, <1>m DEF Commit
  <1>8. CASE ControlMetadata(w)
    BY <1>8, <1>h, <1>m DEF ControlMetadata
  <1>9. CASE PauseCheckpoint(w)
    BY <1>9, <1>t, <1>m, MetadataTypes, UpdatesHeed DEF PauseCheckpoint, TypeOK
  <1>10. CASE PauseLifecycle(w)
    <2>1. Heeds /\ mailbox' = mailbox
      BY <1>10, <1>t, MetadataTypes, UpdatesHeed DEF PauseLifecycle, TypeOK
    <2>2. action = "pause"
      BY <1>10, <1>e DEF PauseLifecycle, HeldAt
    <2> QED
      BY <1>10, <1>a, <1>m, <2>1, <2>2 DEF PauseLifecycle
  <1>11. CASE StopClear(w)
    <2>1. Heeds \/ ~HasRun'
      BY <1>11, <1>h DEF StopClear, ClearForRun, Clear, HasRun
    <2>2. action = "stop"
      BY <1>11, <1>e DEF StopClear, HeldAt
    <2> QED
      BY <1>11, <1>a, <1>m, <2>1, <2>2 DEF StopClear
  <1>12. CASE LockedSectionFails(w)
    <2>1. Heeds
      BY <1>12, <1>h, <1>p, <1>c DEF LockedSectionFails, KeptCheckpoint
    <2>2. mailbox' = mailbox \/ action = "stop"
      BY <1>12, <1>e, <1>p, <1>c DEF LockedSectionFails, HeldAt
    <2> QED
      BY <1>12, <1>m, <2>1, <2>2 DEF LockedSectionFails
  <1> QED
    BY <1>1, <1>2, <1>3, <1>4, <1>5, <1>6, <1>7, <1>8, <1>9, <1>10, <1>11, <1>12 DEF Worker

(* At most one worker is inside the session lock.                           *)
Exclusive == \A v, w \in Workers : wpc[v] \in Locked /\ wpc[w] \in Locked => v = w

(* A worker comes to a place under the lock from another one, or when no    *)
(* worker is at such a place.                                               *)
LEMMA WorkLocks ==
    ASSUME TypeInv, NEW w \in Workers,
           Worker(w) \/ JobRaises(w) \/ EntryFails(w) \/ LockedSectionFails(w)
    PROVE  /\ \A v \in Workers : v # w => wpc'[v] = wpc[v]
           /\ wpc'[w] \in Locked => wpc[w] \in Locked \/ NoLockHolder
  <1>m. ASSUME NEW p \in WorkerPlace, Move(w, p), p \in Locked => wpc[w] \in Locked \/ NoLockHolder
        PROVE  /\ \A v \in Workers : v # w => wpc'[v] = wpc[v]
               /\ wpc'[w] \in Locked => wpc[w] \in Locked \/ NoLockHolder
    BY <1>m, MoveType
  <1>a. \A a : AfterPoll(w, a) \in WorkerPlace
    BY DEF AfterPoll, WorkerPlace, Locked
  <1> USE DEF WorkerPlace, Locked
  <1>1. CASE TakeJob(w) \/ JobReturns(w)
    BY <1>1 DEF TakeJob, JobReturns, TypeInv, TypeOK
  <1>2. CASE NotStarted(w) \/ FailJob(w) \/ EntryFails(w) \/ JobRaises(w)
    BY <1>2, <1>m DEF NotStarted, FailJob, EntryFails, JobRaises
  <1>3. CASE StartJob(w) \/ AppendRow(w) \/ Commit(w) \/ ControlMetadata(w) \/ PauseCheckpoint(w)
             \/ LockedSectionFails(w)
    BY <1>3, <1>m
       DEF StartJob, AppendRow, Commit, ControlMetadata, PauseCheckpoint, LockedSectionFails
  <1>4. CASE PauseLifecycle(w) \/ StopClear(w)
    BY <1>4, <1>a, <1>m DEF PauseLifecycle, StopClear
  <1>5. CASE TryStart(w) \/ FinishJob(w)
    BY <1>5, <1>a, <1>m DEF TryStart, FinishJob, PollControl
  <1> QED
    BY <1>1, <1>2, <1>3, <1>4, <1>5 DEF Worker

LEMMA ExclusiveStep == TypeInv /\ Exclusive /\ [Next]_vars => Exclusive'
  <1> SUFFICES ASSUME TypeInv, Exclusive, [Next]_vars PROVE Exclusive'
    OBVIOUS
  <1> USE DEF workerVars, EndSession, Locked
  <1>1. ASSUME NEW w \in Workers,
               Worker(w) \/ JobRaises(w) \/ EntryFails(w) \/ LockedSectionFails(w)
        PROVE  Exclusive'
    <2>1. /\ \A v \in Workers : v # w => wpc'[v] = wpc[v]
          /\ wpc'[w] \in Locked => wpc[w] \in Locked \/ NoLockHolder
      BY <1>1, WorkLocks
    <2> QED
      BY <2>1 DEF Exclusive, NoLockHolder
  <1>2. CASE wpc' = wpc \/ wpc' = [w \in Workers |-> "free"]
    BY <1>2 DEF Exclusive
  <1>3. CASE UNCHANGED vars
    BY <1>2, <1>3 DEF vars
  <1>4. CASE ScanProcess
    BY <1>2, <1>4
       DEF ScanProcess, AutoResumeClaim, Recover, PlanFresh, PlanResume, PlanRejected,
           ForcedClear, ResetControl, FirstCheckpoint, WrapUp, SaveCompletedMetadata,
           RetainCheckpoint, CommitSnapshot, FailMetadata, FailCheckpoint, FailLifecycle
  <1>5. CASE Dismiss
    BY <1>2, <1>5 DEF Dismiss, DismissCheckLock, DismissLoad, DismissMetadata, DismissClear
  <1>6. CASE RecoverFails \/ BeginFails \/ FinishFails \/ FailureHandlingFails \/ Crash
    BY <1>2, <1>6 DEF RecoverFails, BeginFails, FinishFails, FailureHandlingFails, Crash
  <1>7. CASE Command
    BY <1>2, <1>7 DEF Command, Start, AutoResumeDecide, RequestControl
  <1> QED
    BY <1>1, <1>3, <1>4, <1>5, <1>6, <1>7 DEF Next, Fault

-----------------------------------------------------------------------------
(* Ahead of the execution, and between executions. *)
Ahead == {"idle", "claim", "recover", "plan", "clear", "reset", "persist"}

(* The process may take a mail out of the mailbox, or have taken it, other  *)
(* than by heeding it.                                                      *)
MailMayGo ==
    \/ pc # "idle" /\ kind \in {"scan", "force"}
    \/ pc = "exec" /\ action # "none"

(* A run in finalizing that recovery has not looked at yet.                 *)
BeforeRecovery == pc \in {"idle", "claim", "recover"} /\ Finalizing

(* The pause of a session is in the checkpoint, or still in the mailbox.    *)
Heeded(r, s) == ckpt.sessions[s].suppressed \/ (~MailMayGo /\ PauseWaits(r, s))

(* What is known of a run a session has paused.                             *)
PauseRemembered(r, s) ==
    /\ r \in used
    /\ ActiveRun = r /\ ~BeforeRecovery => Heeded(r, s)
    /\ pc \in {"recover", "plan"} /\ kind = "scan" => ActiveRun = r \/ (~HasRun /\ Ended(r))
    /\ pc = "clear" => run # r
    /\ pc \in {"reset", "persist"} /\ run = r => ActiveRun = r

Remembered ==
    /\ pc = "clear" => ActiveRun # run
    /\ pc = "commit" => Finalizing
    /\ \A r \in Runs, s \in Sessions : <<r, s>> \in asked => PauseRemembered(r, s)

(* An automatic resumption of a run that its own session has paused finds   *)
(* the pause in the mailbox, until its first poll.                          *)
AutoWaits ==
    kind = "auto" /\ <<run, sess>> \in asked /\ ActiveRun = run /\ ~BeforeRecovery =>
        /\ pc = "claim" => PauseWaits(run, sess)
        /\ pc \in Ahead \/ (pc = "exec" /\ action = "none") => MailFor(run)

Spared ==
    /\ AtMostOneLateStart
    /\ pc \in Ahead => action = "none"
    /\ pc \in Ahead \ {"idle"} => late = 0
    /\ At({"starting"}) => late = 0
    /\ pc = "exec" /\ action = "none" /\ late # 0 => MailFor(run)

Sparing == Exclusive /\ Remembered /\ AutoWaits /\ Spared

LEMMA InitSparing == Init => Sparing
  BY DEF Init, StoreInit, Sparing, Exclusive, Locked, Remembered, AutoWaits, Spared, At,
         AtMostOneLateStart

(* A step of a worker. *)
LEMMA SparingWork ==
    ASSUME TypeInv, Own, Sparing, NEW w \in Workers,
           Worker(w) \/ JobRaises(w) \/ EntryFails(w) \/ LockedSectionFails(w)
    PROVE  Remembered' /\ AutoWaits' /\ Spared'
  <1> USE DEF fileVars, procVars, planVars, observed
  <1>1. pc = "exec" /\ UNCHANGED <<pc, kind, run, sess, asked, used>> /\ run \in Runs
    <2>1. pc = "exec" /\ UNCHANGED <<pc, kind, run, sess>> /\ run \in Runs
      BY WorkStays, WorkerExecutes
    <2>2. UNCHANGED <<asked, used>>
      BY DEF Worker, TakeJob, NotStarted, TryStart, StartJob, JobReturns, FailJob, FinishJob,
             AppendRow, Commit, ControlMetadata, PauseCheckpoint, PauseLifecycle, StopClear,
             JobRaises, EntryFails, LockedSectionFails
    <2> QED
      BY <2>1, <2>2
  <1>2. /\ Heeds \/ ~HasRun'
        /\ action # "none" => action' # "none"
        /\ action = "none" =>
             \/ mailbox' = mailbox /\ action' = action
             \/ /\ MailFor(run) => action' # "none"
                /\ \A s \in Sessions : PauseWaits(run, s) => ckpt'.sessions[s].suppressed
        /\ \A v \in Workers : wpc'[v] = "starting" =>
              wpc[v] = "starting" \/ (action = "none" /\ ~MailFor(run))
    BY WorkHeeds
  <1>3. action = "none" => ActiveRun = run
    BY <1>1 DEF Own, Owned
  <1>4. ASSUME NEW r \in Runs, ActiveRun' = r PROVE HasRun' /\ Heeds /\ ActiveRun = r /\ HasRun
    BY <1>2, <1>4, StoreAssumption DEF Heeds, ActiveRun
  <1>5. Remembered'
    <2> SUFFICES ASSUME NEW r \in Runs, NEW s \in Sessions, <<r, s>> \in asked
                 PROVE  PauseRemembered(r, s)'
      BY <1>1 DEF Remembered
    <2>1. PauseRemembered(r, s)
      BY DEF Sparing, Remembered
    <2>2. ASSUME ActiveRun' = r PROVE Heeded(r, s)'
      <3>1. Heeds /\ ActiveRun = r /\ HasRun
        BY <1>4, <2>2
      <3>2. Heeded(r, s)
        BY <1>1, <2>1, <3>1 DEF PauseRemembered, BeforeRecovery
      <3>3. CASE ckpt.sessions[s].suppressed
        BY <3>1, <3>3 DEF Heeds, Heeded
      <3>4. CASE ~MailMayGo /\ PauseWaits(r, s)
        <4>1. action = "none" /\ run = r /\ kind \notin {"scan", "force"}
          BY <1>1, <1>3, <3>1, <3>4 DEF MailMayGo
        <4>2. CASE mailbox' = mailbox /\ action' = action
          BY <1>1, <3>4, <4>1, <4>2 DEF Heeded, MailMayGo, PauseWaits, MailFor
        <4>3. CASE \A t \in Sessions : PauseWaits(run, t) => ckpt'.sessions[t].suppressed
          BY <3>4, <4>1, <4>3 DEF Heeded
        <4> QED
          BY <1>2, <4>1, <4>2, <4>3
      <3> QED
        BY <3>2, <3>3, <3>4 DEF Heeded
    <2> QED
      BY <1>1, <2>1, <2>2 DEF PauseRemembered
  <1>6. action' = "none" /\ MailFor(run) => MailFor(run)'
    BY <1>1, <1>2 DEF MailFor
  <1>7. AutoWaits'
    <2> SUFFICES ASSUME kind = "auto", <<run, sess>> \in asked, ActiveRun' = run, action' = "none"
                 PROVE  MailFor(run)'
      BY <1>1 DEF AutoWaits, Ahead
    <2>1. ActiveRun = run /\ action = "none"
      BY <1>1, <1>2, <1>4
    <2>2. MailFor(run)
      BY <1>1, <2>1 DEF Sparing, AutoWaits, BeforeRecovery
    <2> QED
      BY <1>6, <2>2
  <1>8. Spared'
    <2>1. CASE StartJob(w)
      <3>1. /\ wpc[w] = "starting" /\ Move(w, "running") /\ PersistRun /\ action' = action
            /\ late' = IF Late THEN late + 1 ELSE late
        BY <2>1 DEF StartJob
      <3>2. late = 0 /\ action = "none" /\ ActiveRun = run
        BY <1>3, <3>1 DEF Sparing, Spared, At, Own, Owned, HeldAt
      <3>3. late' # 0 => MailFor(run)
        BY <1>1, <3>1, <3>2 DEF Late, Sparing, AutoWaits, BeforeRecovery
      <3>4. ~At({"starting"})'
        <4>1. \A v \in Workers : v # w => wpc[v] # "starting"
          BY <3>1 DEF Sparing, Exclusive, Locked
        <4> QED
          BY <3>1, <4>1, MoveType DEF At, WorkerPlace
      <3> QED
        BY <1>1, <1>6, <3>1, <3>2, <3>3, <3>4 DEF Spared, AtMostOneLateStart, Ahead
    <2>2. CASE ~StartJob(w)
      <3>1. late' = late
        BY <2>2 DEF Worker, TakeJob, NotStarted, TryStart, JobReturns, FailJob, FinishJob,
                    AppendRow, Commit, ControlMetadata, PauseCheckpoint, PauseLifecycle,
                    StopClear, JobRaises, EntryFails, LockedSectionFails
      <3>2. At({"starting"})' => late = 0
        BY <1>1, <1>2 DEF At, Sparing, Spared
      <3>3. action' = "none" => action = "none"
        BY <1>2
      <3> QED
        BY <1>1, <1>6, <3>1, <3>2, <3>3 DEF Sparing, Spared, AtMostOneLateStart, Ahead
    <2> QED
      BY <2>1, <2>2
  <1> QED
    BY <1>5, <1>7, <1>8

(* An automatic resumption frees the session it claims for and no other.    *)
LEMMA ClaimHeedsOthers ==
    ASSUME StoreTypeOK, HasRun, NEW s \in Sessions, ClaimAutoResume(ActiveRun, s)
    PROVE  /\ HasRun' /\ ckpt'.run = ckpt.run /\ ckpt'.life = ckpt.life
           /\ \A t \in Sessions \ {s} :
                 ckpt.sessions[t].suppressed => ckpt'.sessions[t].suppressed
  <1> DEFINE claimed == [attempts |-> ckpt.sessions[s].attempts + 1, suppressed |-> FALSE]
  <1>1. ckpt \in Checkpoint
    BY CheckpointIsRecord
  <1>2. ckpt' = [ckpt EXCEPT !.sessions = [ckpt.sessions EXCEPT ![s] = claimed]]
    BY <1>1 DEF ClaimAutoResume, ActiveRun, Checkpoint
  <1>3. ckpt'.life = ckpt.life /\ ckpt'.sessions = [ckpt.sessions EXCEPT ![s] = claimed]
    BY <1>1, <1>2 DEF Checkpoint
  <1> HIDE DEF claimed
  <1> QED
    BY <1>1, <1>3, ClaimAutoResumeCounts DEF Checkpoint

(* The session ends: its run is gone or left in finalizing, or what is      *)
(* suppressed and what may still be heeded are kept.                        *)
LEMMA SparingEnds ==
    ASSUME TypeInv, Sparing, EndSession, UNCHANGED <<asked, used, late>>,
           \/ ~HasRun' \/ Finalizing'
           \/ /\ Heeds /\ (mailbox' = mailbox \/ MailMayGo)
              /\ BeforeRecovery => ckpt' = ckpt
    PROVE  Remembered' /\ AutoWaits' /\ Spared'
  <1> USE DEF EndSession
  <1>1. Remembered'
    <2> SUFFICES ASSUME NEW r \in Runs, NEW s \in Sessions, <<r, s>> \in asked,
                        ActiveRun' = r, ~Finalizing'
                 PROVE  PauseRemembered(r, s)'
      BY DEF Remembered, PauseRemembered, Sparing, BeforeRecovery
    <2>1. PauseRemembered(r, s)
      BY DEF Sparing, Remembered
    <2>2. /\ Heeds /\ (mailbox' = mailbox \/ MailMayGo)
          /\ HasRun /\ ActiveRun = r /\ ~BeforeRecovery
      BY StoreAssumption DEF ActiveRun, Heeds, BeforeRecovery, Finalizing, HasRun
    <2>3. Heeded(r, s)'
      BY <2>1, <2>2 DEF PauseRemembered, Heeded, Heeds, MailMayGo, PauseWaits, MailFor
    <2> QED
      BY <2>1, <2>3 DEF PauseRemembered
  <1>2. AutoWaits'
    BY DEF AutoWaits
  <1>3. Spared'
    BY DEF Sparing, Spared, At, AtMostOneLateStart, Ahead
  <1> QED
    BY <1>1, <1>2, <1>3

(* The process goes on past the execution, or gives up beginning.           *)
LEMMA SparingOn ==
    ASSUME TypeInv, TypeInv', Sparing, pc \notin {"idle", "claim", "recover", "plan"},
           pc' \in {"x_meta", "x_ckpt", "x_life", "k_meta", "k_ckpt", "commit"},
           pc' = "commit" => Finalizing',
           UNCHANGED <<kind, asked, used, late, mailbox>>,
           \A r \in Runs : ActiveRun' = r => Heeds \/ \A s \in Sessions : <<r, s>> \notin asked
    PROVE  Remembered' /\ AutoWaits' /\ Spared'
  <1>1. Remembered'
    <2> SUFFICES ASSUME NEW r \in Runs, NEW s \in Sessions, <<r, s>> \in asked
                 PROVE  PauseRemembered(r, s)'
      BY DEF Remembered
    <2>1. PauseRemembered(r, s)
      BY DEF Sparing, Remembered
    <2>2. ASSUME ActiveRun' = r PROVE Heeded(r, s)'
      <3>1. Heeds /\ HasRun /\ ActiveRun = r /\ ~BeforeRecovery
        BY <2>2, StoreAssumption DEF ActiveRun, Heeds, BeforeRecovery
      <3> QED
        BY <2>1, <3>1 DEF PauseRemembered, Heeded, Heeds, MailMayGo, PauseWaits, MailFor
    <2> QED
      BY <2>1, <2>2 DEF PauseRemembered
  <1>2. AutoWaits'
    BY DEF AutoWaits, Ahead
  <1>3. ~At({"starting"})'
    BY DEF At, TypeInv, PlacesTypeOK
  <1>4. Spared'
    BY <1>3 DEF Sparing, Spared, AtMostOneLateStart, Ahead
  <1> QED
    BY <1>1, <1>2, <1>4

LEMMA SparingFinish ==
    ASSUME TypeInv, TypeInv', Own, Sparing,
           \/ WrapUp \/ SaveCompletedMetadata \/ RetainCheckpoint \/ FinishFails
           \/ CommitSnapshot \/ FailMetadata \/ FailCheckpoint \/ FailLifecycle
           \/ FailureHandlingFails \/ Crash
    PROVE  Remembered' /\ AutoWaits' /\ Spared'
  <1> USE DEF fileVars, storeVars, planVars, observed, Goto
  <1>t. TypeOK /\ StoreTypeOK
    BY DEF TypeInv, TypeOK
  <1>h. ckpt' = ckpt => Heeds
    BY HeedsIfKept
  <1>r. ASSUME pc = "k_ckpt", ReplaceCheckpoint(run, RetainedLifecycle, CompletedMetadata, done)
        PROVE  /\ Heeds /\ mailbox' = mailbox
               /\ RetainedLifecycle # "failed" => Finalizing'
    <2>1. Rewritten(run, RetainedLifecycle, CompletedMetadata, done)
      BY <1>r, <1>t, MetadataTypes, ReplaceRewrites DEF TypeInv, PlacesTypeOK, Planned, TypeOK
    <2>2. ActiveRun = run
      BY <1>r DEF Own, Owned
    <2> QED
      BY <1>r, <2>1, <2>2, RewritesHeed DEF Rewritten, ReplaceCheckpoint, Finalizing,
         RetainedLifecycle
  <1>1. CASE WrapUp
    <2>1. pc = "exec" /\ ckpt' = ckpt /\ mailbox' = mailbox /\ UNCHANGED <<asked, used, late>>
      BY <1>1 DEF WrapUp, Drained
    <2>2. CASE EndSession
      BY <1>h, <2>1, <2>2, SparingEnds
    <2>3. CASE pc' \in {"x_meta", "k_meta"} /\ kind' = kind
      BY <1>h, <2>1, <2>3, SparingOn
    <2> QED
      BY <1>1, <2>2, <2>3 DEF WrapUp
  <1>2. CASE SaveCompletedMetadata \/ FailMetadata
    BY <1>2, <1>h, SparingOn DEF SaveCompletedMetadata, FailMetadata
  <1>3. CASE RetainCheckpoint
    <2>1. pc = "k_ckpt" /\ Heeds /\ mailbox' = mailbox /\ UNCHANGED <<asked, used, late>>
      BY <1>3, <1>r DEF RetainCheckpoint
    <2>2. CASE EndSession
      BY <2>1, <2>2, SparingEnds DEF BeforeRecovery
    <2>3. CASE RetainedLifecycle # "failed" /\ pc' = "commit" /\ kind' = kind
      BY <1>3, <1>r, <2>1, <2>3, SparingOn DEF RetainCheckpoint
    <2> QED
      BY <1>3, <2>2, <2>3 DEF RetainCheckpoint
  <1>4. CASE FinishFails
    <2>1. Heeds /\ mailbox' = mailbox
      BY <1>4, <1>r, <1>h DEF FinishFails
    <2> QED
      BY <1>4, <2>1, SparingOn DEF FinishFails
  <1>5. CASE CommitSnapshot
    <2>1. EndSession /\ UNCHANGED <<asked, used, late>> /\ pc = "commit" /\ Finalizing
      BY <1>5 DEF CommitSnapshot, Sparing, Remembered
    <2>2. ~HasRun' \/ Finalizing'
      BY <1>5, <2>1
         DEF CommitSnapshot, ClearForRun, Clear, KeptCheckpoint, Finalizing, HasRun, ActiveRun
    <2> QED
      BY <2>1, <2>2, SparingEnds
  <1>6. CASE FailCheckpoint
    <2>1. Heeds /\ mailbox' = mailbox
      BY <1>6, <1>t, MetadataTypes, UpdatesHeed DEF FailCheckpoint
    <2> QED
      BY <1>6, <2>1, SparingOn DEF FailCheckpoint
  <1>7. CASE FailLifecycle
    <2>1. Heeds /\ mailbox' = mailbox
      BY <1>7, <1>t, MetadataTypes, UpdatesHeed DEF FailLifecycle, Lifecycle
    <2> QED
      BY <1>7, <2>1, SparingEnds DEF FailLifecycle, BeforeRecovery
  <1>8. CASE FailureHandlingFails \/ Crash
    BY <1>8, <1>h, SparingEnds DEF FailureHandlingFails, Crash
  <1> QED
    BY <1>1, <1>2, <1>3, <1>4, <1>5, <1>6, <1>7, <1>8

LEMMA SparingBegin ==
    ASSUME TypeInv, TypeInv', Own, Evident, Concluded, Purposeful, Purposeful', Sparing,
           \/ \E k \in Kind \ {"auto"} : Start(k)
           \/ \E s \in Sessions : AutoResumeDecide(s)
           \/ AutoResumeClaim \/ Recover \/ RecoverFails
           \/ \E r \in Runs : PlanFresh(r)
           \/ PlanResume \/ PlanRejected \/ ForcedClear \/ ResetControl
           \/ FirstCheckpoint \/ BeginFails
    PROVE  Remembered' /\ AutoWaits' /\ Spared'
  <1> USE DEF fileVars, storeVars, planVars, execVars, observed, Goto
  <1>t. TypeOK /\ StoreTypeOK
    BY DEF TypeInv, TypeOK
  <1>f. pc' # "exec" => ~At({"starting"})'
    BY DEF At, TypeInv, PlacesTypeOK
  <1>h. ckpt' = ckpt => Heeds
    BY HeedsIfKept
  <1>p. \A r \in Runs, s \in Sessions : <<r, s>> \in asked => PauseRemembered(r, s)
    BY DEF Sparing, Remembered
  <1>a. \A r \in Runs : ActiveRun = r => HasRun
    BY StoreAssumption DEF ActiveRun
  <1>s. ASSUME ckpt' = ckpt
        PROVE  /\ ActiveRun' = ActiveRun /\ (HasRun' <=> HasRun) /\ (Finalizing' <=> Finalizing)
    BY <1>s DEF ActiveRun, HasRun, Finalizing
  <1>1. ASSUME NEW k \in Kind \ {"auto"}, Start(k)
        PROVE  Remembered' /\ AutoWaits' /\ Spared'
    <2>1. /\ pc = "idle" /\ pc' = "recover" /\ kind' = k /\ k # "auto" /\ late' = 0
          /\ action' = action
          /\ UNCHANGED <<ckpt, mailbox, used>>
          /\ IF k = "recover" THEN asked' = asked ELSE asked' = {}
      BY <1>1 DEF Start
    <2>2. Remembered'
      BY <1>p, <1>s, <2>1
         DEF Remembered, PauseRemembered, Kind, BeforeRecovery, Heeded, MailMayGo, PauseWaits,
         MailFor
    <2> QED
      BY <1>f, <2>1, <2>2 DEF AutoWaits, Sparing, Spared, Ahead, AtMostOneLateStart
  <1>2. ASSUME NEW s \in Sessions, AutoResumeDecide(s)
        PROVE  Remembered' /\ AutoWaits' /\ Spared'
    <2>1. /\ pc = "idle" /\ pc' = "claim" /\ kind' = "auto" /\ late' = 0 /\ action' = action
          /\ run' = ckpt.run /\ sess' = s /\ ~ckpt.sessions[s].suppressed /\ HasRun
          /\ UNCHANGED <<ckpt, mailbox, used, asked>>
      BY <1>2 DEF AutoResumeDecide
    <2>2. Remembered'
      BY <1>p, <1>s, <2>1
         DEF Remembered, PauseRemembered, BeforeRecovery, Heeded, MailMayGo, PauseWaits, MailFor
    <2>3. ActiveRun = ckpt.run /\ ckpt.run \in Runs
      BY <1>t, <2>1, CheckpointIsRecord DEF ActiveRun
    <2>4. AutoWaits'
      BY <1>p, <1>s, <2>1, <2>3
         DEF AutoWaits, PauseRemembered, BeforeRecovery, Heeded, PauseWaits, MailFor
    <2> QED
      BY <1>f, <2>1, <2>2, <2>4 DEF Sparing, Spared, Ahead, AtMostOneLateStart
  <1>3. CASE AutoResumeClaim
    <2>1. /\ pc = "claim" /\ kind = "auto" /\ ActiveRun = run /\ HasRun
          /\ run \in Runs /\ sess \in Sessions
      BY <1>3, StoreAssumption
         DEF AutoResumeClaim, Own, Owned, TypeInv, PlacesTypeOK, ActiveRun, Purposeful
    <2>2. /\ pc' = "recover" /\ ClaimAutoResume(run, sess)
          /\ UNCHANGED <<mailbox, kind, run, sess, used, asked, late, action>>
      BY <1>3, <2>1 DEF AutoResumeClaim, ClaimAutoResume
    <2>3. /\ ActiveRun' = ActiveRun /\ HasRun' /\ (Finalizing' <=> Finalizing)
          /\ \A t \in Sessions \ {sess} : ckpt.sessions[t].suppressed => ckpt'.sessions[t].suppressed
      BY <1>t, <2>1, <2>2, ClaimHeedsOthers DEF ActiveRun, Finalizing
    <2>4. Remembered'
      <3> SUFFICES ASSUME NEW r \in Runs, NEW s \in Sessions, <<r, s>> \in asked
                   PROVE  PauseRemembered(r, s)'
        BY <2>2 DEF Remembered
      <3>1. PauseRemembered(r, s)
        BY <1>p
      <3>2. ASSUME ActiveRun = r, ~BeforeRecovery PROVE Heeded(r, s)'
        <4>1. Heeded(r, s)
          BY <3>1, <3>2 DEF PauseRemembered
        <4>2. CASE s = sess
          <5>1. PauseWaits(run, sess)
            BY <2>1, <3>2, <4>2 DEF Sparing, AutoWaits
          <5> QED
            BY <2>1, <2>2, <3>2, <4>2, <5>1 DEF Heeded, MailMayGo, PauseWaits, MailFor
        <4>3. CASE s # sess
          BY <2>1, <2>2, <2>3, <4>1, <4>3 DEF Heeded, MailMayGo, PauseWaits, MailFor
        <4> QED
          BY <4>2, <4>3
      <3> QED
        BY <2>1, <2>2, <2>3, <3>1, <3>2 DEF PauseRemembered, BeforeRecovery
    <2>5. AutoWaits'
      BY <2>1, <2>2, <2>3 DEF Sparing, AutoWaits, BeforeRecovery, Ahead, MailFor
    <2> QED
      BY <1>f, <2>1, <2>2, <2>4, <2>5 DEF Sparing, Spared, Ahead, AtMostOneLateStart
  <1>4. CASE Recover
    <2>1. pc = "recover" /\ UNCHANGED <<meta, used, asked, late>>
      BY <1>4 DEF Recover
    <2>2. CASE Finalizing /\ Evidence
      <3>1. ~HasRun' /\ ActiveRun' = NoRun
        BY <1>4, <2>2 DEF Recover, Finalizing, ClearForRun, Clear, ActiveRun, HasRun
      <3>2. CASE EndSession
        BY <2>1, <3>1, <3>2, SparingEnds
      <3>3. CASE pc' = "plan" /\ UNCHANGED <<kind, run, sess, action>>
        <4>1. ActiveRun = ckpt.run /\ Ended(ckpt.run)
          BY <2>2 DEF Concluded, Finalizing, ActiveRun
        <4>2. Remembered'
          BY <1>p, <2>1, <2>2, <3>1, <3>3, <4>1, StoreAssumption
             DEF Remembered, PauseRemembered, Ended, Finalizing
        <4>3. AutoWaits'
          BY <1>t, <2>1, <3>1, <3>3, StoreAssumption DEF AutoWaits, TypeOK
        <4> QED
          BY <1>f, <2>1, <3>3, <4>2, <4>3 DEF Sparing, Spared, Ahead, AtMostOneLateStart
      <3> QED
        BY <1>4, <3>2, <3>3 DEF Recover
    <2>3. CASE ~(Finalizing /\ Evidence)
      <3>1. UNCHANGED <<ckpt, mailbox>> /\ ~Finalizing
        BY <1>4, <2>3 DEF Recover, Evident, FinalizingHasEvidence
      <3>2. CASE EndSession
        BY <1>h, <2>1, <3>1, <3>2, SparingEnds
      <3>3. CASE pc' = "plan" /\ UNCHANGED <<kind, run, sess, action>>
        <4>1. Remembered'
          BY <1>p, <1>s, <2>1, <3>1, <3>3
             DEF Remembered, PauseRemembered, BeforeRecovery, Heeded, MailMayGo, PauseWaits,
             MailFor, Ended
        <4>2. AutoWaits'
          BY <1>s, <2>1, <3>1, <3>3 DEF Sparing, AutoWaits, BeforeRecovery, Ahead, MailFor
        <4> QED
          BY <1>f, <2>1, <3>3, <4>1, <4>2 DEF Sparing, Spared, Ahead, AtMostOneLateStart
      <3> QED
        BY <1>4, <3>2, <3>3 DEF Recover
    <2> QED
      BY <2>2, <2>3
  <1>5. CASE RecoverFails
    <2>1. Finalizing'
      BY <1>5, <1>s DEF RecoverFails, KeptCheckpoint
    <2> QED
      BY <1>5, <2>1, SparingEnds DEF RecoverFails
  <1>6. ASSUME NEW n \in Runs, PlanFresh(n)
        PROVE  Remembered' /\ AutoWaits' /\ Spared'
    <2>1. /\ pc = "plan" /\ kind \in {"scan", "force"} /\ n \notin used
          /\ run' = n /\ used' = used \cup {n} /\ pc' \in {"clear", "reset"}
          /\ UNCHANGED <<ckpt, mailbox, kind, action, asked, late>>
      BY <1>6 DEF PlanFresh
    <2>2. ActiveRun' # run'
      BY <1>s, <2>1, StoreAssumption DEF Own, Known, ActiveRun
    <2>3. Remembered'
      BY <1>p, <1>s, <2>1, <2>2
         DEF Remembered, PauseRemembered, BeforeRecovery, Heeded, MailMayGo, PauseWaits, MailFor
    <2> QED
      BY <1>f, <2>1, <2>3 DEF AutoWaits, Sparing, Spared, Ahead, AtMostOneLateStart
  <1>7. CASE PlanResume
    <2>1. /\ pc = "plan" /\ kind # "force" /\ Resumable /\ run' = ResumeRun /\ pc' = "reset"
          /\ kind = "auto" => run' = run
          /\ UNCHANGED <<ckpt, mailbox, meta, kind, sess, action, asked, late, used>>
      BY <1>7 DEF PlanResume
    <2>2. kind \in {"auto", "scan"}
      BY <1>t, <2>1 DEF Purposeful, Kind, TypeOK
    <2>3. ASSUME NEW r \in Runs, NEW s \in Sessions, <<r, s>> \in asked, run' = r
          PROVE  ActiveRun = r
      <3>1. CASE kind = "auto"
        BY <1>s, <2>1, <2>3, <3>1 DEF Purposeful
      <3>2. CASE kind = "scan"
        BY <1>p, <2>1, <2>3, <3>2 DEF PauseRemembered, ResumeRun, Resumable, Inferred, ActiveRun
      <3> QED
        BY <2>2, <3>1, <3>2
    <2>4. Remembered'
      BY <1>p, <1>s, <2>1, <2>3
         DEF Remembered, PauseRemembered, BeforeRecovery, Heeded, MailMayGo, PauseWaits, MailFor
    <2>5. AutoWaits'
      BY <1>s, <2>1 DEF Sparing, AutoWaits, BeforeRecovery, Ahead, MailFor
    <2> QED
      BY <1>f, <2>1, <2>4, <2>5 DEF Sparing, Spared, Ahead, AtMostOneLateStart
  <1>8. CASE PlanRejected
    BY <1>8, <1>h, SparingEnds DEF PlanRejected, BeforeRecovery
  <1>9. CASE ForcedClear
    <2>1. pc = "clear" /\ kind = "force" /\ UNCHANGED <<asked, used, late>>
      BY <1>9 DEF ForcedClear, Purposeful
    <2>2. CASE Clear /\ pc' = "reset" /\ UNCHANGED <<kind, run, sess, action>>
      <3>1. ~HasRun' /\ ActiveRun' = NoRun
        BY <2>2 DEF Clear, HasRun, ActiveRun
      <3>2. Remembered'
        BY <1>p, <2>1, <2>2, <3>1, StoreAssumption DEF Remembered, PauseRemembered
      <3> QED
        BY <1>f, <2>1, <2>2, <3>2 DEF AutoWaits, Sparing, Spared, Ahead, AtMostOneLateStart
    <2>3. CASE KeptCheckpoint /\ EndSession
      BY <1>h, <2>1, <2>3, SparingEnds DEF KeptCheckpoint, MailMayGo, BeforeRecovery
    <2> QED
      BY <1>9, <2>2, <2>3 DEF ForcedClear
  <1>10. CASE ResetControl
    <2>1. /\ pc = "reset" /\ pc' = "persist" /\ action' = "none" /\ ckpt' = ckpt
          /\ mailbox' = mailbox \/ ~MailFor(run)
          /\ UNCHANGED <<kind, run, sess, asked, late, used>>
      BY <1>10 DEF ResetControl, ClearControlForRun
    <2>2. kind \in {"scan", "force"} \/ (kind = "auto" /\ ActiveRun = run)
      BY <1>t, <2>1 DEF Purposeful, Kind, TypeOK
    <2>3. Remembered'
      BY <1>p, <1>s, <2>1, <2>2
         DEF Remembered, PauseRemembered, BeforeRecovery, Heeded, MailMayGo, PauseWaits, MailFor
    <2>4. AutoWaits'
      BY <1>s, <2>1 DEF Sparing, AutoWaits, BeforeRecovery, Ahead, MailFor
    <2> QED
      BY <1>f, <2>1, <2>3, <2>4 DEF Sparing, Spared, Ahead, AtMostOneLateStart
  <1>r. ASSUME pc \in {"reset", "persist"}, ReplaceCheckpoint(run, life, base, done)
        PROVE  /\ HasRun' /\ ActiveRun' = run /\ mailbox' = mailbox
               /\ ActiveRun = run => Heeds
    <2>1. Rewritten(run, life, base, done)
      BY <1>r, <1>t, ReplaceRewrites DEF TypeInv, PlacesTypeOK, TypeOK, Planned
    <2> QED
      BY <1>r, <2>1, RewritesHeed DEF Rewritten, ActiveRun, ReplaceCheckpoint
  <1>11. CASE FirstCheckpoint
    <2>1. /\ pc = "persist" /\ pc' = "exec" /\ ReplaceCheckpoint(run, life, base, done)
          /\ UNCHANGED <<kind, run, sess, action, asked, late, used, wpc>>
          /\ action = "none" /\ late = 0
      BY <1>11 DEF FirstCheckpoint, workerVars, Sparing, Spared, Ahead
    <2>2. /\ HasRun' /\ ActiveRun' = run /\ mailbox' = mailbox
          /\ ActiveRun = run => Heeds
      BY <1>r, <2>1
    <2>3. Remembered'
      BY <1>a, <1>p, <2>1, <2>2
         DEF Remembered, PauseRemembered, BeforeRecovery, Heeded, Heeds, MailMayGo, PauseWaits,
         MailFor
    <2>4. kind = "auto" => ActiveRun = run
      BY <2>1 DEF Purposeful
    <2>5. AutoWaits'
      BY <2>1, <2>2, <2>4 DEF Sparing, AutoWaits, BeforeRecovery, Ahead, MailFor
    <2> QED
      BY <2>1, <2>3, <2>5 DEF Spared, Ahead, AtMostOneLateStart
  <1>12. CASE BeginFails
    <2>1. /\ pc \in {"reset", "persist"} /\ pc' = "x_meta" /\ UNCHANGED <<kind, asked, used, late>>
      BY <1>12 DEF BeginFails
    <2>2. CASE UNCHANGED storeVars
      BY <1>h, <2>1, <2>2, SparingOn
    <2>3. CASE ReplaceCheckpoint(run, life, base, done)
      <3>1. /\ ActiveRun' = run /\ mailbox' = mailbox
            /\ ActiveRun = run => Heeds
        BY <1>r, <2>1, <2>3
      <3>2. \A r \in Runs : ActiveRun' = r => Heeds \/ \A s \in Sessions : <<r, s>> \notin asked
        BY <1>p, <2>1, <3>1 DEF PauseRemembered
      <3> QED
        BY <2>1, <3>1, <3>2, SparingOn
    <2> QED
      BY <1>12, <2>2, <2>3 DEF BeginFails
  <1> QED
    BY <1>1, <1>2, <1>3, <1>4, <1>5, <1>6, <1>7, <1>8, <1>9, <1>10, <1>11, <1>12

(* The mailbox holds a pause of a session that the checkpoint does not show *)
(* as suppressed, or that is about to be freed of its suppression by the    *)
(* automatic resumption it has just claimed.                                *)
Exposed ==
    /\ HasRun /\ MailFor(ckpt.run) /\ mailbox.session # NoSession
    /\ \/ ~ckpt.sessions[mailbox.session].suppressed
       \/ pc = "claim" /\ sess = mailbox.session

(* A request that displaces no such pause. *)
LEMMA SparingRequest ==
    ASSUME TypeInv, Own, Sparing, ~Exposed,
           (\E s \in Requesters : RequestControl("pause", s)) \/ RequestControl("stop", NoSession)
    PROVE  Remembered' /\ AutoWaits' /\ Spared'
  <1> USE DEF procVars, planVars, workerVars
  <1>1. PICK a \in Control, q \in Sessions \cup {NoSession} : RequestControl(a, q)
    BY SessionAssumption DEF Control
  <1> DEFINE new == <<ckpt.run, q>>
  <1>2. /\ HasRun /\ Heeds
        /\ UNCHANGED mailbox \/ MailFor(ckpt.run)'
        /\ MailFor(ckpt.run) => mailbox' # NoMail /\ mailbox'.run = ckpt.run
        /\ Effective(a) = "pause" /\ q # NoSession =>
              /\ ckpt'.sessions[q].suppressed
              /\ mailbox' # NoMail /\ mailbox'.run = ckpt.run
              /\ mailbox'.action = "pause" /\ mailbox'.session = q
    BY <1>1, RequestHeeds DEF RequestControl, TypeInv, TypeOK
  <1>3. \/ asked' = asked
        \/ Effective(a) = "pause" /\ q # NoSession /\ asked' = asked \cup {new}
    BY <1>1 DEF RequestControl
  <1>4. /\ UNCHANGED <<meta, pc, kind, run, sess, action, wpc, used, late>>
        /\ HasRun' /\ ckpt'.life = ckpt.life /\ ActiveRun' = ActiveRun /\ ActiveRun = ckpt.run
    BY <1>2, RequestSame DEF SameCheckpoint, SameRun, Heeds, ActiveRun
  <1>5. Remembered'
    <2>1. ASSUME NEW r \in Runs, NEW s \in Sessions, <<r, s>> \in asked
          PROVE  PauseRemembered(r, s)'
      <3>1. PauseRemembered(r, s)
        BY <2>1 DEF Sparing, Remembered
      <3>2. ASSUME ActiveRun = r, Heeded(r, s) PROVE Heeded(r, s)'
        <4>1. ckpt.sessions[s].suppressed
          BY <1>2, <1>4, <3>2, StoreAssumption DEF Heeded, PauseWaits, Exposed
        <4> QED
          BY <1>2, <4>1 DEF Heeds, Heeded
      <3> QED
        BY <1>2, <1>4, <3>1, <3>2 DEF PauseRemembered, BeforeRecovery, Finalizing, Ended
    <2>2. ASSUME Effective(a) = "pause", q # NoSession,
                 NEW r \in Runs, NEW s \in Sessions, <<r, s>> = new
          PROVE  PauseRemembered(r, s)'
      BY <1>2, <1>4, <2>2 DEF PauseRemembered, Heeded, Sparing, Remembered, Own, Known
    <2> QED
      BY <1>2, <1>3, <1>4, <2>1, <2>2 DEF Remembered, Sparing, Finalizing
  <1>6. ActiveRun = run /\ MailFor(run) => MailFor(run)'
    BY <1>2, <1>4 DEF MailFor
  <1>7. AutoWaits'
    <2> SUFFICES ASSUME kind = "auto", <<run, sess>> \in asked', ActiveRun = run, ~BeforeRecovery
                 PROVE  /\ pc = "claim" => PauseWaits(run, sess)'
                        /\ pc \in Ahead \/ (pc = "exec" /\ action = "none") => MailFor(run)'
      BY <1>2, <1>4 DEF AutoWaits, BeforeRecovery, Finalizing
    <2>1. CASE <<run, sess>> \in asked
      BY <1>2, <1>4, <1>6, <2>1, StoreAssumption
         DEF Sparing, AutoWaits, PauseWaits, Exposed, TypeInv, PlacesTypeOK
    <2>2. CASE Effective(a) = "pause" /\ q # NoSession /\ <<run, sess>> = new
      BY <1>2, <1>4, <2>2 DEF PauseWaits, MailFor
    <2> QED
      BY <1>3, <2>1, <2>2
  <1>8. Spared'
    BY <1>4, <1>6 DEF Sparing, Spared, AtMostOneLateStart, At, Own, Owned
  <1> QED
    BY <1>5, <1>7, <1>8

(* No request is accepted while such a pause waits.                         *)
NoPauseDisplaced == [][Exposed => budget'["request"] = budget["request"]]_vars

LEMMA SparingStep ==
    ASSUME TypeInv, TypeInv', Own, Evident, Undismissed, Concluded, Purposeful, Purposeful',
           Sparing, [Next]_vars, [Exposed => budget'["request"] = budget["request"]]_vars
    PROVE  Sparing'
  <1> SUFFICES Remembered' /\ AutoWaits' /\ Spared'
    BY ExclusiveStep DEF Sparing
  <1>1. CASE UNCHANGED vars
    <2> USE DEF vars, fileVars, storeVars, procVars, planVars, workerVars, observed
    <2>1. /\ ActiveRun' = ActiveRun /\ (HasRun' <=> HasRun) /\ (Finalizing' <=> Finalizing)
          /\ UNCHANGED <<ckpt, mailbox, meta, pc, kind, run, sess, action, wpc, used, asked, late>>
      BY <1>1 DEF ActiveRun, HasRun, Finalizing
    <2> QED
      BY <2>1 DEF Sparing, Remembered, PauseRemembered, AutoWaits, Spared, AtMostOneLateStart, At,
                  BeforeRecovery, Heeded, MailMayGo, PauseWaits, MailFor, Ended
  <1>2. CASE \/ \E s \in Requesters : RequestControl("pause", s)
             \/ RequestControl("stop", NoSession)
    <2>1. Spend("request")
      BY <1>2 DEF RequestControl
    <2>2. budget'["request"] # budget["request"]
      BY <2>1 DEF Spend, TypeInv, TypeOK, Limits
    <2>3. ~Exposed
      BY <2>2 DEF vars
    <2> QED
      BY <1>2, <2>3, SparingRequest
  <1>3. CASE (\E k \in Kind \ {"auto"} : Start(k)) \/ (\E s \in Sessions : AutoResumeDecide(s))
    BY <1>3, SparingBegin
  <1>4. CASE ScanProcess
    BY <1>4, SparingBegin, SparingFinish DEF ScanProcess
  <1>5. ASSUME NEW w \in Workers,
               Worker(w) \/ JobRaises(w) \/ EntryFails(w) \/ LockedSectionFails(w)
        PROVE  Remembered' /\ AutoWaits' /\ Spared'
    BY <1>5, SparingWork
  <1>6. CASE Dismiss
    BY <1>6, NoDismissalStarts
  <1>7. CASE Fault
    BY <1>5, <1>7, SparingBegin, SparingFinish DEF Fault
  <1> QED
    BY <1>1, <1>2, <1>3, <1>4, <1>5, <1>6, <1>7 DEF Next, Command

(* Once a pause or stop is accepted, at most the one job that had already   *)
(* passed its poll still starts, and an automatic resumption by the session *)
(* that paused the run starts no more, as long as no further request takes  *)
(* the place of a pause that the checkpoint does not show.                  *)
THEOREM FewJobsStartLate ==
    NoDismissal => (Spec /\ NoPauseDisplaced => []AtMostOneLateStart)
  <1> SUFFICES ASSUME NoDismissal PROVE Spec /\ NoPauseDisplaced => []AtMostOneLateStart
    OBVIOUS
  <1>1. Init => Concluded /\ Purposeful /\ Sparing
    BY InitBounds, InitSparing
  <1>2. /\ TypeInv /\ TypeInv' /\ Evident /\ Undismissed /\ Own /\ [Next]_vars
        /\ Concluded /\ Purposeful /\ Sparing
        /\ [Exposed => budget'["request"] = budget["request"]]_vars
        => (Concluded /\ Purposeful /\ Sparing)'
    <2> SUFFICES ASSUME TypeInv, TypeInv', Evident, Undismissed, Own, [Next]_vars,
                        Concluded, Purposeful, Sparing,
                        [Exposed => budget'["request"] = budget["request"]]_vars
                 PROVE  (Concluded /\ Purposeful /\ Sparing)'
      OBVIOUS
    <2>1. Concluded' /\ Purposeful'
      BY ConcludedStep, PurposefulStep
    <2> QED
      BY <2>1, SparingStep
  <1>3. Sparing => AtMostOneLateStart
    BY DEF Sparing, Spared
  <1> QED
    BY UndismissedSession, <1>1, <1>2, <1>3, PTL DEF Spec, NoPauseDisplaced

(* When the last request is in the mailbox, no other can displace it.       *)
LastRequest ==
    /\ budget["request"] <= 1
    /\ mailbox # NoMail => budget["request"] = 0

(* Only a request fills the mailbox, and it spends from its budget.         *)
LEMMA RequestsSpend ==
    ASSUME TypeInv, [Next]_vars
    PROVE  \/ budget'["request"] = budget["request"] /\ mailbox' \in {mailbox, NoMail}
           \/ budget["request"] > 0 /\ budget'["request"] = budget["request"] - 1
  <1> DEFINE Silent == budget'["request"] = budget["request"] /\ mailbox' \in {mailbox, NoMail}
  <1> USE DEF fileVars, storeVars
  <1>b. \A l \in Limits \ {"request"} : Spend(l) => budget'["request"] = budget["request"]
    BY DEF Spend, TypeInv, TypeOK, Limits
  <1>s. /\ Spend("start") => budget'["request"] = budget["request"]
        /\ Spend("dismiss") => budget'["request"] = budget["request"]
        /\ Spend("fault") => budget'["request"] = budget["request"]
        /\ Spend("crash") => budget'["request"] = budget["request"]
    BY <1>b DEF Limits
  <1>1. CASE UNCHANGED vars
    BY <1>1 DEF vars
  <1>2. CASE \/ \E s \in Requesters : RequestControl("pause", s)
             \/ RequestControl("stop", NoSession)
    BY <1>2 DEF RequestControl, Spend, TypeInv, TypeOK, Limits
  <1>3. CASE (\E k \in Kind \ {"auto"} : Start(k)) \/ (\E s \in Sessions : AutoResumeDecide(s))
    BY <1>3, <1>s DEF Start, AutoResumeDecide
  <1>4. CASE ScanProcess
    BY <1>4, <1>s
       DEF ScanProcess, AutoResumeClaim, ClaimAutoResume, Recover, ClearForRun, Clear, PlanFresh,
           PlanResume, PlanRejected, ForcedClear, KeptCheckpoint, ResetControl,
           ClearControlForRun, FirstCheckpoint, ReplaceCheckpoint, WrapUp, SaveCompletedMetadata,
           RetainCheckpoint, CommitSnapshot, FailMetadata, FailCheckpoint, UpdateRunMetadata,
           FailLifecycle, UpdateRuntimeState
  <1>5. ASSUME NEW w \in Workers, Worker(w) PROVE Silent
    BY <1>5
       DEF Worker, TakeJob, NotStarted, PersistRun, ReplaceCheckpoint, TryStart, PollControl,
           ClaimControl, StartJob, JobReturns, FailJob, FinishJob, AppendRow, Commit,
           ControlMetadata, PauseCheckpoint, UpdateRunMetadata, PauseLifecycle,
           UpdateRuntimeState, StopClear, ClearForRun, Clear
  <1>6. CASE Dismiss
    BY <1>6, <1>s
       DEF Dismiss, DismissCheckLock, DismissLoad, DismissMetadata, DismissClear, ClearForRun, Clear
  <1>7. CASE Fault
    BY <1>7, <1>s
       DEF Fault, RecoverFails, KeptCheckpoint, BeginFails, ReplaceCheckpoint, JobRaises,
           EntryFails, ClaimControlFails, LockedSectionFails, PersistRun, FinishFails,
           FailureHandlingFails, Crash
  <1> QED
    BY <1>1, <1>2, <1>3, <1>4, <1>5, <1>6, <1>7 DEF Next, Command

(* If no more than one request is made in all, none meets a pause that      *)
(* waits: at most one job starts late.                                      *)
THEOREM OneRequestStartsFewLate ==
    NoDismissal /\ Budget["request"] <= 1 => (Spec => []AtMostOneLateStart)
  <1> SUFFICES ASSUME NoDismissal, Budget["request"] <= 1 PROVE Spec => []AtMostOneLateStart
    OBVIOUS
  <1>1. Init => LastRequest
    BY DEF Init, StoreInit, LastRequest
  <1>2. TypeInv /\ [Next]_vars /\ LastRequest => LastRequest'
    <2> SUFFICES ASSUME TypeInv, [Next]_vars, LastRequest PROVE LastRequest'
      OBVIOUS
    <2>1. budget["request"] \in Nat
      BY DEF TypeInv, TypeOK, Limits
    <2> QED
      BY <2>1, RequestsSpend DEF LastRequest
  <1>3. TypeInv /\ [Next]_vars /\ LastRequest
          => [Exposed => budget'["request"] = budget["request"]]_vars
    <2> SUFFICES ASSUME TypeInv, [Next]_vars, LastRequest, Exposed
                 PROVE  budget'["request"] = budget["request"]
      OBVIOUS
    <2> QED
      BY RequestsSpend DEF LastRequest, Exposed, MailFor
  <1>4. Spec => []LastRequest
    BY UndismissedSession, <1>1, <1>2, PTL DEF Spec
  <1>5. Spec => NoPauseDisplaced
    BY UndismissedSession, <1>3, <1>4, PTL DEF Spec, NoPauseDisplaced
  <1> QED
    BY <1>5, FewJobsStartLate

-----------------------------------------------------------------------------
(* Runs that are closed, and stops.                                         *)

(* A step of RunPromise keeps what is closed, and commits nothing to it.    *)
LEMMA PromiseStepKeepsClosed ==
    ASSUME PromiseStep, NEW r \in Runs, Closed(r)
    PROVE  Closed(r)' /\ Committed(r)' = Committed(r)
  <1> DEFINE st == [q \in Runs |-> IF Closed(q) THEN "closed" ELSE IF q \in used THEN "open" ELSE "new"]
  <1>1. st[r] = "closed"
    OBVIOUS
  <1>2. \/ UNCHANGED <<st, [q \in Runs |-> Committed(q)]>>
        \/ \E q \in Runs : \/ Promise!Open(q) \/ Promise!Close(q)
                           \/ \E s \in Steps : Promise!Commit(q, s)
    BY DEF PromiseStep, Promise!Next, Promise!vars
  <1> QED
    BY <1>2 DEF Promise!Open, Promise!Close, Promise!Commit

(* While nobody dismisses a run, one that has ended and is no longer the    *)
(* active run is never resumed: no start, recovery, inference from the      *)
(* history or late write of a worker brings it back.                        *)
THEOREM ClosedRunsStayClosed == NoDismissal => (Spec => ClosedRunStaysClosed)
  <1> SUFFICES ASSUME NoDismissal PROVE Spec => ClosedRunStaysClosed
    OBVIOUS
  <1>1. TypeInv /\ Undismissed /\ Own /\ [Next]_vars
          => [\A r \in Runs : Closed(r) => Closed(r)']_vars
    BY PromiseIsKept, PromiseStepKeepsClosed
  <1> QED
    BY UndismissedSession, <1>1, PTL DEF Spec, ClosedRunStaysClosed

(* Nor is any result committed to such a run any more, by whichever process *)
(* or thread: what was committed when it closed is what stays.              *)
ClosedRunIsFinal ==
    [][\A r \in Runs : Closed(r) => Committed(r)' = Committed(r)]_vars

THEOREM ClosedRunsAreFinal == NoDismissal => (Spec => ClosedRunIsFinal)
  <1> SUFFICES ASSUME NoDismissal PROVE Spec => ClosedRunIsFinal
    OBVIOUS
  <1>1. TypeInv /\ Undismissed /\ Own /\ [Next]_vars
          => [\A r \in Runs : Closed(r) => Committed(r)' = Committed(r)]_vars
    BY PromiseIsKept, PromiseStepKeepsClosed
  <1> QED
    BY UndismissedSession, <1>1, PTL DEF Spec, ClosedRunIsFinal

-----------------------------------------------------------------------------
(* A stop is obeyed as long as no process crashes and no write fails.       *)

NoFailure == Budget["fault"] = 0 /\ Budget["crash"] = 0

Unfailed ==
    /\ budget["fault"] = 0 /\ budget["crash"] = 0
    /\ troubles = {}
    /\ \A w \in Workers : wpc[w] # "failing"

StopMarked == HasRun /\ ckpt.stop

(* A claimed stop is in the checkpoint only while its process carries it out. *)
StopCarriedOut == StopMarked => pc = "exec" /\ action = "stop"

NoNewStop == StopMarked' => StopMarked

LEMMA SuppressedMarks ==
    ASSUME StoreTypeOK, HasRun, NEW s \in Sessions, ckpt' = Suppressed(ckpt, s)
    PROVE  NoNewStop
  <1>1. ckpt \in Checkpoint
    BY CheckpointIsRecord
  <1>2. ckpt'.stop = ckpt.stop
    BY <1>1 DEF Suppressed, Checkpoint
  <1> QED
    BY <1>2 DEF NoNewStop, StopMarked

LEMMA RequestMarks ==
    ASSUME StoreTypeOK, NEW a \in Control, NEW s \in Sessions \cup {NoSession},
           RequestControlForActiveRun(a, s)
    PROVE  NoNewStop
  <1>1. CASE ckpt' = ckpt
    BY <1>1 DEF NoNewStop, StopMarked, HasRun
  <1>2. CASE s \in Sessions /\ ckpt' = Suppressed(ckpt, s)
    BY <1>2, SuppressedMarks DEF RequestControlForActiveRun
  <1> QED
    BY <1>1, <1>2 DEF RequestControlForActiveRun, storeVars

(* Only a poll that claims a stop marks one. *)
LEMMA ClaimMarks ==
    ASSUME StoreTypeOK, NEW r \in Runs, ClaimControl(r)
    PROVE  NoNewStop \/ Claimed(r) = "stop"
  <1> SUFFICES ASSUME Claimed(r) # "stop" PROVE NoNewStop
    OBVIOUS
  <1>1. CASE ckpt' = ckpt
    BY <1>1 DEF NoNewStop, StopMarked, HasRun
  <1>2. CASE HasRun /\ mailbox # NoMail /\ mailbox.session # NoSession
             /\ ckpt' = Suppressed(ckpt, mailbox.session)
    <2>1. mailbox.session \in Sessions
      BY <1>2 DEF StoreTypeOK, Mail
    <2> QED
      BY <1>2, <2>1, SuppressedMarks
  <1> QED
    BY <1>1, <1>2 DEF ClaimControl, MarkedByClaim, Claimed

LEMMA UpdateMarks ==
    ASSUME StoreTypeOK, NEW m, NEW l, UpdateRunMetadata(m) \/ UpdateRuntimeState(l)
    PROVE  NoNewStop
  <1>1. CASE HasRun
    <2>1. ckpt \in Checkpoint
      BY <1>1, CheckpointIsRecord
    <2> QED
      BY <1>1, <2>1 DEF UpdateRunMetadata, UpdateRuntimeState, NoNewStop, StopMarked, Checkpoint
  <1>2. CASE ~HasRun
    BY <1>2 DEF UpdateRunMetadata, UpdateRuntimeState, NoNewStop, StopMarked, HasRun
  <1> QED
    BY <1>1, <1>2

LEMMA ReplaceMarks ==
    ASSUME NEW r \in Runs, NEW l, NEW m, NEW d, ReplaceCheckpoint(r, l, m, d)
    PROVE  NoNewStop
  BY StoreAssumption DEF ReplaceCheckpoint, NoNewStop, StopMarked, ActiveRun

LEMMA AutoResumeMarks ==
    ASSUME StoreTypeOK, HasRun, NEW s \in Sessions, ClaimAutoResume(ActiveRun, s)
    PROVE  NoNewStop
  <1>1. ckpt \in Checkpoint
    BY CheckpointIsRecord
  <1> QED
    BY <1>1 DEF ClaimAutoResume, ActiveRun, NoNewStop, StopMarked, Checkpoint

LEMMA WorkMarks ==
    ASSUME TypeInv, Own, NEW w \in Workers, Worker(w)
    PROVE  /\ NoNewStop \/ action' = "stop"
           /\ action = "stop" => action' = "stop"
  <1> USE DEF fileVars, storeVars, procVars
  <1>t. StoreTypeOK /\ pc = "exec" /\ run \in Runs
    BY WorkerExecutes DEF TypeInv, TypeOK
  <1>k. ckpt' = ckpt => NoNewStop
    BY DEF NoNewStop, StopMarked, HasRun
  <1>1. CASE TakeJob(w) \/ JobReturns(w) \/ AppendRow(w) \/ ControlMetadata(w)
    BY <1>1, <1>k DEF TakeJob, JobReturns, AppendRow, ControlMetadata
  <1>2. CASE NotStarted(w) \/ StartJob(w) \/ FailJob(w)
    BY <1>2, <1>k, <1>t, ReplaceMarks DEF NotStarted, StartJob, FailJob, PersistRun
  <1>3. CASE TryStart(w) \/ FinishJob(w)
    <2>1. PollControl(w) /\ wpc[w] \in {"taken", "returned"}
      BY <1>3 DEF TryStart, FinishJob
    <2>2. action = "stop" => action' = "stop"
      BY <2>1, PollSame
    <2>3. ClaimControl(run) /\ action' = Polled
      BY <2>1 DEF PollControl
    <2>4. ASSUME Claimed(run) = "stop" PROVE action' = "stop"
      <3>1. ~(ckpt # NoCheckpoint /\ ActiveRun # run)
        BY <2>4 DEF Claimed, ForeignToClaim
      <3>2. action \in {"none", "pause", "stop"}
        BY DEF TypeInv, TypeOK, Control
      <3> QED
        BY <2>3, <2>4, <3>1, <3>2 DEF Polled
    <2> QED
      BY <1>t, <2>2, <2>3, <2>4, ClaimMarks
  <1>4. CASE Commit(w)
    BY <1>4, <1>t, ReplaceMarks DEF Commit
  <1>5. CASE PauseCheckpoint(w) \/ PauseLifecycle(w)
    BY <1>5, <1>t, UpdateMarks DEF PauseCheckpoint, PauseLifecycle
  <1>6. CASE StopClear(w)
    BY <1>6, <1>k DEF StopClear, ClearForRun, Clear, HasRun, NoNewStop, StopMarked
  <1> QED
    BY <1>1, <1>2, <1>3, <1>4, <1>5, <1>6 DEF Worker

LEMMA UnfailedStep == TypeInv /\ Undismissed /\ Unfailed /\ [Next]_vars => Unfailed'
  <1> SUFFICES ASSUME TypeInv, Undismissed, Unfailed, [Next]_vars PROVE Unfailed'
    OBVIOUS
  <1> USE DEF Unfailed, procVars, planVars, execVars, workerVars, EndSession
  <1>b. \A l \in {"start", "request"} : Spend(l) => budget'["fault"] = 0 /\ budget'["crash"] = 0
    BY DEF Spend, TypeInv, TypeOK, Limits
  <1>c. ~Spend("fault") /\ ~Spend("crash")
    BY DEF Spend
  <1>1. CASE UNCHANGED vars
    BY <1>1 DEF vars
  <1>2. CASE Command
    BY <1>2, <1>b DEF Command, Start, AutoResumeDecide, RequestControl
  <1>3. CASE ScanProcess
    BY <1>3, <1>c
       DEF ScanProcess, AutoResumeClaim, Recover, PlanFresh, PlanResume, PlanRejected,
           ForcedClear, ResetControl, FirstCheckpoint, WrapUp, SaveCompletedMetadata,
           RetainCheckpoint, CommitSnapshot, FailMetadata, FailCheckpoint, FailLifecycle
  <1>4. ASSUME NEW w \in Workers, Worker(w) PROVE Unfailed'
    <2>1. CASE TakeJob(w) \/ JobReturns(w)
      BY <2>1 DEF TakeJob, JobReturns, TypeInv, TypeOK
    <2>2. CASE FailJob(w)
      BY <2>2 DEF FailJob
    <2>3. ASSUME NEW p \in WorkerPlace \ {"failing"}, Move(w, p), UNCHANGED <<troubles, budget>>
          PROVE  Unfailed'
      BY <2>3, MoveType
    <2>4. \A a : AfterPoll(w, a) \in WorkerPlace \ {"failing"}
      BY DEF AfterPoll, WorkerPlace, Locked
    <2>5. CASE \/ NotStarted(w) \/ StartJob(w) \/ AppendRow(w) \/ Commit(w) \/ ControlMetadata(w)
               \/ PauseCheckpoint(w)
      BY <2>3, <2>5 DEF NotStarted, StartJob, AppendRow, Commit, ControlMetadata, PauseCheckpoint,
                        WorkerPlace, Locked
    <2>6. CASE TryStart(w) \/ FinishJob(w)
      BY <2>3, <2>4, <2>6 DEF TryStart, FinishJob, PollControl, WorkerPlace, Locked
    <2>7. CASE PauseLifecycle(w) \/ StopClear(w)
      BY <2>3, <2>4, <2>7 DEF PauseLifecycle, StopClear
    <2> QED
      BY <1>4, <2>1, <2>2, <2>5, <2>6, <2>7 DEF Worker
  <1>5. CASE Dismiss
    BY <1>5, NoDismissalStarts
  <1>6. CASE Fault
    BY <1>6, <1>c DEF Fault, RecoverFails, BeginFails, JobRaises, EntryFails, LockedSectionFails,
                      FinishFails, FailureHandlingFails, Crash
  <1> QED
    BY <1>1, <1>2, <1>3, <1>4, <1>5, <1>6 DEF Next

LEMMA StopStep ==
    TypeInv /\ Own /\ Recorded /\ Undismissed /\ Unfailed /\ StopCarriedOut /\ [Next]_vars
      => StopCarriedOut'
  <1> SUFFICES ASSUME TypeInv, Own, Recorded, Undismissed, Unfailed, StopCarriedOut, [Next]_vars
               PROVE  StopCarriedOut'
    OBVIOUS
  <1> USE DEF fileVars, storeVars, procVars, planVars, Goto
  <1>t. TypeOK /\ StoreTypeOK
    BY DEF TypeInv, TypeOK
  <1>k. ckpt' = ckpt => NoNewStop
    BY DEF NoNewStop, StopMarked, HasRun
  <1>c. ~Spend("fault") /\ ~Spend("crash")
    BY DEF Spend, Unfailed
  <1>1. CASE UNCHANGED vars
    BY <1>1, <1>k DEF vars, StopCarriedOut, NoNewStop
  <1>2. ASSUME NEW a \in Control, NEW s \in Sessions \cup {NoSession}, RequestControl(a, s)
        PROVE  StopCarriedOut'
    BY <1>2, <1>t, RequestMarks DEF RequestControl, StopCarriedOut, NoNewStop
  <1>3. CASE Command
    BY <1>2, <1>3, <1>k, SessionAssumption
       DEF Command, Control, Start, AutoResumeDecide, StopCarriedOut, NoNewStop
  <1>4. ASSUME pc # "exec", NoNewStop PROVE StopCarriedOut'
    BY <1>4 DEF StopCarriedOut, NoNewStop
  <1>5. CASE WrapUp
    <2>1. pc = "exec" /\ ckpt' = ckpt /\ \A w \in Workers : wpc[w] = "free"
      BY <1>5 DEF WrapUp, Drained
    <2>2. action = "stop" => ActiveRun # run
      BY <2>1 DEF Recorded, Whole, Unfailed, StopRecorded, At
    <2>3. action = "stop" => ~StopMarked
      BY <1>t, <2>1, <2>2, CheckpointIsRecord, StoreAssumption
         DEF Own, Owned, ActiveRun, StopMarked
    <2> QED
      BY <1>k, <2>1, <2>3 DEF StopCarriedOut, NoNewStop
  <1>6. CASE ScanProcess /\ ~WrapUp
    <2>1. pc # "exec"
      BY <1>6 DEF ScanProcess, AutoResumeClaim, Recover, PlanFresh, PlanResume, PlanRejected,
                  ForcedClear, ResetControl, FirstCheckpoint, SaveCompletedMetadata,
                  RetainCheckpoint, CommitSnapshot, FailMetadata, FailCheckpoint, FailLifecycle
    <2>2. CASE AutoResumeClaim
      <3>1. ActiveRun = run /\ HasRun /\ sess \in Sessions
        BY <2>2, StoreAssumption DEF AutoResumeClaim, Own, Owned, TypeInv, PlacesTypeOK, ActiveRun
      <3> QED
        BY <1>t, <1>4, <2>1, <2>2, <3>1, AutoResumeMarks DEF AutoResumeClaim
    <2>3. CASE Recover \/ ForcedClear \/ CommitSnapshot
      BY <1>k, <1>c, <1>4, <2>1, <2>3
         DEF Recover, ForcedClear, CommitSnapshot, ClearForRun, Clear, HasRun, NoNewStop, StopMarked
    <2>4. CASE FirstCheckpoint \/ RetainCheckpoint
      BY <1>4, <2>1, <2>4, ReplaceMarks
         DEF FirstCheckpoint, RetainCheckpoint, TypeInv, PlacesTypeOK, Planned
    <2>5. CASE FailCheckpoint \/ FailLifecycle
      BY <1>t, <1>4, <2>1, <2>5, UpdateMarks DEF FailCheckpoint, FailLifecycle
    <2> QED
      BY <1>k, <1>4, <1>6, <2>1, <2>2, <2>3, <2>4, <2>5
         DEF ScanProcess, PlanFresh, PlanResume, PlanRejected, ResetControl, ClearControlForRun,
             SaveCompletedMetadata, FailMetadata
  <1>7. ASSUME NEW w \in Workers, Worker(w) PROVE StopCarriedOut'
    BY <1>7, WorkMarks, WorkStays DEF StopCarriedOut, NoNewStop
  <1>8. CASE Dismiss
    BY <1>8, NoDismissalStarts
  <1>9. CASE Fault
    BY <1>9, <1>c DEF Fault, RecoverFails, BeginFails, JobRaises, EntryFails, LockedSectionFails,
                      FinishFails, FailureHandlingFails, Crash
  <1> QED
    BY <1>1, <1>3, <1>5, <1>6, <1>7, <1>8, <1>9 DEF Next

(* If no process crashes and no write fails, a run whose checkpoint carries *)
(* a claimed stop starts no job: the violation that StopCrash shows needs a *)
(* scan that dies between the claim of the stop and the end of its control. *)
THEOREM StopIsObeyedUnlessItFails ==
    NoDismissal /\ NoFailure => (Spec => NoStartUnderStop)
  <1> SUFFICES ASSUME NoDismissal, NoFailure PROVE Spec => NoStartUnderStop
    OBVIOUS
  <1> DEFINE Obeyed == Recorded /\ Unfailed /\ StopCarriedOut
  <1>1. Init => Obeyed
    BY InitRecorded DEF Init, StoreInit, NoFailure, Unfailed, StopCarriedOut, StopMarked, HasRun
  <1>2. TypeInv /\ Own /\ Undismissed /\ Obeyed /\ [Next]_vars => Obeyed'
    BY RecordedStep, UnfailedStep, StopStep
  <1>3. TypeInv /\ Own /\ Obeyed
          => [\A w \in Workers :
                wpc[w] = "starting" /\ wpc'[w] = "running" => ~(ActiveRun = run /\ ckpt.stop)]_vars
    <2> SUFFICES ASSUME TypeInv, Own, Obeyed, NEW w \in Workers, wpc[w] = "starting", ActiveRun = run
                 PROVE  ~ckpt.stop
      OBVIOUS
    <2>1. run \in Runs /\ pc = "exec"
      BY DEF TypeInv, PlacesTypeOK, Planned
    <2>2. action = "none"
      BY DEF Own, Owned, HeldAt
    <2> QED
      BY <2>1, <2>2, StoreAssumption DEF StopCarriedOut, StopMarked, ActiveRun
  <1> HIDE DEF Obeyed
  <1> QED
    BY UndismissedSession, <1>1, <1>2, <1>3, PTL DEF Spec, NoStartUnderStop

-----------------------------------------------------------------------------
(* A completed run is whole, whoever dismisses and whatever fails.         *)

(* Whatever has become of the checkpoint of the executing process, it is    *)
(* not the one of another run, nor the {} of a rejected claim: a poll never *)
(* takes back the action.                                                   *)
Mine == pc = "exec" => ckpt = NoCheckpoint \/ ActiveRun = run

LEMMA WorkIsMine ==
    ASSUME TypeInv, Mine, NEW w \in Workers,
           Worker(w) \/ JobRaises(w) \/ EntryFails(w) \/ LockedSectionFails(w)
    PROVE  Mine'
  <1> USE DEF fileVars, storeVars
  <1>t. TypeOK /\ StoreTypeOK
    BY DEF TypeInv, TypeOK
  <1>e. pc = "exec" /\ pc' = "exec" /\ run' = run /\ run \in Runs
    BY WorkerExecutes, WorkStays
  <1>r. SameRun => Mine'
    BY <1>e, StoreAssumption DEF Mine, SameRun, ActiveRun, HasRun
  <1>s. ckpt' = ckpt => Mine'
    BY <1>r, SameIfKept DEF SameCheckpoint
  <1>w. \A l, m, d : Rewritten(run, l, m, d) => Mine'
    BY <1>e DEF Rewritten, Mine, ActiveRun
  <1>p. PersistRun => Mine'
    BY <1>e, <1>s, <1>w, PersistOwn
  <1>c. wpc[w] = "commit" /\ CountResult(w) /\ ReplaceCheckpoint(run, life, PersistedMetadata, done')
          => Mine'
    BY <1>w, CommitOwn
  <1>1. CASE TakeJob(w) \/ JobReturns(w) \/ JobRaises(w) \/ AppendRow(w) \/ ControlMetadata(w)
    BY <1>1, <1>s DEF TakeJob, JobReturns, JobRaises, AppendRow, ControlMetadata
  <1>2. CASE NotStarted(w) \/ StartJob(w) \/ FailJob(w)
    BY <1>2, <1>s, <1>p DEF NotStarted, StartJob, FailJob
  <1>3. CASE TryStart(w) \/ FinishJob(w) \/ EntryFails(w)
    BY <1>3, <1>t, <1>e, <1>r, <1>s, ClaimControlSame
       DEF TryStart, FinishJob, PollControl, EntryFails, SameCheckpoint
  <1>4. CASE Commit(w)
    BY <1>4, <1>c DEF Commit
  <1>5. CASE PauseCheckpoint(w)
    BY <1>5, <1>t, <1>r, MetadataTypes, UpdateMetadataSame DEF PauseCheckpoint
  <1>6. CASE PauseLifecycle(w)
    BY <1>6, <1>t, <1>r, UpdateStateSame DEF PauseLifecycle, TypeOK
  <1>7. CASE StopClear(w)
    BY <1>7, <1>e, <1>r, ClearForRunEnds DEF StopClear, SameCheckpoint, Mine
  <1>8. CASE LockedSectionFails(w)
    BY <1>8, <1>s, <1>p, <1>c DEF LockedSectionFails, KeptCheckpoint
  <1> QED
    BY <1>1, <1>2, <1>3, <1>4, <1>5, <1>6, <1>7, <1>8 DEF Worker

LEMMA MineStep == TypeInv /\ Mine /\ [Next]_vars => Mine'
  <1> SUFFICES ASSUME TypeInv, Mine, [Next]_vars PROVE Mine'
    OBVIOUS
  <1> USE DEF fileVars, storeVars, procVars
  <1>t. TypeOK /\ StoreTypeOK
    BY DEF TypeInv, TypeOK
  <1>1. CASE UNCHANGED vars
    BY <1>1 DEF vars, planVars, Mine, ActiveRun, HasRun
  <1>2. CASE \E w \in Workers : Worker(w) \/ JobRaises(w) \/ EntryFails(w) \/ LockedSectionFails(w)
    BY <1>2, WorkIsMine
  <1>3. CASE (\E s \in Requesters : RequestControl("pause", s)) \/ RequestControl("stop", NoSession)
    BY <1>3, RequestSame, SameActive, StoreAssumption
       DEF SameCheckpoint, SameRun, HasRun, Mine, planVars
  <1>4. CASE Dismiss
    <2>1. ckpt' \in {ckpt, NoCheckpoint} /\ UNCHANGED <<pc, run>>
      BY <1>4 DEF Dismiss, DismissCheckLock, DismissLoad, DismissMetadata, DismissClear, Clear,
                  ClearForRun, planVars
    <2> QED
      BY <2>1 DEF Mine, ActiveRun, HasRun
  <1>5. CASE FirstCheckpoint
    <2>1. Rewritten(run, life, base, done) /\ run' = run
      BY <1>5, <1>t, ReplaceRewrites
         DEF FirstCheckpoint, TypeInv, TypeOK, PlacesTypeOK, Planned, planVars
    <2> QED
      BY <2>1 DEF Rewritten, Mine, ActiveRun
  <1>6. CASE \/ (\E k \in Kind : Start(k)) \/ \E s \in Sessions : AutoResumeDecide(s)
             \/ (ScanProcess /\ ~FirstCheckpoint)
             \/ RecoverFails \/ BeginFails \/ FinishFails \/ FailureHandlingFails \/ Crash
    <2>1. pc' # "exec"
      BY <1>6
         DEF Start, AutoResumeDecide, ScanProcess, AutoResumeClaim, Recover, PlanFresh, PlanResume,
             PlanRejected, ForcedClear, ResetControl, WrapUp, SaveCompletedMetadata,
             RetainCheckpoint, CommitSnapshot, FailMetadata, FailCheckpoint, FailLifecycle,
             RecoverFails, BeginFails, FinishFails, FailureHandlingFails, Crash, EndSession, Goto
    <2> QED
      BY <2>1 DEF Mine
  <1> QED
    BY <1>1, <1>2, <1>3, <1>4, <1>5, <1>6 DEF Next, Command, Fault

(* The steps of the run are accounted for until the scan ends: counted,     *)
(* queued or with a worker, unless the scan was told to end, the circuit    *)
(* opened or a job raised.                                                  *)
Held == {job[w] : w \in {v \in Workers : wpc[v] # "free"}}

Unbroken == pc = "exec" /\ "raised" \notin troubles

Excused == action # "none" \/ consec = CircuitThreshold \/ "failure" \in troubles

Accounted ==
    /\ pc \in {"idle", "claim", "recover", "plan", "clear", "reset", "persist"} => troubles = {}
    /\ Unbroken =>
          /\ "execFailed" \notin troubles
          /\ "failure" \in troubles => \E w \in Workers : wpc[w] = "failing"
          /\ \A w \in Workers : wpc[w] = "skipping" => "failure" \in troubles
          /\ Excused \/ Steps \subseteq done \cup queue \cup Held
    /\ pc \in {"k_meta", "k_ckpt"} => consec = CircuitThreshold \/ done = Steps

LEMMA InitAccounted == Init => Accounted
  BY DEF Init, Accounted, Unbroken

(* A failed write leaves nothing to account for.                            *)
LEMMA AccountedBroken ==
    ASSUME pc' = "exec", "raised" \in troubles'
    PROVE  Accounted'
  BY DEF Accounted, Unbroken

(* A worker that moves on with its step, or lays it down with an excuse.    *)
LEMMA AccountedMoves ==
    ASSUME TypeInv, Accounted, pc = "exec", pc' = "exec", NEW w \in Workers,
           NEW p \in WorkerPlace \ {"skipping"}, Move(w, p),
           wpc[w] \notin {"free", "failing"}, UNCHANGED <<queue, done, consec, troubles>>,
           action # "none" => action' # "none",
           p = "free" => action' # "none" \/ consec = CircuitThreshold \/ "failure" \in troubles
    PROVE  Accounted'
  <1> SUFFICES ASSUME Unbroken PROVE Accounted'
    BY DEF Accounted, Unbroken
  <1>1. /\ wpc'[w] = p /\ (p # "free" => job'[w] = job[w])
        /\ \A v \in Workers : v # w => wpc'[v] = wpc[v] /\ job'[v] = job[v]
    BY MoveType
  <1>2. "failure" \in troubles' => \E v \in Workers : wpc'[v] = "failing"
    BY <1>1 DEF Accounted
  <1>3. \A v \in Workers : wpc'[v] = "skipping" => "failure" \in troubles'
    BY <1>1 DEF Accounted
  <1>4. p # "free" => Held \subseteq Held'
    BY <1>1 DEF Held
  <1>5. Excused => Excused'
    BY DEF Excused
  <1>6. p = "free" => Excused'
    BY DEF Excused
  <1>7. Excused' \/ Steps \subseteq done' \cup queue' \cup Held'
    BY <1>4, <1>5, <1>6 DEF Accounted
  <1> QED
    BY <1>2, <1>3, <1>7 DEF Accounted, Unbroken

LEMMA AccountedTakes ==
    ASSUME TypeInv, Accounted, NEW w \in Workers, TakeJob(w)
    PROVE  Accounted'
  <1>1. PICK s \in queue : queue' = queue \ {s} /\ job' = [job EXCEPT ![w] = s]
    BY DEF TakeJob
  <1>2. pc = "exec" /\ wpc[w] = "free" /\ UNCHANGED <<pc, action, done, consec, troubles>>
    BY DEF TakeJob
  <1>3. /\ wpc'[w] = IF "failure" \in troubles THEN "skipping" ELSE "taken"
        /\ job'[w] = s
        /\ \A v \in Workers : v # w => wpc'[v] = wpc[v] /\ job'[v] = job[v]
    BY <1>1 DEF TakeJob, TypeInv, TypeOK
  <1>4. Held' = Held \cup {s}
    BY <1>2, <1>3 DEF Held
  <1>5. "failure" \in troubles /\ Unbroken => \E v \in Workers : wpc'[v] = "failing"
    BY <1>2, <1>3 DEF Accounted
  <1>6. Unbroken => \A v \in Workers : wpc'[v] = "skipping" => "failure" \in troubles
    BY <1>3 DEF Accounted
  <1>7. Unbroken => Excused' \/ Steps \subseteq done' \cup queue' \cup Held'
    BY <1>1, <1>2, <1>4 DEF Accounted, Excused
  <1> QED
    BY <1>2, <1>5, <1>6, <1>7 DEF Accounted, Unbroken

(* While the checkpoint is the process's own, a poll takes back no action.  *)
LEMMA PollKeepsAction ==
    ASSUME TypeInv, Mine, NEW w \in Workers, wpc[w] \in {"taken", "returned"}, PollControl(w)
    PROVE  /\ action # "none" => action' # "none"
           /\ \E p \in {"c_meta", "starting", "append", "free"} :
                 Move(w, p) /\ (p = "free" => action' # "none")
  <1>1. pc = "exec" /\ run \in Runs
    BY DEF TypeInv, PlacesTypeOK, Planned
  <1>2. ~(ckpt # NoCheckpoint /\ ActiveRun # run)
    BY <1>1 DEF Mine
  <1>3. /\ action # "none" => Polled # "none"
        /\ Polled = "none" => action = "none"
    BY <1>2 DEF Polled
  <1>4. action' = Polled
    BY DEF PollControl
  <1>5. \A a : AfterPoll(w, a) \in {"starting", "append", "free"}
                /\ (AfterPoll(w, a) = "free" => a # "none")
    BY DEF AfterPoll, Discards
  <1> QED
    BY <1>3, <1>4, <1>5 DEF PollControl

LEMMA AccountedCommit ==
    ASSUME TypeInv, Accounted, NEW w \in Workers, Commit(w)
    PROVE  Accounted'
  <1>1. /\ pc = "exec" /\ wpc[w] = "commit" /\ Move(w, "free") /\ CountResult(w)
        /\ UNCHANGED <<pc, action, queue, troubles>>
    BY DEF Commit, TypeInv, PlacesTypeOK
  <1>2. wpc'[w] = "free" /\ \A v \in Workers : v # w => wpc'[v] = wpc[v] /\ job'[v] = job[v]
    BY <1>1, MoveType DEF WorkerPlace
  <1>3. Held \subseteq Held' \cup {job[w]}
    BY <1>2 DEF Held
  <1>4. done' = done \cup {job[w]} /\ (consec = CircuitThreshold => consec' = CircuitThreshold)
    BY <1>1 DEF CountResult
  <1>5. Unbroken => Excused' \/ Steps \subseteq done' \cup queue' \cup Held'
    BY <1>1, <1>3, <1>4 DEF Accounted, Excused
  <1>6. Unbroken => /\ "failure" \in troubles => \E v \in Workers : wpc'[v] = "failing"
                    /\ \A v \in Workers : wpc'[v] = "skipping" => "failure" \in troubles
    BY <1>1, <1>2 DEF Accounted
  <1> QED
    BY <1>1, <1>5, <1>6 DEF Accounted, Unbroken

LEMMA AccountedWork ==
    ASSUME TypeInv, Mine, Accounted, NEW w \in Workers,
           Worker(w) \/ JobRaises(w) \/ EntryFails(w) \/ LockedSectionFails(w)
    PROVE  Accounted'
  <1> USE DEF procVars, execVars, WorkerPlace, Locked
  <1>e. pc = "exec" /\ pc' = "exec"
    BY WorkStays
  <1>1. CASE TakeJob(w)
    BY <1>1, AccountedTakes
  <1>2. CASE NotStarted(w)
    <2>1. Unbroken => consec = CircuitThreshold \/ "failure" \in troubles
      BY <1>2, SessionAssumption
         DEF NotStarted, CanStart, Accounted, TypeInv, TypeOK
    <2>2. ~Unbroken => "raised" \in troubles'
      BY <1>2, <1>e DEF NotStarted, Unbroken
    <2> QED
      BY <1>2, <1>e, <2>1, <2>2, AccountedMoves, AccountedBroken DEF NotStarted
  <1>3. CASE TryStart(w) \/ FinishJob(w)
    <2>1. PollControl(w) /\ wpc[w] \in {"taken", "returned"}
          /\ UNCHANGED <<queue, done, consec, troubles>>
      BY <1>3 DEF TryStart, FinishJob
    <2> QED
      BY <1>e, <2>1, PollKeepsAction, AccountedMoves
  <1>4. CASE JobReturns(w)
    <2>1. /\ wpc[w] = "running" /\ wpc'[w] = "returned"
          /\ \A v \in Workers : v # w => wpc'[v] = wpc[v]
          /\ UNCHANGED <<action, queue, done, consec, troubles, job>>
      BY <1>4 DEF JobReturns, TypeInv, TypeOK
    <2>2. Held' = Held
      BY <2>1 DEF Held
    <2>3. Unbroken => /\ "failure" \in troubles => \E v \in Workers : wpc'[v] = "failing"
                      /\ \A v \in Workers : wpc'[v] = "skipping" => "failure" \in troubles
      BY <2>1 DEF Accounted
    <2> QED
      BY <1>e, <2>1, <2>2, <2>3 DEF Accounted, Unbroken, Excused
  <1>5. CASE JobRaises(w)
    <2>1. wpc'[w] = "failing" /\ troubles' = troubles \cup {"failure"}
      BY <1>5, MoveType DEF JobRaises
    <2>2. Unbroken => "execFailed" \notin troubles'
      BY <2>1 DEF Accounted
    <2> QED
      BY <1>e, <2>1, <2>2 DEF Accounted, Unbroken, Excused
  <1>6. CASE EntryFails(w) \/ FailJob(w) \/ LockedSectionFails(w)
    BY <1>6, <1>e, AccountedBroken DEF EntryFails, FailJob, LockedSectionFails
  <1>7. CASE Commit(w)
    BY <1>7, AccountedCommit
  <1>8. CASE StartJob(w) \/ AppendRow(w) \/ ControlMetadata(w) \/ PauseCheckpoint(w)
    BY <1>8, <1>e, AccountedMoves DEF StartJob, AppendRow, ControlMetadata, PauseCheckpoint
  <1>9. CASE PauseLifecycle(w) \/ StopClear(w)
    <2>1. AfterPoll(w, action) \in {"starting", "append", "free"}
          /\ (AfterPoll(w, action) = "free" => action # "none")
      BY DEF AfterPoll, Discards
    <2> QED
      BY <1>9, <1>e, <2>1, AccountedMoves DEF PauseLifecycle, StopClear
  <1> QED
    BY <1>1, <1>2, <1>3, <1>4, <1>5, <1>6, <1>7, <1>8, <1>9 DEF Worker

LEMMA AccountedStep == TypeInv /\ Mine /\ Accounted /\ [Next]_vars => Accounted'
  <1> SUFFICES ASSUME TypeInv, Mine, Accounted, [Next]_vars PROVE Accounted'
    OBVIOUS
  <1> USE DEF Goto, procVars, planVars, execVars, workerVars
  <1>1. CASE UNCHANGED vars
    BY <1>1 DEF vars, Accounted, Unbroken, Excused, Held
  <1>2. CASE \E w \in Workers : Worker(w) \/ JobRaises(w) \/ EntryFails(w) \/ LockedSectionFails(w)
    BY <1>2, AccountedWork
  <1>3. CASE \/ \E s \in Requesters : RequestControl("pause", s)
             \/ RequestControl("stop", NoSession)
             \/ Dismiss
    <2>1. UNCHANGED <<procVars, workerVars>>
      BY <1>3 DEF RequestControl, Dismiss, DismissCheckLock, DismissLoad, DismissMetadata,
                  DismissClear
    <2> QED
      BY <2>1 DEF Accounted, Unbroken, Excused, Held
  <1>4. CASE (\E k \in Kind : Start(k)) \/ \E s \in Sessions : AutoResumeDecide(s)
    BY <1>4 DEF Start, AutoResumeDecide, Accounted, Unbroken
  <1>5. CASE EndSession
    BY <1>5 DEF EndSession, Accounted, Unbroken
  <1>6. CASE FirstCheckpoint
    <2>1. /\ pc' = "exec" /\ troubles' = {} /\ done' = done /\ queue' = Steps \ done
          /\ \A w \in Workers : wpc'[w] # "skipping"
      BY <1>6 DEF FirstCheckpoint, Accounted, TypeInv, PlacesTypeOK
    <2> QED
      BY <2>1 DEF Accounted, Unbroken
  <1>7. CASE WrapUp /\ pc' = "k_meta"
    <2>1. /\ Drained /\ "raised" \notin troubles /\ UNCHANGED <<done, consec>>
          /\ action = "none" \/ done = Steps
      BY <1>7 DEF WrapUp, EndSession
    <2>2. "failure" \notin troubles /\ Held = {}
      BY <2>1 DEF Accounted, Unbroken, Drained, Held
    <2>3. done \subseteq Steps
      BY DEF TypeInv, TypeOK
    <2> QED
      BY <1>7, <2>1, <2>2, <2>3 DEF Accounted, Unbroken, Excused, Drained
  <1>8. CASE SaveCompletedMetadata
    BY <1>8 DEF SaveCompletedMetadata, Accounted, Unbroken
  <1>9. CASE /\ pc' \in {"recover", "plan", "clear", "reset", "persist"}
             /\ pc \in {"claim", "recover", "plan", "clear", "reset", "persist"}
             /\ troubles' = troubles
    BY <1>9 DEF Accounted, Unbroken
  <1>10. CASE pc' \in {"x_meta", "x_ckpt", "x_life", "commit"}
    BY <1>10 DEF Accounted, Unbroken
  <1>11. CASE ScanProcess
    BY <1>5, <1>6, <1>7, <1>8, <1>9, <1>10, <1>11
       DEF ScanProcess, AutoResumeClaim, Recover, PlanFresh, PlanResume, PlanRejected, ForcedClear,
           ResetControl, WrapUp, RetainCheckpoint, CommitSnapshot, FailMetadata, FailCheckpoint,
           FailLifecycle
  <1>12. CASE RecoverFails \/ BeginFails \/ FinishFails \/ FailureHandlingFails \/ Crash
    BY <1>5, <1>10, <1>12
       DEF RecoverFails, BeginFails, FinishFails, FailureHandlingFails, Crash
  <1> QED
    BY <1>1, <1>2, <1>3, <1>4, <1>11, <1>12 DEF Next, Command, Fault

(* The history only grows.                                                  *)
LEMMA CommittedStays ==
    ASSUME TypeInv, [Next]_vars, NEW r \in Runs
    PROVE  Committed(r) \subseteq StepsOf(hist', r)
  <1>1. CASE hist' = hist
    BY <1>1 DEF Committed
  <1>2. ASSUME NEW w \in Workers, wpc[w] = "append", AppendResult(w)
        PROVE  Committed(r) \subseteq StepsOf(hist', r)
    BY <1>2, AppendCommits DEF Committed, StepsOf
  <1> QED
    BY <1>1, <1>2, HistoryMoves

(* Only SaveCompletedMetadata records a run as completed.                   *)
Successful(m) == m # NoMeta /\ m.status \in {"completed", "degraded"}

LEMMA SuccessIsSaved ==
    ASSUME TypeInv, [Next]_vars, NEW r \in Runs, Successful(meta'[r])
    PROVE  \/ Successful(meta[r])
           \/ SaveCompletedMetadata /\ r = run /\ consec # CircuitThreshold
  <1> USE DEF fileVars
  <1>t. meta \in [Runs -> Metadata \cup {NoMeta}]
    BY DEF TypeInv, TypeOK
  <1>s. ASSUME NEW m, NEW q, SaveRunMetadata(q, m)
        PROVE  meta'[r] = meta[r] \/ (r = q /\ meta'[r] = m)
    BY <1>s, <1>t DEF SaveRunMetadata
  <1>1. CASE UNCHANGED vars
    BY <1>1 DEF vars
  <1>2. CASE \E w \in Workers : Worker(w) \/ JobRaises(w) \/ EntryFails(w) \/ LockedSectionFails(w)
    <2> PICK w \in Workers : Worker(w) \/ JobRaises(w) \/ EntryFails(w) \/ LockedSectionFails(w)
      BY <1>2
    <2>1. CASE ControlMetadata(w)
      BY <1>s, <2>1 DEF ControlMetadata, ControlledMetadata, Successful
    <2>2. CASE ~ControlMetadata(w)
      BY <2>2
         DEF Worker, TakeJob, NotStarted, TryStart, StartJob, JobReturns, FailJob, FinishJob,
             AppendRow, Commit, PauseCheckpoint, PauseLifecycle, StopClear, JobRaises, EntryFails,
             LockedSectionFails
    <2> QED
      BY <2>1, <2>2
  <1>3. CASE DismissMetadata
    BY <1>3, <1>s DEF DismissMetadata, Successful
  <1>4. CASE FailMetadata
    BY <1>4, <1>s DEF FailMetadata, FailedMetadata, Successful
  <1>5. CASE SaveCompletedMetadata
    BY <1>5, <1>s DEF SaveCompletedMetadata, CompletedMetadata, Successful
  <1>6. CASE Command \/ (Dismiss /\ ~DismissMetadata)
    BY <1>6 DEF Command, Start, AutoResumeDecide, RequestControl, Dismiss, DismissCheckLock,
                DismissLoad, DismissClear
  <1>7. CASE ScanProcess /\ ~FailMetadata /\ ~SaveCompletedMetadata
    BY <1>7
       DEF ScanProcess, AutoResumeClaim, Recover, PlanFresh, PlanRejected, PlanResume, ForcedClear,
           ResetControl, FirstCheckpoint, WrapUp, RetainCheckpoint, CommitSnapshot, FailCheckpoint,
           FailLifecycle
  <1>8. CASE RecoverFails \/ BeginFails \/ FinishFails \/ FailureHandlingFails \/ Crash
    BY <1>8 DEF RecoverFails, BeginFails, FinishFails, FailureHandlingFails, Crash
  <1> QED
    BY <1>1, <1>2, <1>3, <1>4, <1>5, <1>6, <1>7, <1>8 DEF Next, Fault

RecordedWhole ==
    \A r \in Runs : Successful(meta[r]) => Committed(r) = Steps

LEMMA RecordedWholeStep ==
    ASSUME TypeInv, Backed, Accounted, RecordedWhole, TypeInv', [Next]_vars
    PROVE  RecordedWhole'
  <1> SUFFICES ASSUME NEW r \in Runs, Successful(meta'[r])
               PROVE  StepsOf(hist', r) = Steps
    BY DEF RecordedWhole, Successful, Committed
  <1>1. Committed(r) \subseteq StepsOf(hist', r)
    BY CommittedStays
  <1>2. StepsOf(hist', r) \subseteq Steps
    <2>1. hist' \in Seq(Row)
      BY DEF TypeInv, TypeOK
    <2>2. \A i \in DOMAIN hist' : hist'[i] \in Row
      BY <2>1
    <2>3. \A i \in DOMAIN hist' : hist'[i].step \in Steps
      BY <2>2 DEF Row
    <2> QED
      BY <2>3 DEF StepsOf
  <1>3. CASE Successful(meta[r])
    BY <1>1, <1>2, <1>3 DEF RecordedWhole
  <1>4. CASE SaveCompletedMetadata /\ r = run /\ consec # CircuitThreshold
    BY <1>1, <1>2, <1>4 DEF SaveCompletedMetadata, Accounted, Backed, Planned
  <1> QED
    BY <1>3, <1>4, SuccessIsSaved

(* A checkpoint enters finalizing at the end of a complete scan only.       *)
FinalizingWhole == Finalizing => ckpt.done = Steps

LEMMA FinalizingWholeStep ==
    ASSUME TypeInv, Evident, Accounted, FinalizingWhole, Evident', [Next]_vars
    PROVE  FinalizingWhole'
  <1> USE DEF fileVars, storeVars
  <1>t. TypeOK /\ StoreTypeOK
    BY DEF TypeInv, TypeOK
  <1>k. CheckpointKept => FinalizingWhole'
    BY DEF CheckpointKept, FinalizingWhole, Finalizing, HasRun
  <1>s. UNCHANGED storeVars => FinalizingWhole'
    BY <1>k, StoreKept
  <1>b. pc' \in BeforeFinalizing => FinalizingWhole'
    BY DEF Evident, FinalizingWhole
  <1>r. ASSUME pc = "k_ckpt", ReplaceCheckpoint(run, RetainedLifecycle, CompletedMetadata, done)
        PROVE  FinalizingWhole'
    <2>1. run \in Runs /\ done \in SUBSET Steps
      BY <1>r, <1>t DEF TypeInv, TypeOK, PlacesTypeOK, Planned
    <2>2. HasRun' /\ ckpt'.done = done /\ ckpt'.life = RetainedLifecycle
      BY <1>r, <1>t, <2>1, MetadataTypes, ReplaceCheckpointEffect
    <2>3. RetainedLifecycle = "finalizing" => done = Steps
      BY <1>r DEF RetainedLifecycle, CompletedMetadata, Accounted
    <2> QED
      BY <2>2, <2>3 DEF FinalizingWhole, Finalizing
  <1>1. CASE UNCHANGED vars
    BY <1>1, <1>s DEF vars
  <1>2. CASE (\E k \in Kind : Start(k)) \/ \E s \in Sessions : AutoResumeDecide(s)
    BY <1>2, <1>s DEF Start, AutoResumeDecide
  <1>3. CASE \/ \E s \in Requesters : RequestControl("pause", s)
             \/ RequestControl("stop", NoSession)
             \/ Dismiss
    BY <1>3, <1>k, OthersKeepCheckpoint
  <1>4. CASE \E w \in Workers : Worker(w) \/ JobRaises(w) \/ EntryFails(w) \/ LockedSectionFails(w)
    BY <1>4, <1>b, WorkStays DEF BeforeFinalizing
  <1>5. CASE AutoResumeClaim
    BY <1>5, <1>t, <1>k, ClaimAutoResumeKeeps DEF AutoResumeClaim, TypeInv, PlacesTypeOK
  <1>6. CASE Recover \/ CommitSnapshot \/ RecoverFails
    BY <1>6, <1>t, <1>k, <1>s, ClearForRunKeeps, KeptCheckpointKeeps
       DEF Recover, CommitSnapshot, RecoverFails
  <1>7. CASE \/ \E r \in Runs : PlanFresh(r)
             \/ PlanResume \/ PlanRejected \/ WrapUp \/ SaveCompletedMetadata \/ FailMetadata
             \/ FailureHandlingFails \/ Crash
    BY <1>7, <1>s
       DEF PlanFresh, PlanResume, PlanRejected, WrapUp, SaveCompletedMetadata, FailMetadata,
           FailureHandlingFails, Crash
  <1>8. CASE ForcedClear
    BY <1>8, <1>t, <1>k, ClearEffect, KeptCheckpointKeeps
       DEF ForcedClear, FinalizingWhole, Finalizing
  <1>9. CASE ResetControl \/ FirstCheckpoint
    BY <1>9, <1>b DEF ResetControl, FirstCheckpoint, Goto, BeforeFinalizing
  <1>10. CASE BeginFails
    <2>1. CASE pc = "persist" /\ ReplaceCheckpoint(run, life, base, done)
      <3>1. run \in Runs /\ base \in Metadata /\ life \in Lifecycle /\ done \in SUBSET Steps
        BY <1>t, <2>1 DEF TypeInv, TypeOK, PlacesTypeOK, Planned
      <3>2. HasRun' /\ ckpt'.life = life
        BY <1>t, <2>1, <3>1, ReplaceCheckpointEffect
      <3> QED
        BY <2>1, <3>2 DEF Evident, FinalizingWhole, Finalizing
    <2> QED
      BY <1>10, <1>s, <2>1 DEF BeginFails
  <1>11. CASE RetainCheckpoint \/ FinishFails
    BY <1>11, <1>r, <1>s DEF RetainCheckpoint, FinishFails
  <1>12. CASE FailCheckpoint
    BY <1>12, <1>t, MetadataTypes, UpdateRunMetadataEffect
       DEF FailCheckpoint, FinalizingWhole, Finalizing
  <1>13. CASE FailLifecycle
    BY <1>13, <1>t, UpdateRuntimeStateEffect
       DEF FailLifecycle, FinalizingWhole, Finalizing, Lifecycle
  <1> QED
    BY <1>1, <1>2, <1>3, <1>4, <1>5, <1>6, <1>7, <1>8, <1>9, <1>10, <1>11, <1>12, <1>13
       DEF Next, Command, ScanProcess, Fault

(* A run is recorded as completed, or left to be finalized, only with the   *)
(* result of every step: no step that was skipped, refused, discarded,      *)
(* raised or not written is missing, whoever asks for a control or          *)
(* dismisses the run meanwhile, whatever fails, and however little of the   *)
(* history a resumption reads.                                              *)
THEOREM CompletedRunsAreWhole == Spec => []CompletedIsWhole
  <1>1. Init => Mine /\ Accounted /\ RecordedWhole /\ FinalizingWhole
    BY InitAccounted
       DEF Init, StoreInit, Mine, RecordedWhole, Successful, FinalizingWhole, Finalizing, HasRun
  <1>2. /\ TypeInv /\ Backed /\ Evident /\ Mine /\ Accounted /\ RecordedWhole /\ FinalizingWhole
        /\ [Next]_vars
        => /\ TypeInv' /\ Backed' /\ Evident' /\ Mine' /\ Accounted'
           /\ RecordedWhole' /\ FinalizingWhole'
    BY TypeStep, BackedStep, EvidentStep, MineStep, AccountedStep, RecordedWholeStep,
       FinalizingWholeStep
  <1>3. RecordedWhole /\ FinalizingWhole => CompletedIsWhole
    BY DEF RecordedWhole, Successful, FinalizingWhole, CompletedIsWhole
  <1> QED
    BY InitTyped, InitBacked, InitEvident, <1>1, <1>2, <1>3, PTL DEF Spec
=============================================================================
