------------------------ MODULE ActiveRunStoreProofs ------------------------
(***************************************************************************)
(* What each transaction of ActiveRunStore does to the part of the         *)
(* checkpoint that recovery and resumption depend on, for every run, step  *)
(* and session.                                                            *)
(***************************************************************************)
EXTENDS ActiveRunStore, TLAPS

(* The checkpoint, if there is one afterwards, is the one that was there,   *)
(* its maintenance record aside.                                            *)
CheckpointKept ==
    HasRun' => /\ HasRun
               /\ ckpt'.run = ckpt.run
               /\ ckpt'.done = ckpt.done
               /\ ckpt'.life = ckpt.life
               /\ ckpt'.meta = ckpt.meta

(* The checkpoint, if there is one, is a full record. *)
LEMMA CheckpointIsRecord == StoreTypeOK /\ HasRun => ckpt \in Checkpoint /\ ckpt.run \in Runs
  BY DEF StoreTypeOK, HasRun, Checkpoint

(* Setting the suppression of a session keeps the record. *)
LEMMA SuppressedType ==
    ASSUME NEW c \in Checkpoint, NEW s \in Sessions
    PROVE  /\ Suppressed(c, s) \in Checkpoint
           /\ Suppressed(c, s).run = c.run
           /\ Suppressed(c, s).done = c.done
           /\ Suppressed(c, s).life = c.life
           /\ Suppressed(c, s).meta = c.meta
  <1>1. c.sessions[s] \in AutoResumeSession
    BY DEF Checkpoint
  <1>2. [c.sessions EXCEPT ![s].suppressed = TRUE] \in [Sessions -> AutoResumeSession]
    BY <1>1 DEF Checkpoint, AutoResumeSession
  <1>3. Suppressed(c, s) = [c EXCEPT !.sessions = [c.sessions EXCEPT ![s].suppressed = TRUE]]
    BY DEF Suppressed, Checkpoint
  <1> QED
    BY <1>2, <1>3 DEF Checkpoint

(* A request of a pause or a stop leaves the checkpoint's progress alone. *)
LEMMA RequestControlKeeps ==
    ASSUME StoreTypeOK, NEW a \in Control, NEW s \in Sessions \cup {NoSession},
           RequestControlForActiveRun(a, s)
    PROVE  StoreTypeOK' /\ CheckpointKept
  <1>1. ckpt \in Checkpoint /\ ckpt.run \in Runs
    BY CheckpointIsRecord DEF RequestControlForActiveRun
  <1>2. CASE UNCHANGED storeVars
    BY <1>2 DEF StoreTypeOK, CheckpointKept, HasRun, storeVars
  <1>3. CASE /\ mailbox' = Written(a, s)
             /\ ckpt' = IF Written(a, s).action = "pause" /\ s # NoSession
                        THEN Suppressed(ckpt, s)
                        ELSE ckpt
    <2>1. mailbox' \in Mail
      BY <1>1, <1>3 DEF StoreTypeOK, Written, MailFor, Mail
    <2>2. CASE s \in Sessions
      BY <1>1, <1>3, <2>1, <2>2, SuppressedType, StoreAssumption DEF StoreTypeOK, CheckpointKept, HasRun
    <2>3. CASE s = NoSession
      BY <1>1, <1>3, <2>1, <2>3 DEF StoreTypeOK, CheckpointKept, HasRun
    <2> QED
      BY <2>2, <2>3
  <1> QED
    BY <1>2, <1>3 DEF RequestControlForActiveRun

(* Claiming a control, or failing to, leaves the progress alone. *)
LEMMA ClaimControlKeeps ==
    ASSUME StoreTypeOK, NEW r \in Runs, ClaimControl(r) \/ ClaimControlFails(r)
    PROVE  StoreTypeOK' /\ CheckpointKept
  <1>1. mailbox' \in Mail \cup {NoMail}
    BY DEF ClaimControl, ClaimControlFails, StoreTypeOK
  <1>2. CASE ckpt' = ckpt
    BY <1>1, <1>2 DEF StoreTypeOK, CheckpointKept, HasRun
  <1>3. CASE HasRun /\ ckpt' = [ckpt EXCEPT !.stop = TRUE]
    BY <1>1, <1>3, CheckpointIsRecord DEF StoreTypeOK, CheckpointKept, HasRun, Checkpoint
  <1>4. CASE /\ HasRun
             /\ mailbox # NoMail
             /\ mailbox.session # NoSession
             /\ ckpt' = Suppressed(ckpt, mailbox.session)
    <2>1. mailbox.session \in Sessions
      BY <1>4 DEF StoreTypeOK, Mail
    <2> QED
      BY <1>1, <1>4, <2>1, CheckpointIsRecord, SuppressedType
         DEF StoreTypeOK, CheckpointKept, HasRun
  <1> QED
    BY <1>2, <1>3, <1>4 DEF ClaimControl, ClaimControlFails, MarkedByClaim, Claimed

(* So does dropping the mailbox of another run. *)
LEMMA ClearControlKeeps ==
    ASSUME StoreTypeOK, NEW r, NEW owner, ClearControlForRun(r, owner)
    PROVE  StoreTypeOK' /\ CheckpointKept
  BY DEF ClearControlForRun, StoreTypeOK, CheckpointKept, HasRun

(* And the claim of an auto-resume, which may leave {} behind.              *)
LEMMA ClaimAutoResumeKeeps ==
    ASSUME StoreTypeOK, NEW r \in Runs, NEW s \in Sessions, ClaimAutoResume(r, s)
    PROVE  StoreTypeOK' /\ CheckpointKept
  <1>1. CASE ActiveRun = r
    <2> DEFINE claimed == [attempts |-> ckpt.sessions[s].attempts + 1, suppressed |-> FALSE]
    <2>1. HasRun /\ ckpt \in Checkpoint
      BY <1>1, CheckpointIsRecord, StoreAssumption DEF ActiveRun
    <2>2. claimed \in AutoResumeSession
      BY <2>1 DEF Checkpoint, AutoResumeSession
    <2>3. [ckpt.sessions EXCEPT ![s] = claimed] \in [Sessions -> AutoResumeSession]
      BY <2>1, <2>2 DEF Checkpoint
    <2>4. ckpt' = [ckpt EXCEPT !.sessions = [ckpt.sessions EXCEPT ![s] = claimed]]
      BY <1>1, <2>1 DEF ClaimAutoResume, Checkpoint
    <2> HIDE DEF claimed
    <2> QED
      BY <2>1, <2>3, <2>4 DEF ClaimAutoResume, StoreTypeOK, CheckpointKept, HasRun, Checkpoint
  <1>2. CASE ActiveRun # r
    BY <1>2 DEF ClaimAutoResume, StoreTypeOK, CheckpointKept, HasRun
  <1> QED
    BY <1>1, <1>2

(* Clearing leaves no checkpoint; clearing for a run leaves none of that run. *)
LEMMA ClearEffect ==
    ASSUME StoreTypeOK, Clear
    PROVE  StoreTypeOK' /\ ~HasRun'
  BY DEF Clear, StoreTypeOK, HasRun

LEMMA ClearForRunKeeps ==
    ASSUME StoreTypeOK, NEW r, ClearForRun(r)
    PROVE  StoreTypeOK' /\ CheckpointKept
  BY DEF ClearForRun, Clear, StoreTypeOK, CheckpointKept, HasRun, storeVars

(* A replaced checkpoint has the given progress, whatever it replaces. *)
LEMMA ReplaceCheckpointEffect ==
    ASSUME StoreTypeOK, NEW r \in Runs, NEW l \in Lifecycle, NEW m \in Metadata,
           NEW d \in SUBSET Steps, ReplaceCheckpoint(r, l, m, d)
    PROVE  /\ StoreTypeOK'
           /\ HasRun'
           /\ ckpt'.run = r
           /\ ckpt'.done = d
           /\ ckpt'.life = l
           /\ ckpt'.meta = m
  <1>1. (ActiveRun = r /\ ckpt.stop) \in BOOLEAN
    OBVIOUS
  <1>2. NewSessions \in [Sessions -> AutoResumeSession]
    BY DEF NewSessions, AutoResumeSession
  <1>3. ActiveRun = r => ckpt \in Checkpoint
    BY CheckpointIsRecord, StoreAssumption DEF ActiveRun
  <1>4. (IF ActiveRun = r THEN ckpt.sessions ELSE NewSessions)
            \in [Sessions -> AutoResumeSession]
    BY <1>2, <1>3 DEF Checkpoint
  <1>5. ckpt' \in Checkpoint
    BY <1>1, <1>4 DEF ReplaceCheckpoint, Checkpoint
  <1> QED
    BY <1>5, StoreAssumption DEF ReplaceCheckpoint, StoreTypeOK, HasRun

(* The unguarded updates change one field of whatever checkpoint is there. *)
LEMMA UpdateRunMetadataEffect ==
    ASSUME StoreTypeOK, NEW m \in Metadata, UpdateRunMetadata(m)
    PROVE  /\ StoreTypeOK'
           /\ HasRun' => /\ HasRun
                         /\ ckpt'.run = ckpt.run
                         /\ ckpt'.done = ckpt.done
                         /\ ckpt'.life = ckpt.life
                         /\ ckpt'.meta = m
  BY CheckpointIsRecord DEF UpdateRunMetadata, StoreTypeOK, HasRun, Checkpoint

LEMMA UpdateRuntimeStateEffect ==
    ASSUME StoreTypeOK, NEW l \in Lifecycle, UpdateRuntimeState(l)
    PROVE  /\ StoreTypeOK'
           /\ HasRun' => /\ HasRun
                         /\ ckpt'.run = ckpt.run
                         /\ ckpt'.done = ckpt.done
                         /\ ckpt'.life = l
                         /\ ckpt'.meta = ckpt.meta
  BY CheckpointIsRecord DEF UpdateRuntimeState, StoreTypeOK, HasRun, Checkpoint
=============================================================================
