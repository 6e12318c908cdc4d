--------------------------- MODULE ActiveRunStore ---------------------------
(***************************************************************************)
(* The durable pair that scanner/active_run_store.py owns: the checkpoint  *)
(* of the active run (active_run.json) and the one-slot control mailbox    *)
(* (active_run.control.json).  Every operation below is one transaction:   *)
(* the code runs it under the cross-process transaction lock, and replaces *)
(* each file by a rename, so no other process sees it half done.           *)
(*                                                                         *)
(* Timestamps, leases, labels and the request id are not represented: the  *)
(* id only re-identifies, inside one transaction, the request that the     *)
(* same transaction has just read.                                         *)
(***************************************************************************)
EXTENDS Naturals

CONSTANTS
    Runs,          \* run identifiers
    Steps,         \* the (candidate, question) steps every run evaluates
    Sessions,      \* identifiers of app sessions (client_session_id)
    NoRun,         \* the empty run id
    NoSession,     \* a request that names no app session
    NoCheckpoint,  \* active_run.json does not exist
    EmptyPayload,  \* active_run.json holds {}
    NoMail         \* active_run.control.json does not exist

VARIABLES
    ckpt,          \* active_run.json
    mailbox        \* active_run.control.json

storeVars == <<ckpt, mailbox>>

-----------------------------------------------------------------------------
(* Run metadata as the properties tell it apart: its status, and whether   *)
(* completed_at is set.                                                    *)

Status == {"running", "partial", "paused", "stopped", "failed", "degraded",
           "completed"}

Metadata == [status: Status, closed: BOOLEAN]

Lifecycle == {"idle", "active_scan", "paused_recoverable", "stopped", "failed",
              "finalizing"}

AutoResumeSession == [attempts: Nat, suppressed: BOOLEAN]

Checkpoint == [run: Runs, life: Lifecycle, meta: Metadata,
               done: SUBSET Steps,       \* the steps its entries count as completed
               stop: BOOLEAN,            \* maintenance.control_action = "stop"
               sessions: [Sessions -> AutoResumeSession]]

Control == {"pause", "stop"}

Mail == [run: Runs, action: Control, session: Sessions \cup {NoSession}]

ASSUME StoreAssumption ==
    /\ NoRun \notin Runs
    /\ NoSession \notin Sessions
    /\ NoCheckpoint \notin Checkpoint
    /\ EmptyPayload \notin Checkpoint
    /\ EmptyPayload # NoCheckpoint
    /\ NoMail \notin Mail

StoreTypeOK ==
    /\ ckpt \in Checkpoint \cup {NoCheckpoint, EmptyPayload}
    /\ mailbox \in Mail \cup {NoMail}

StoreInit ==
    /\ ckpt = NoCheckpoint
    /\ mailbox = NoMail

HasRun == ckpt \notin {NoCheckpoint, EmptyPayload}

ActiveRun == IF HasRun THEN ckpt.run ELSE NoRun

MailFor(r) == mailbox # NoMail /\ mailbox.run = r

NewSessions == [s \in Sessions |-> [attempts |-> 0, suppressed |-> FALSE]]

(* Mutant: a pause does not suppress auto-resume.                           *)
SuppressedNever(c, s) == c

Suppressed(c, s) == [c EXCEPT !.sessions[s].suppressed = TRUE]

-----------------------------------------------------------------------------
(* Requests from the app.                                                  *)

(* The mailbox after a request: a pause never displaces a stop addressed   *)
(* to the same run.                                                        *)
Written(a, s) ==
    IF a = "pause" /\ MailFor(ckpt.run) /\ mailbox.action = "stop"
    THEN mailbox
    ELSE [run |-> ckpt.run, action |-> a, session |-> s]

(* A pause that meets a claimed stop is answered "stop" and writes nothing. *)
AnsweredByMarker(a) == a = "pause" /\ ckpt.stop

RequestControlForActiveRun(a, s) ==
    /\ HasRun
    /\ \/ /\ AnsweredByMarker(a)
          /\ UNCHANGED storeVars
       \/ /\ ~AnsweredByMarker(a)
          /\ mailbox' = Written(a, s)
          /\ ckpt' = IF Written(a, s).action = "pause" /\ s # NoSession
                     THEN Suppressed(ckpt, s)
                     ELSE ckpt

-----------------------------------------------------------------------------
(* The running scan claims what the mailbox holds for it.                  *)

(* A mailbox of another run, or under another run's checkpoint, is not      *)
(* touched by a claim that expects run r.                                   *)
ForeignToClaim(r) ==
    \/ ckpt # NoCheckpoint /\ ActiveRun # r
    \/ ckpt = NoCheckpoint /\ mailbox # NoMail /\ mailbox.run # r

Claimed(r) ==
    IF \/ mailbox = NoMail
       \/ ForeignToClaim(r)
       \/ mailbox.run # r
       \/ ~HasRun /\ mailbox.action = "pause" /\ mailbox.session # NoSession
    THEN "none"
    ELSE mailbox.action

(* The checkpoint with the mark of what is claimed. *)
MarkedByClaim(r) ==
    IF ~HasRun \/ Claimed(r) = "none" THEN ckpt
    ELSE IF Claimed(r) = "stop" THEN [ckpt EXCEPT !.stop = TRUE]
    ELSE IF mailbox.session # NoSession THEN Suppressed(ckpt, mailbox.session)
    ELSE ckpt

ClaimControl(r) ==
    /\ ckpt' = MarkedByClaim(r)
    /\ mailbox' = IF ForeignToClaim(r) THEN mailbox ELSE NoMail

(* The mark is saved first; the mailbox may then fail to go away.           *)
ClaimControlFails(r) ==
    /\ ckpt' \in {ckpt, MarkedByClaim(r)}
    /\ UNCHANGED mailbox

(* A mailbox left for another run is dropped, one left for run r is kept;   *)
(* nothing happens when owner is no longer the active run.                  *)
ClearControlForRun(r, owner) ==
    /\ mailbox' = IF ActiveRun # owner \/ MailFor(r) THEN mailbox ELSE NoMail
    /\ UNCHANGED ckpt

-----------------------------------------------------------------------------
(* Writes of the checkpoint.                                               *)

(* Mutant: the maintenance record is dropped with every checkpoint.         *)
ReplaceCheckpointAfresh(r, life, meta, done) ==
    /\ ckpt' = [run |-> r, life |-> life, meta |-> meta, done |-> done,
                stop |-> FALSE, sessions |-> NewSessions]
    /\ UNCHANGED mailbox

(* replace_checkpoint: the maintenance record survives only within a run.  *)
ReplaceCheckpoint(r, life, meta, done) ==
    /\ ckpt' = [run      |-> r,
                life     |-> life,
                meta     |-> meta,
                done     |-> done,
                stop     |-> ActiveRun = r /\ ckpt.stop,
                sessions |-> IF ActiveRun = r THEN ckpt.sessions ELSE NewSessions]
    /\ UNCHANGED mailbox

UpdateRunMetadata(meta) ==
    /\ ckpt' = IF HasRun THEN [ckpt EXCEPT !.meta = meta] ELSE ckpt
    /\ UNCHANGED mailbox

UpdateRuntimeState(life) ==
    /\ ckpt' = IF HasRun THEN [ckpt EXCEPT !.life = life] ELSE ckpt
    /\ UNCHANGED mailbox

Clear ==
    /\ ckpt' = NoCheckpoint
    /\ mailbox' = IF HasRun /\ MailFor(ckpt.run) THEN NoMail ELSE mailbox

ClearForRun(r) ==
    IF ActiveRun = r THEN Clear ELSE UNCHANGED storeVars

(* mutate(claim): an absent checkpoint is read as {}, the claim returns it  *)
(* unchanged, and mutate saves what the claim returned.                     *)
ClaimAutoResume(r, s) ==
    /\ ckpt' = IF ActiveRun = r
               THEN [ckpt EXCEPT !.sessions[s] =
                        [attempts |-> @.attempts + 1, suppressed |-> FALSE]]
               ELSE IF ckpt = NoCheckpoint THEN EmptyPayload
               ELSE ckpt
    /\ UNCHANGED mailbox
=============================================================================
