------------------------------ MODULE AppSession ------------------------------
(***************************************************************************)
(* The session store of the app: what it shows of the backend, when it     *)
(* reloads that, which backend process it runs, and how it follows an      *)
(* interrupted scan up.  It lives on the main actor, so everything between *)
(* two awaits is one step; every await is a call of a backend process,     *)
(* during which events, timers and the user go on.                         *)
(*                                                                         *)
(* Code: Sources/Model/SelectionStore.swift (AppSessionStore),             *)
(* StartupLoadCoordinator.swift, AppSessionBridgeGateway.swift,            *)
(* NativeBridgeClient.swift (startStreamingProcess).                       *)
(*                                                                         *)
(* snapshotGeneration only ever tells a reload whether it moved since the  *)
(* reload began; that is the field "fresh" of the reload here.  Of the     *)
(* backend there is only what the app branches on.                         *)
(***************************************************************************)
EXTENDS Naturals

CONSTANTS
    MaxAttempts,   \* maximumMaintenanceAttempts
    AttemptLimit,  \* AUTO_RESUME_ATTEMPT_LIMIT of the backend
    Ids,           \* ids of operations and requests (UUIDs)
    NoId,
    NoSnapshot,    \* there is none (yet)
    NoLoad,        \* no reload is in flight
    Budgets        \* how often the environment may do each thing: one is chosen

VARIABLES
    back,      \* what a snapshot taken now would show
    attempts,  \* automatic resumptions the backend has begun
    view,      \* snapshot, the one on display
    reload,    \* the state of reloading, see Reloading
    op,        \* activeBridgeOperationID
    procs,     \* the streaming processes that have not completed
    preview,   \* pendingScanPlanPreviewID is set
    settings,  \* the snapshot that a settings command is about to bring
    control,   \* pendingScanControl...
    calls,     \* control requests that wait for the backend
    timers,    \* control requests whose 20 seconds are not over
    budget

opVars == <<op, procs, preview>>
controlVars == <<control, calls, timers>>
vars == <<back, attempts, view, reload, settings, opVars, controlVars, budget>>

-----------------------------------------------------------------------------
Wish == {"resume", "maint", "ref", "force"}

Run == {"none", "running", "interrupted", "paused"}

Snapshot == [at: Nat, run: Run]

Load == [maint: BOOLEAN, ref: BOOLEAN, resume: BOOLEAN, fresh: BOOLEAN,
         stage: {"cache", "load"}, got: Snapshot \cup {NoSnapshot}]

Reloading ==
    [load: Load \cup {NoLoad},
     pending: BOOLEAN,          \* isSnapshotReloadPending
     wishes: SUBSET Wish,       \* the pendingSnapshotReload... flags
     tries: 0..MaxAttempts, done: BOOLEAN,   \* startupLoadCoordinator
     retry: BOOLEAN,            \* startupMaintenanceRetryScheduled
     due: BOOLEAN,              \* referenceSnapshotRefreshPolicy.isDue
     busy: BOOLEAN,             \* isReferenceSnapshotRefreshInFlight
     owed: BOOLEAN]             \* an operation to follow up has ended (observation)

Process == [id: Ids, auto: BOOLEAN,
            follow: BOOLEAN,    \* autoResumeOnInterruption, or didStart
            place: {"launched", "running", "ended"},
            out: Snapshot \cup {NoSnapshot}]    \* an event on its way

Pending == [id: Ids, action: {"pause", "stop"}, at: Nat]
NoControl == [id |-> NoId, action |-> "stop", at |-> 0]

Limits == {"start", "press", "settings", "control", "change", "fault", "due"}

ASSUME SessionAssumption ==
    /\ MaxAttempts \in Nat \ {0}
    /\ AttemptLimit \in Nat
    /\ NoId \notin Ids
    /\ NoSnapshot \notin Snapshot
    /\ NoLoad \notin Load
    /\ Budgets \subseteq [Limits -> Nat]

TypeOK ==
    /\ back \in Snapshot
    /\ attempts \in 0..AttemptLimit
    /\ view \in Snapshot \cup {NoSnapshot}
    /\ reload \in Reloading
    /\ op \in Ids \cup {NoId}
    /\ procs \subseteq Process
    /\ preview \in BOOLEAN
    /\ settings \in Snapshot \cup {NoSnapshot}
    /\ control \in Pending \cup {NoControl}
    /\ calls \subseteq Ids
    /\ timers \subseteq Ids
    /\ budget \in [Limits -> Nat]

Spend(limit) ==
    /\ budget[limit] > 0
    /\ budget' = [budget EXCEPT ![limit] = @ - 1]

Failures(n) ==
    /\ budget.fault >= n
    /\ budget' = [budget EXCEPT !.fault = @ - n]

One(b) == IF b THEN 1 ELSE 0

(* An id that names nothing any more. *)
Unused == Ids \ (calls \cup timers \cup {p.id : p \in procs} \cup {op, control.id})

ShowsRunning == view # NoSnapshot /\ view.run = "running"

Moved(run) == [at |-> back.at + 1, run |-> run]

-----------------------------------------------------------------------------
(* Reloading, as functions of its state s.                                 *)

Loading(s) == s.load # NoLoad

(* Mutant: an event does not count for the reload in flight.                *)
BumpedNever(s) == s

(* snapshotGeneration &+= 1 *)
Bumped(s) == IF Loading(s) THEN [s EXCEPT !.load.fresh = FALSE] ELSE s

(* Mutant: the attempts are not limited.                                    *)
CanRetryAlways(s) == ~s.done

CanRetry(s) == ~s.done /\ s.tries < MaxAttempts

(* reloadSnapshotAsync when none is in flight. *)
Begun(s, wishes) ==
    LET ref   == "ref" \in wishes /\ (s.due \/ "force" \in wishes)
        maint == ~ref /\ "maint" \in wishes /\ CanRetry(s)
        later == ref /\ "maint" \in wishes
    IN [s EXCEPT
          !.load = [maint |-> maint, ref |-> ref, resume |-> "resume" \in wishes,
                    fresh |-> TRUE, got |-> NoSnapshot,
                    stage |-> IF view = NoSnapshot /\ (maint \/ ref) THEN "cache" ELSE "load"],
          !.due     = @ /\ ~ref,
          !.busy    = @ \/ ref,
          !.tries   = IF maint THEN @ + 1 ELSE @,
          !.pending = @ \/ later,
          !.wishes  = IF later THEN @ \cup {"maint"} ELSE @,
          !.owed    = @ /\ "resume" \notin wishes]

(* Mutant: the wishes of the last caller replace those of the others.       *)
QueuedOverwriting(s, wishes) == [s EXCEPT !.pending = TRUE, !.wishes = wishes]

Queued(s, wishes) == [s EXCEPT !.pending = TRUE, !.wishes = @ \cup wishes]

Asked(s, wishes) == IF Loading(s) THEN Queued(s, wishes) ELSE Begun(s, wishes)

(* startPendingSnapshotReloadIfNeeded *)
Dequeued(s) ==
    IF s.pending /\ ~s.retry
    THEN Asked([s EXCEPT !.pending = FALSE, !.wishes = {}], s.wishes)
    ELSE s

(* Mutant: maintenance that failed waits for somebody else to reload.       *)
SettledForGood(s, maintained) ==
    [s EXCEPT !.load = NoLoad,
              !.done = @ \/ (s.load.maint /\ maintained),
              !.busy = @ /\ ~s.load.ref]

(* The reload is over; failed maintenance is scheduled again. *)
Settled(s, maintained) ==
    LET load  == s.load
        again == load.maint /\ ~maintained /\ CanRetry(s)
    IN [s EXCEPT !.load    = NoLoad,
                 !.done    = @ \/ (load.maint /\ maintained),
                 !.busy    = @ /\ ~load.ref,
                 !.pending = @ \/ again,
                 !.wishes  = IF again THEN @ \cup {"maint"} ELSE @,
                 !.retry   = @ \/ again]

-----------------------------------------------------------------------------
(* The panel is shown for the first time and has asked for a refresh; an    *)
(* earlier session may have left an interrupted run.                        *)
Init ==
    /\ back \in [at: {0}, run: {"none", "interrupted"}]
    /\ attempts = 0
    /\ view = NoSnapshot
    /\ \E due \in BOOLEAN :
         LET idle == [load |-> NoLoad, pending |-> FALSE, wishes |-> {},
                      tries |-> 0, done |-> FALSE, retry |-> FALSE,
                      due |-> due, busy |-> FALSE, owed |-> FALSE]
         IN reload = Begun(idle, {"maint", "ref"})
    /\ op = NoId
    /\ procs = {}
    /\ preview = FALSE
    /\ settings = NoSnapshot
    /\ control = NoControl
    /\ calls = {}
    /\ timers = {}
    /\ budget \in Budgets

-----------------------------------------------------------------------------
(* Showing a snapshot, and launching a process.                            *)

Terminal(snap) ==
    IF control.action = "pause" THEN snap.run = "paused" ELSE snap.run = "none"

(* reconcilePendingScanControl *)
Reconciled(snap) ==
    IF op = NoId /\ snap.at >= control.at /\ Terminal(snap) THEN NoControl ELSE control

(* applySnapshot *)
Show(snap) ==
    /\ view' = snap
    /\ control' = Reconciled(snap)

(* Mutant: the operation that could not be launched is not given up.        *)
LaunchKeepingOperation(auto, follow, pending, broken) ==
    \E id \in Unused :
        LET p == [id |-> id, auto |-> auto, follow |-> follow,
                  place |-> "launched", out |-> NoSnapshot]
        IN /\ op' = id
           /\ control' = pending
           /\ procs' \in (IF broken THEN {procs, procs \cup {p}} ELSE {procs \cup {p}})

(* An exception before or after the process runs gives the operation up; it *)
(* does not end a process that runs already.                                *)
Launch(auto, follow, pending, broken) ==
    \E id \in Unused :
        LET p == [id |-> id, auto |-> auto, follow |-> follow,
                  place |-> "launched", out |-> NoSnapshot]
        IN IF broken
           THEN /\ op' = NoId
                /\ control' = NoControl
                /\ procs' \in {procs, procs \cup {p}}
           ELSE /\ op' = id
                /\ control' = pending
                /\ procs' = procs \cup {p}

-----------------------------------------------------------------------------
(* The reload in flight.                                                   *)

(* The gateway's process has read the files; its answer is on its way.      *)
LoadReads ==
    /\ Loading(reload)
    /\ reload.load.got = NoSnapshot
    /\ reload' = [reload EXCEPT !.load.got = back]
    /\ UNCHANGED <<back, attempts, view, settings, opVars, controlVars, budget>>

CacheReturns ==
    /\ Loading(reload)
    /\ reload.load.stage = "cache"
    /\ reload.load.got # NoSnapshot
    /\ reload' = [reload EXCEPT !.load.stage = "load", !.load.got = NoSnapshot]
    /\ IF reload.load.fresh
       THEN Show(reload.load.got)
       ELSE UNCHANGED <<view, control>>
    /\ UNCHANGED <<back, attempts, settings, opVars, calls, timers, budget>>

CacheFails ==
    /\ Loading(reload)
    /\ reload.load.stage = "cache"
    /\ Failures(1)
    /\ reload' = [reload EXCEPT !.load.stage = "load", !.load.got = NoSnapshot]
    /\ UNCHANGED <<back, attempts, view, settings, opVars, controlVars>>

(* warned: a part of the maintenance failed, the snapshot was taken.        *)
LoadReturned(warned) ==
    /\ Loading(reload)
    /\ reload.load.stage = "load"
    /\ reload.load.got # NoSnapshot
    /\ warned => reload.load.maint

(* autoResumeTrigger, and the guard of startAutomaticResume. *)
FollowsUp == (reload.load.resume \/ reload.load.maint) /\ ~preview /\ op = NoId

LoadReturns(warned) ==
    /\ LoadReturned(warned)
    /\ reload.load.fresh
    /\ ~FollowsUp
    /\ Show(reload.load.got)
    /\ reload' = Dequeued(Settled(reload, ~warned))
    /\ Failures(One(warned))
    /\ UNCHANGED <<back, attempts, settings, opVars, calls, timers>>

(* startAutomaticResume; the next reload begins after it. *)
LoadReturnsAndResumes(warned, broken) ==
    /\ LoadReturned(warned)
    /\ reload.load.fresh
    /\ FollowsUp
    /\ view' = reload.load.got
    /\ Launch(TRUE, FALSE, Reconciled(reload.load.got), broken)
    /\ reload' = Dequeued(Settled(reload, ~warned))
    /\ Failures(One(warned) + One(broken))
    /\ UNCHANGED <<back, attempts, settings, preview, calls, timers>>

(* What was read before something newer was shown is dropped.               *)
StaleLoadReturns(warned) ==
    /\ LoadReturned(warned)
    /\ ~reload.load.fresh
    /\ reload' = Dequeued(Settled(reload, ~warned))
    /\ Failures(One(warned))
    /\ UNCHANGED <<back, attempts, view, settings, opVars, controlVars>>

LoadFails ==
    /\ Loading(reload)
    /\ reload.load.stage = "load"
    /\ Failures(1)
    /\ reload' = Dequeued(Settled(reload, FALSE))
    /\ UNCHANGED <<back, attempts, view, settings, opVars, controlVars>>

(* startupMaintenanceRetryTask *)
RetryFires ==
    /\ reload.retry
    /\ LET awake == [reload EXCEPT !.retry = FALSE] IN reload' = Dequeued(awake)
    /\ UNCHANGED <<back, attempts, view, settings, opVars, controlVars, budget>>

(* The time of the next reference refresh has come.                         *)
ReferenceIsDue ==
    /\ ~reload.due
    /\ Spend("due")
    /\ reload' = [reload EXCEPT !.due = TRUE]
    /\ UNCHANGED <<back, attempts, view, settings, opVars, controlVars>>

-----------------------------------------------------------------------------
(* The user and the timers.                                                *)

(* refresh, of the panel and of the settings. *)
Refresh ==
    /\ Spend("press")
    /\ reload' = IF Loading(reload) THEN [reload EXCEPT !.pending = TRUE]
                 ELSE Begun(reload, {"maint", "ref"})
    /\ UNCHANGED <<back, attempts, view, settings, opVars, controlVars>>

(* Mutant: not while a run is on display, whose events are to come.         *)
reloadPeriodicUnlessRunning ==
    /\ ~ShowsRunning
    /\ reload' = Asked(reload, {"ref"})
    /\ UNCHANGED <<back, attempts, view, settings, opVars, controlVars, budget>>

(* The timer arms itself again each time.                                   *)
reloadPeriodicSnapshotAsync ==
    /\ reload' = Asked(reload, {"ref"})
    /\ UNCHANGED <<back, attempts, view, settings, opVars, controlVars, budget>>

refreshReferenceSnapshotNow ==
    /\ ~reload.busy
    /\ Spend("press")
    /\ reload' = Asked([reload EXCEPT !.busy = TRUE], {"ref", "force"})
    /\ UNCHANGED <<back, attempts, view, settings, opVars, controlVars>>

Starts(follow, broken) ==
    /\ op = NoId /\ ~ShowsRunning
    /\ budget.start > 0
    /\ budget.fault >= One(broken)
    /\ budget' = [budget EXCEPT !.start = @ - 1, !.fault = @ - One(broken)]
    /\ Launch(FALSE, follow, control, broken)
    /\ reload' = Bumped(reload)
    /\ UNCHANGED <<back, attempts, view, settings, preview, calls, timers>>

(* By the user, or by the scheduler, which has interruptions followed up.   *)
startScan(follow, broken) == ~preview /\ Starts(follow, broken)

(* A scan plan that is being previewed is in nobody's way here.             *)
startRepair(broken) == Starts(FALSE, broken)

previewAndStartScan ==
    /\ ~preview /\ op = NoId /\ ~ShowsRunning
    /\ Spend("press")
    /\ preview' = TRUE
    /\ UNCHANGED <<back, attempts, view, reload, settings, op, procs, controlVars>>

(* The plan is refused, or what is on display forbids a start by now.       *)
PreviewReturns ==
    /\ preview
    /\ preview' = FALSE
    /\ UNCHANGED <<back, attempts, view, reload, settings, op, procs, controlVars, budget>>

PreviewStarts(broken) ==
    /\ preview
    /\ op = NoId /\ ~ShowsRunning
    /\ preview' = FALSE
    /\ Launch(FALSE, FALSE, control, broken)
    /\ reload' = Bumped(reload)
    /\ Failures(One(broken))
    /\ UNCHANGED <<back, attempts, view, settings, calls, timers>>

(* The answer; the guard of the button held when the user pressed it.       *)
dismissResumableRun ==
    /\ Spend("settings")
    /\ back' = IF back.run \in {"interrupted", "paused"} THEN Moved("none") ELSE back
    /\ reload' = Asked(reload, {"maint", "ref"})
    /\ UNCHANGED <<attempts, view, settings, opVars, controlVars>>

(* A settings command has saved, and taken a snapshot.                      *)
SettingsAreSaved ==
    /\ settings = NoSnapshot
    /\ Spend("settings")
    /\ back' = Moved(back.run)
    /\ settings' = back'
    /\ UNCHANGED <<attempts, view, reload, opVars, controlVars>>

acceptAuthoritativeSnapshot ==
    /\ settings # NoSnapshot
    /\ Show(settings)
    /\ settings' = NoSnapshot
    /\ reload' = Bumped(reload)
    /\ UNCHANGED <<back, attempts, opVars, calls, timers, budget>>

requestScanControl(action) ==
    /\ op # NoId \/ ShowsRunning
    /\ control = NoControl
    /\ Spend("control")
    /\ \E id \in Unused :
         /\ control' = [id |-> id, action |-> action, at |-> back.at]
         /\ calls' = calls \cup {id}
         /\ timers' = timers \cup {id}
    /\ UNCHANGED <<back, attempts, view, reload, settings, opVars>>

(* Mutant: only a request of an operation of the app is cleared.            *)
ClearedOfOperation(id) == IF control.id = id /\ op # NoId THEN NoControl ELSE control

(* clearPendingScanControl(requestID) *)
Cleared(id) == IF control.id = id THEN NoControl ELSE control

ControlIsAnswered(id, ok) ==
    /\ id \in calls
    /\ calls' = calls \ {id}
    /\ control' = IF ok THEN control ELSE Cleared(id)
    /\ UNCHANGED <<back, attempts, view, reload, settings, opVars, timers, budget>>

ControlTimesOut(id) ==
    /\ id \in timers
    /\ timers' = timers \ {id}
    /\ control' = Cleared(id)
    /\ UNCHANGED <<back, attempts, view, reload, settings, opVars, calls, budget>>

-----------------------------------------------------------------------------
(* The streaming processes, and what the app hears of them.                *)

Becomes(p, q) == procs' = (procs \ {p}) \cup {q}

LockIsHeld == \E p \in procs : p.place = "running"

(* The backend begins to work, or refuses, or has nothing to do.            *)
ProcessStarts(p) ==
    /\ p.place = "launched"
    /\ ~LockIsHeld
    /\ p.auto => back.run = "interrupted" /\ attempts < AttemptLimit
    /\ back' = Moved("running")
    /\ Becomes(p, [p EXCEPT !.place = "running", !.out = back'])
    /\ attempts' = IF p.auto THEN attempts + 1 ELSE 0
    /\ UNCHANGED <<view, reload, settings, op, preview, controlVars, budget>>

ProcessRefuses(p) ==
    /\ p.place = "launched"
    /\ \/ LockIsHeld
       \/ p.auto /\ (back.run # "interrupted" \/ attempts = AttemptLimit)
    /\ Becomes(p, [p EXCEPT !.place = "ended", !.out = back])
    /\ UNCHANGED <<back, attempts, view, reload, settings, op, preview, controlVars, budget>>

ProcessReports(p) ==
    /\ p.place = "running"
    /\ p.out = NoSnapshot
    /\ Spend("change")
    /\ back' = Moved("running")
    /\ Becomes(p, [p EXCEPT !.out = back'])
    /\ UNCHANGED <<attempts, view, reload, settings, op, preview, controlVars>>

(* It is through, it was paused or stopped, or it was killed.               *)
ProcessEnds(p) ==
    /\ p.place = "running"
    /\ p.out = NoSnapshot
    /\ \E run \in {"none", "interrupted", "paused"} : back' = Moved(run)
    /\ Becomes(p, [p EXCEPT !.place = "ended", !.out = back'])
    /\ UNCHANGED <<attempts, view, reload, settings, op, preview, controlVars, budget>>

(* consume(event:operationID:); an event with no snapshot changes only the  *)
(* runtime of the one on display.  The follow-up of an automatic resumption *)
(* is decided by its auto-resume.started.                                   *)
consume(p) ==
    /\ p.out # NoSnapshot
    /\ Becomes(p, [p EXCEPT !.out = NoSnapshot,
                            !.follow = @ \/ (p.auto /\ p.place = "running")])
    /\ IF op = p.id
       THEN /\ reload' = Bumped(reload)
            /\ view' \in (IF view = NoSnapshot THEN {view, p.out} ELSE {p.out})
       ELSE UNCHANGED <<reload, view>>
    /\ UNCHANGED <<back, attempts, settings, op, preview, controlVars, budget>>

(* Mutant: every automatic resumption is followed up.                       *)
FollowUpAlways(p) == IF p.follow \/ p.auto THEN {"resume"} ELSE {}

FollowUp(p) == IF p.follow THEN {"resume"} ELSE {}

(* completeBridgeOperation, and the reload behind it. *)
Complete(p) ==
    /\ p.place = "ended"
    /\ p.out = NoSnapshot
    /\ procs' = procs \ {p}
    /\ IF op = p.id
       THEN /\ op' = NoId
            /\ control' = NoControl
            /\ LET ended == [Bumped(reload) EXCEPT !.owed = @ \/ FollowUp(p) # {}]
               IN reload' = Asked(ended, {"ref"} \cup FollowUp(p)
                                         \cup (IF p.auto THEN {} ELSE {"maint"}))
       ELSE UNCHANGED <<op, control, reload>>
    /\ UNCHANGED <<back, attempts, view, settings, preview, calls, timers, budget>>

-----------------------------------------------------------------------------
Reloads ==
    \/ LoadReads
    \/ CacheReturns \/ CacheFails
    \/ \E warned \in BOOLEAN : LoadReturns(warned) \/ StaleLoadReturns(warned)
    \/ \E warned, broken \in BOOLEAN : LoadReturnsAndResumes(warned, broken)
    \/ LoadFails
    \/ RetryFires

Asks ==
    \/ ReferenceIsDue
    \/ Refresh \/ reloadPeriodicSnapshotAsync \/ refreshReferenceSnapshotNow
    \/ \E follow, broken \in BOOLEAN : startScan(follow, broken)
    \/ \E broken \in BOOLEAN : startRepair(broken)
    \/ previewAndStartScan \/ PreviewReturns
    \/ \E broken \in BOOLEAN : PreviewStarts(broken)
    \/ dismissResumableRun \/ SettingsAreSaved \/ acceptAuthoritativeSnapshot

Controls ==
    \/ \E action \in {"pause", "stop"} : requestScanControl(action)
    \/ \E id \in Ids, ok \in BOOLEAN : ControlIsAnswered(id, ok)
    \/ \E id \in Ids : ControlTimesOut(id)

Streams ==
    \E p \in procs :
        \/ ProcessStarts(p) \/ ProcessRefuses(p) \/ ProcessReports(p)
        \/ ProcessEnds(p) \/ consume(p) \/ Complete(p)

Next == Reloads \/ Asks \/ Controls \/ Streams

Spec == Init /\ [][Next]_vars

(* Every await returns, every timer fires, every process gets on.  Nothing  *)
(* is assumed of the user.                                                  *)
Fairness ==
    /\ WF_vars(Reloads)
    /\ WF_vars(RetryFires)
    /\ WF_vars(reloadPeriodicSnapshotAsync)
    /\ WF_vars(PreviewReturns \/ \E broken \in BOOLEAN : PreviewStarts(broken))
    /\ WF_vars(acceptAuthoritativeSnapshot)
    /\ WF_vars(Streams)
    /\ \A id \in Ids : WF_vars(ControlTimesOut(id))

FairSpec == Spec /\ Fairness

-----------------------------------------------------------------------------
(* Properties.                                                             *)

(* The operation that blocks every other start is a process whose end the   *)
(* app will hear of.                                                        *)
OperationIsAlive == op # NoId => \E p \in procs : p.id = op

(* A reload that a newer event, settings answer or start overtook never     *)
(* puts an older state back on display.                                     *)
ReloadNeverGoesBack ==
    [][(Loading(reload) /\ view # NoSnapshot /\ view' = reload.load.got /\ Reloads)
           => view'.at >= view.at]_vars

(* Once the start-up maintenance was tried it is tried until it succeeded   *)
(* or its attempts are used up, whatever else reloads meanwhile.            *)
MaintenanceEnds == reload.tries > 0 ~> (reload.done \/ reload.tries = MaxAttempts)

(* A run that asked for it is followed by a reload that looks for an        *)
(* interrupted run, also when another reload is in flight as it ends.       *)
InterruptionIsFollowed == reload.owed ~> ~reload.owed

(* The refresh button, and the pause and stop buttons, come back.           *)
ButtonsReturn ==
    /\ reload.busy ~> ~reload.busy
    /\ control # NoControl ~> control = NoControl

(* The app does not go on for ever to launch automatic resumptions.         *)
AutoResumesEnd == <>[](\A p \in procs : ~p.auto)

(* When the backend comes to rest, the app ends up showing how.             *)
ViewCatchesUp == <>[](view = back)

=============================================================================
