-------------------------- MODULE AppSessionProofs --------------------------
(* Type correctness of the app's session store, that the operation which   *)
(* blocks other starts is alive, and that a reload never shows an older     *)
(* state than the one on display.                                          *)
EXTENDS AppSession, TLAPS

USE SessionAssumption

-----------------------------------------------------------------------------
(* The reloading state stays one, whatever is done to it.                  *)

LEMMA BumpedType ==
    ASSUME NEW s \in Reloading
    PROVE  Bumped(s) \in Reloading
  BY DEF Bumped, Loading, Reloading, Load

LEMMA BegunType ==
    ASSUME NEW s \in Reloading, NEW wishes \in SUBSET Wish
    PROVE  Begun(s, wishes) \in Reloading
  <1> DEFINE ref   == "ref" \in wishes /\ (s.due \/ "force" \in wishes)
             maint == ~ref /\ "maint" \in wishes /\ CanRetry(s)
             later == ref /\ "maint" \in wishes
             load  == [maint |-> maint, ref |-> ref, resume |-> "resume" \in wishes,
                       fresh |-> TRUE, got |-> NoSnapshot,
                       stage |-> IF view = NoSnapshot /\ (maint \/ ref) THEN "cache" ELSE "load"]
  <1>1. load \in Load
    BY DEF Load
  <1>2. (IF maint THEN s.tries + 1 ELSE s.tries) \in 0..MaxAttempts
    BY DEF CanRetry, Reloading
  <1>3. (IF later THEN s.wishes \cup {"maint"} ELSE s.wishes) \in SUBSET Wish
    BY DEF Reloading, Wish
  <1> HIDE DEF load
  <1>4. Begun(s, wishes) =
          [s EXCEPT !.load    = load,
                    !.due     = @ /\ ~ref,
                    !.busy    = @ \/ ref,
                    !.tries   = IF maint THEN @ + 1 ELSE @,
                    !.pending = @ \/ later,
                    !.wishes  = IF later THEN @ \cup {"maint"} ELSE @,
                    !.owed    = @ /\ "resume" \notin wishes]
    BY DEF Begun, load
  <1> HIDE DEF ref, maint, later
  <1>5. QED
    BY <1>1, <1>2, <1>3, <1>4 DEF Reloading

LEMMA QueuedType ==
    ASSUME NEW s \in Reloading, NEW wishes \in SUBSET Wish
    PROVE  Queued(s, wishes) \in Reloading
  BY DEF Queued, Reloading

LEMMA AskedType ==
    ASSUME NEW s \in Reloading, NEW wishes \in SUBSET Wish
    PROVE  Asked(s, wishes) \in Reloading
  BY BegunType, QueuedType DEF Asked

LEMMA DequeuedType ==
    ASSUME NEW s \in Reloading
    PROVE  Dequeued(s) \in Reloading
  <1> DEFINE t == [s EXCEPT !.pending = FALSE, !.wishes = {}]
  <1>1. t \in Reloading /\ s.wishes \in SUBSET Wish
    BY DEF Reloading
  <1> HIDE DEF t
  <1>2. Asked(t, s.wishes) \in Reloading
    BY <1>1, AskedType
  <1>3. QED
    BY <1>2 DEF Dequeued, t

LEMMA SettledType ==
    ASSUME NEW s \in Reloading, NEW maintained \in BOOLEAN, Loading(s)
    PROVE  Settled(s, maintained) \in Reloading
  <1>1. s.load \in Load
    BY DEF Loading, Reloading
  <1> DEFINE again == s.load.maint /\ ~maintained /\ CanRetry(s)
  <1>2. Settled(s, maintained) =
          [s EXCEPT !.load    = NoLoad,
                    !.done    = @ \/ (s.load.maint /\ maintained),
                    !.busy    = @ /\ ~s.load.ref,
                    !.pending = @ \/ again,
                    !.wishes  = IF again THEN @ \cup {"maint"} ELSE @,
                    !.retry   = @ \/ again]
    BY DEF Settled
  <1>3. (IF again THEN s.wishes \cup {"maint"} ELSE s.wishes) \in SUBSET Wish
    BY DEF Reloading, Wish
  <1>4. /\ (s.retry \/ again) \in BOOLEAN
        /\ (s.pending \/ again) \in BOOLEAN
        /\ (s.done \/ (s.load.maint /\ maintained)) \in BOOLEAN
        /\ (s.busy /\ ~s.load.ref) \in BOOLEAN
    OBVIOUS
  <1> HIDE DEF again
  <1>5. QED
    BY <1>2, <1>3, <1>4 DEF Reloading

-----------------------------------------------------------------------------
(* Type correctness.                                                       *)

LEMMA LaunchType ==
    ASSUME TypeOK, NEW auto \in BOOLEAN, NEW follow \in BOOLEAN,
           NEW pending \in Pending \cup {NoControl}, NEW broken \in BOOLEAN,
           Launch(auto, follow, pending, broken)
    PROVE  /\ op' \in Ids \cup {NoId}
           /\ procs' \subseteq Process
           /\ control' \in Pending \cup {NoControl}
  BY DEF Launch, TypeOK, Unused, Process

LEMMA MovedType ==
    ASSUME TypeOK, NEW run \in Run
    PROVE  Moved(run) \in Snapshot
  BY DEF TypeOK, Moved, Snapshot

LEMMA ReloadsType ==
    ASSUME TypeOK, Reloads
    PROVE  TypeOK'
  <1> USE DEF TypeOK
  <1>1. CASE LoadReads
    BY <1>1 DEF LoadReads, Loading, Reloading, Load, opVars, controlVars
  <1>2. CASE CacheReturns
    <2>1. reload' \in Reloading
      BY <1>2 DEF CacheReturns, Loading, Reloading, Load
    <2>2. reload.load.got \in Snapshot
      BY <1>2 DEF CacheReturns, Loading, Reloading, Load
    <2>3. /\ view' \in Snapshot \cup {NoSnapshot}
          /\ control' \in Pending \cup {NoControl}
      BY <1>2, <2>2 DEF CacheReturns, Show, Reconciled
    <2>4. QED
      BY <1>2, <2>1, <2>3 DEF CacheReturns, opVars
  <1>3. CASE CacheFails
    <2>1. reload' \in Reloading
      BY <1>3 DEF CacheFails, Loading, Reloading, Load
    <2>2. budget' \in [Limits -> Nat]
      BY <1>3 DEF CacheFails, Failures, Limits
    <2>3. QED
      BY <1>3, <2>1, <2>2 DEF CacheFails, opVars, controlVars
  <1>4. ASSUME NEW warned \in BOOLEAN, LoadReturned(warned)
        PROVE  /\ reload.load.got \in Snapshot
               /\ Dequeued(Settled(reload, ~warned)) \in Reloading
    <2>1. Loading(reload) /\ reload.load.got \in Snapshot
      BY <1>4 DEF LoadReturned, Loading, Reloading, Load
    <2>2. Settled(reload, ~warned) \in Reloading
      BY <2>1, SettledType
    <2>3. QED
      BY <2>1, <2>2, DequeuedType
  <1>5. ASSUME NEW n \in Nat, Failures(n)
        PROVE  budget' \in [Limits -> Nat]
    BY <1>5 DEF Failures, Limits
  <1>6. \A b \in BOOLEAN : One(b) \in Nat
    BY DEF One
  <1>7. ASSUME NEW warned \in BOOLEAN, LoadReturns(warned)
        PROVE  TypeOK'
    BY <1>4, <1>5, <1>6, <1>7 DEF LoadReturns, Show, Reconciled, opVars
  <1>8. ASSUME NEW warned \in BOOLEAN, NEW broken \in BOOLEAN,
               LoadReturnsAndResumes(warned, broken)
        PROVE  TypeOK'
    <2>1. /\ op' \in Ids \cup {NoId}
          /\ procs' \subseteq Process
          /\ control' \in Pending \cup {NoControl}
      <3>1. Reconciled(reload.load.got) \in Pending \cup {NoControl}
        BY DEF Reconciled
      <3>2. QED
        BY <1>8, <3>1, LaunchType DEF LoadReturnsAndResumes
    <2>2. One(warned) + One(broken) \in Nat
      BY DEF One
    <2>3. QED
      BY <1>4, <1>5, <1>8, <2>1, <2>2 DEF LoadReturnsAndResumes
  <1>9. ASSUME NEW warned \in BOOLEAN, StaleLoadReturns(warned)
        PROVE  TypeOK'
    BY <1>4, <1>5, <1>6, <1>9 DEF StaleLoadReturns, opVars, controlVars
  <1>10. CASE LoadFails
    <2>1. Dequeued(Settled(reload, FALSE)) \in Reloading
      BY <1>10, SettledType, DequeuedType DEF LoadFails
    <2>2. QED
      BY <1>5, <1>10, <2>1 DEF LoadFails, opVars, controlVars
  <1>11. CASE RetryFires
    <2>1. [reload EXCEPT !.retry = FALSE] \in Reloading
      BY DEF Reloading
    <2>2. QED
      BY <1>11, <2>1, DequeuedType DEF RetryFires, opVars, controlVars
  <1>12. QED
    BY <1>1, <1>2, <1>3, <1>7, <1>8, <1>9, <1>10, <1>11 DEF Reloads

LEMMA AsksType ==
    ASSUME TypeOK, Asks
    PROVE  TypeOK'
  <1> USE DEF TypeOK
  <1>1. ASSUME NEW limit \in Limits, Spend(limit)
        PROVE  budget' \in [Limits -> Nat]
    BY <1>1 DEF Spend
  <1>2. ASSUME NEW n \in Nat, Failures(n)
        PROVE  budget' \in [Limits -> Nat]
    BY <1>2 DEF Failures, Limits
  <1>3. \A b \in BOOLEAN : One(b) \in Nat
    BY DEF One
  <1>4. Bumped(reload) \in Reloading
    BY BumpedType
  <1>5. \A wishes \in SUBSET Wish : /\ Asked(reload, wishes) \in Reloading
                                    /\ Begun(reload, wishes) \in Reloading
    BY AskedType, BegunType
  <1>6. {"maint", "ref"} \in SUBSET Wish /\ {"ref"} \in SUBSET Wish
    BY DEF Wish
  <1>7. CASE ReferenceIsDue
    BY <1>1, <1>7 DEF ReferenceIsDue, Limits, Reloading, opVars, controlVars
  <1>8. CASE Refresh
    <2>1. [reload EXCEPT !.pending = TRUE] \in Reloading
      BY DEF Reloading
    <2>2. QED
      BY <1>1, <1>5, <1>6, <1>8, <2>1 DEF Refresh, Limits, opVars, controlVars
  <1>9. CASE reloadPeriodicSnapshotAsync
    BY <1>5, <1>6, <1>9 DEF reloadPeriodicSnapshotAsync, opVars, controlVars
  <1>10. CASE refreshReferenceSnapshotNow
    <2>1. [reload EXCEPT !.busy = TRUE] \in Reloading /\ {"ref", "force"} \in SUBSET Wish
      BY DEF Reloading, Wish
    <2>2. Asked([reload EXCEPT !.busy = TRUE], {"ref", "force"}) \in Reloading
      BY <2>1, AskedType
    <2>3. QED
      BY <1>1, <1>10, <2>2 DEF refreshReferenceSnapshotNow, Limits, opVars, controlVars
  <1>11. ASSUME NEW follow \in BOOLEAN, NEW broken \in BOOLEAN, Starts(follow, broken)
         PROVE  TypeOK'
    <2> DEFINE spent == [budget EXCEPT !.start = @ - 1]
    <2>0. spent \in [Limits -> Nat] /\ spent.fault = budget.fault
      BY <1>11 DEF Starts, Limits
    <2>1. budget' \in [Limits -> Nat]
      <3>1. budget' = [spent EXCEPT !.fault = @ - One(broken)]
        BY <1>11, <2>0 DEF Starts
      <3>2. budget.fault - One(broken) \in Nat
        BY <1>11 DEF Starts, One, Limits
      <3> HIDE DEF spent
      <3>3. QED
        BY <2>0, <3>1, <3>2 DEF Limits
    <2>2. /\ op' \in Ids \cup {NoId}
          /\ procs' \subseteq Process
          /\ control' \in Pending \cup {NoControl}
      BY <1>11, LaunchType DEF Starts
    <2>3. QED
      BY <1>4, <1>11, <2>1, <2>2 DEF Starts
  <1>12. CASE previewAndStartScan
    BY <1>1, <1>12 DEF previewAndStartScan, Limits, controlVars
  <1>13. CASE PreviewReturns
    BY <1>13 DEF PreviewReturns, controlVars
  <1>14. ASSUME NEW broken \in BOOLEAN, PreviewStarts(broken)
         PROVE  TypeOK'
    <2>1. /\ op' \in Ids \cup {NoId}
          /\ procs' \subseteq Process
          /\ control' \in Pending \cup {NoControl}
      BY <1>14, LaunchType DEF PreviewStarts
    <2>2. QED
      BY <1>2, <1>3, <1>4, <1>14, <2>1 DEF PreviewStarts
  <1>15. CASE dismissResumableRun
    <2>1. back' \in Snapshot
      BY <1>15, MovedType DEF dismissResumableRun, Run
    <2>2. QED
      BY <1>1, <1>5, <1>6, <1>15, <2>1 DEF dismissResumableRun, Limits, opVars, controlVars
  <1>16. CASE SettingsAreSaved
    <2>1. back' \in Snapshot
      BY <1>16, MovedType DEF SettingsAreSaved, Snapshot
    <2>2. QED
      BY <1>1, <1>16, <2>1 DEF SettingsAreSaved, Limits, opVars, controlVars
  <1>17. CASE acceptAuthoritativeSnapshot
    BY <1>4, <1>17 DEF acceptAuthoritativeSnapshot, Show, Reconciled, opVars
  <1>18. QED
    BY <1>7, <1>8, <1>9, <1>10, <1>11, <1>12, <1>13, <1>14, <1>15, <1>16, <1>17 DEF Asks, startScan, startRepair

LEMMA ControlsType ==
    ASSUME TypeOK, Controls
    PROVE  TypeOK'
  <1> USE DEF TypeOK
  <1>1. ASSUME NEW action \in {"pause", "stop"}, requestScanControl(action)
        PROVE  TypeOK'
    <2>1. budget' \in [Limits -> Nat]
      BY <1>1 DEF requestScanControl, Spend, Limits
    <2>2. PICK id \in Unused : /\ control' = [id |-> id, action |-> action, at |-> back.at]
                               /\ calls' = calls \cup {id}
                               /\ timers' = timers \cup {id}
      BY <1>1 DEF requestScanControl
    <2>3. id \in Ids /\ back.at \in Nat
      BY DEF Unused, Snapshot
    <2>4. QED
      BY <1>1, <2>1, <2>2, <2>3 DEF requestScanControl, opVars, Pending
  <1>2. \A id \in Ids : Cleared(id) \in Pending \cup {NoControl}
    BY DEF Cleared
  <1>3. ASSUME NEW id \in Ids, NEW ok \in BOOLEAN, ControlIsAnswered(id, ok)
        PROVE  TypeOK'
    BY <1>2, <1>3 DEF ControlIsAnswered, opVars
  <1>4. ASSUME NEW id \in Ids, ControlTimesOut(id)
        PROVE  TypeOK'
    BY <1>2, <1>4 DEF ControlTimesOut, opVars
  <1>5. QED
    BY <1>1, <1>3, <1>4 DEF Controls

LEMMA StreamsType ==
    ASSUME TypeOK, Streams
    PROVE  TypeOK'
  <1> USE DEF TypeOK
  <1>1. PICK p \in procs : \/ ProcessStarts(p) \/ ProcessRefuses(p) \/ ProcessReports(p)
                           \/ ProcessEnds(p) \/ consume(p) \/ Complete(p)
    BY DEF Streams
  <1>2. p \in Process
    OBVIOUS
  <1>3. ASSUME NEW q \in Process, Becomes(p, q)
        PROVE  procs' \subseteq Process
    BY <1>3 DEF Becomes
  <1>4. CASE ProcessStarts(p)
    <2>1. back' \in Snapshot
      BY <1>4, MovedType DEF ProcessStarts, Run
    <2>2. [p EXCEPT !.place = "running", !.out = back'] \in Process
      BY <1>2, <2>1 DEF Process
    <2>3. attempts' \in 0..AttemptLimit
      BY <1>4 DEF ProcessStarts
    <2>4. QED
      BY <1>3, <1>4, <2>1, <2>2, <2>3 DEF ProcessStarts, controlVars
  <1>5. CASE ProcessRefuses(p)
    <2>1. [p EXCEPT !.place = "ended", !.out = back] \in Process
      BY <1>2 DEF Process
    <2>2. QED
      BY <1>3, <1>5, <2>1 DEF ProcessRefuses, controlVars
  <1>6. CASE ProcessReports(p)
    <2>1. back' \in Snapshot
      BY <1>6, MovedType DEF ProcessReports, Run
    <2>2. [p EXCEPT !.out = back'] \in Process
      BY <1>2, <2>1 DEF Process
    <2>3. budget' \in [Limits -> Nat]
      BY <1>6 DEF ProcessReports, Spend, Limits
    <2>4. QED
      BY <1>3, <1>6, <2>1, <2>2, <2>3 DEF ProcessReports, controlVars
  <1>7. CASE ProcessEnds(p)
    <2>1. back' \in Snapshot
      BY <1>7, MovedType DEF ProcessEnds, Run
    <2>2. [p EXCEPT !.place = "ended", !.out = back'] \in Process
      BY <1>2, <2>1 DEF Process
    <2>3. QED
      BY <1>3, <1>7, <2>1, <2>2 DEF ProcessEnds, controlVars
  <1>8. CASE consume(p)
    <2>1. [p EXCEPT !.out = NoSnapshot,
                    !.follow = @ \/ (p.auto /\ p.place = "running")] \in Process
      BY <1>2 DEF Process
    <2>2. p.out \in Snapshot
      BY <1>2, <1>8 DEF consume, Process
    <2>3. reload' \in Reloading /\ view' \in Snapshot \cup {NoSnapshot}
      BY <1>8, <2>2, BumpedType DEF consume
    <2>4. QED
      BY <1>3, <1>8, <2>1, <2>3 DEF consume, controlVars
  <1>9. CASE Complete(p)
    <2> DEFINE bumped == Bumped(reload)
               ended  == [bumped EXCEPT !.owed = @ \/ FollowUp(p) # {}]
               wishes == {"ref"} \cup FollowUp(p) \cup (IF p.auto THEN {} ELSE {"maint"})
    <2>1. bumped \in Reloading
      BY BumpedType
    <2> HIDE DEF bumped
    <2>2. ended \in Reloading
      BY <2>1 DEF Reloading
    <2>3. wishes \in SUBSET Wish
      BY DEF FollowUp, Wish
    <2> HIDE DEF ended, wishes
    <2>4. Asked(ended, wishes) \in Reloading
      BY <2>2, <2>3, AskedType
    <2>5. reload' \in Reloading /\ op' \in Ids \cup {NoId} /\ control' \in Pending \cup {NoControl}
      BY <1>9, <2>4 DEF Complete, ended, wishes, bumped
    <2>6. procs' \subseteq Process
      BY <1>9 DEF Complete
    <2>7. QED
      BY <1>9, <2>5, <2>6 DEF Complete
  <1>10. QED
    BY <1>1, <1>4, <1>5, <1>6, <1>7, <1>8, <1>9

(* Whatever the backend, the user and the timers do: no attempt beyond the  *)
(* last one, no flag without its meaning, every process and request known.  *)
THEOREM TypeCorrect == Spec => []TypeOK
  <1>1. Init => TypeOK
    <2> SUFFICES ASSUME Init PROVE TypeOK
      OBVIOUS
    <2>1. PICK due \in BOOLEAN :
            LET idle == [load |-> NoLoad, pending |-> FALSE, wishes |-> {},
                         tries |-> 0, done |-> FALSE, retry |-> FALSE,
                         due |-> due, busy |-> FALSE, owed |-> FALSE]
            IN reload = Begun(idle, {"maint", "ref"})
      BY DEF Init
    <2> DEFINE idle == [load |-> NoLoad, pending |-> FALSE, wishes |-> {},
                        tries |-> 0, done |-> FALSE, retry |-> FALSE,
                        due |-> due, busy |-> FALSE, owed |-> FALSE]
    <2>2. idle \in Reloading
      BY DEF Reloading
    <2> HIDE DEF idle
    <2>3. {"maint", "ref"} \in SUBSET Wish
      BY DEF Wish
    <2>4. reload \in Reloading
      BY <2>1, <2>2, <2>3, BegunType DEF idle
    <2>5. back \in Snapshot
      BY DEF Init, Snapshot, Run
    <2>6. budget \in [Limits -> Nat] /\ attempts \in 0..AttemptLimit
      BY DEF Init
    <2>7. QED
      BY <2>4, <2>5, <2>6 DEF Init, TypeOK
  <1>2. TypeOK /\ [Next]_vars => TypeOK'
    <2>1. ASSUME TypeOK, UNCHANGED vars PROVE TypeOK'
      BY <2>1 DEF TypeOK, vars, opVars, controlVars
    <2>2. QED
      BY <2>1, ReloadsType, AsksType, ControlsType, StreamsType DEF Next
  <1>3. QED
    BY <1>1, <1>2, PTL DEF Spec

-----------------------------------------------------------------------------
(* The operation is alive.                                                 *)

(* Whatever fails as a process is launched and in whatever order processes  *)
(* end: the operation that keeps the user from starting another one is a    *)
(* process that has not completed.                                          *)
THEOREM OperationLives == Spec => []OperationIsAlive
  <1> USE DEF OperationIsAlive
  <1>1. Init => OperationIsAlive
    BY DEF Init
  <1>2. TypeOK /\ OperationIsAlive /\ [Next]_vars => OperationIsAlive'
    <2> SUFFICES ASSUME TypeOK, OperationIsAlive, [Next]_vars PROVE OperationIsAlive'
      OBVIOUS
    <2>1. CASE UNCHANGED <<op, procs>>
      BY <2>1
    <2>2. ASSUME NEW auto, NEW follow, NEW pending, NEW broken,
                 Launch(auto, follow, pending, broken)
          PROVE  OperationIsAlive'
      <3>1. PICK id \in Unused :
              LET p == [id |-> id, auto |-> auto, follow |-> follow,
                        place |-> "launched", out |-> NoSnapshot]
              IN op' = NoId \/ (op' = id /\ p \in procs')
        BY <2>2 DEF Launch
      <3> DEFINE p == [id |-> id, auto |-> auto, follow |-> follow,
                       place |-> "launched", out |-> NoSnapshot]
      <3>2. p.id = id
        OBVIOUS
      <3> HIDE DEF p
      <3>3. QED
        BY <3>1, <3>2 DEF p
    <2>3. ASSUME NEW p \in procs, NEW q, q.id = p.id, Becomes(p, q), op' = op
          PROVE  OperationIsAlive'
      BY <2>3 DEF Becomes
    <2>4. CASE Reloads
      <3>1. (\E warned, broken \in BOOLEAN : LoadReturnsAndResumes(warned, broken))
              => OperationIsAlive'
        BY <2>2 DEF LoadReturnsAndResumes
      <3>2. (\E warned \in BOOLEAN : LoadReturns(warned) \/ StaleLoadReturns(warned))
              => OperationIsAlive'
        BY <2>1 DEF LoadReturns, StaleLoadReturns, opVars
      <3>3. LoadReads \/ CacheReturns \/ CacheFails \/ LoadFails \/ RetryFires => OperationIsAlive'
        BY <2>1 DEF LoadReads, CacheReturns, CacheFails, LoadFails, RetryFires, opVars
      <3>4. QED
        BY <2>4, <3>1, <3>2, <3>3 DEF Reloads
    <2>5. CASE Asks
      <3>1. (\E follow, broken \in BOOLEAN : Starts(follow, broken)) => OperationIsAlive'
        BY <2>2 DEF Starts
      <3>2. (\E broken \in BOOLEAN : PreviewStarts(broken)) => OperationIsAlive'
        BY <2>2 DEF PreviewStarts
      <3>3. QED
        BY <2>1, <2>5, <3>1, <3>2 DEF Asks, startScan, startRepair, ReferenceIsDue, Refresh,
           reloadPeriodicSnapshotAsync, refreshReferenceSnapshotNow, previewAndStartScan,
           PreviewReturns, dismissResumableRun, SettingsAreSaved,
           acceptAuthoritativeSnapshot, opVars
    <2>6. CASE Controls
      BY <2>1, <2>6 DEF Controls, requestScanControl, ControlIsAnswered, ControlTimesOut, opVars
    <2>7. CASE Streams
      <3>1. PICK p \in procs : \/ ProcessStarts(p) \/ ProcessRefuses(p) \/ ProcessReports(p)
                               \/ ProcessEnds(p) \/ consume(p) \/ Complete(p)
        BY <2>7 DEF Streams
      <3>2. CASE Complete(p)
        BY <3>2 DEF Complete
      <3>3. \A place, out, follow :
              /\ [p EXCEPT !.place = place, !.out = out].id = p.id
              /\ [p EXCEPT !.out = out].id = p.id
              /\ [p EXCEPT !.out = out, !.follow = follow].id = p.id
        BY DEF TypeOK, Process
      <3>4. CASE ProcessStarts(p)
        BY <2>3, <3>3, <3>4 DEF ProcessStarts
      <3>5. CASE ProcessRefuses(p)
        BY <2>3, <3>3, <3>5 DEF ProcessRefuses
      <3>6. CASE ProcessReports(p)
        BY <2>3, <3>3, <3>6 DEF ProcessReports
      <3>7. CASE ProcessEnds(p)
        BY <2>3, <3>3, <3>7 DEF ProcessEnds
      <3>8. CASE consume(p)
        BY <2>3, <3>3, <3>8 DEF consume
      <3>9. QED
        BY <3>1, <3>2, <3>4, <3>5, <3>6, <3>7, <3>8
    <2>8. CASE UNCHANGED vars
      BY <2>1, <2>8 DEF vars, opVars
    <2>9. QED
      BY <2>4, <2>5, <2>6, <2>7, <2>8 DEF Next
  <1>3. QED
    BY <1>1, <1>2, TypeCorrect, PTL DEF Spec

-----------------------------------------------------------------------------
(* A reload never goes back.                                               *)

(* What a reload has read that nothing overtook is at least as new as what  *)
(* is on display; and nothing is newer than the backend.                    *)
ReadInTime(s) ==
    (Loading(s) /\ s.load.got # NoSnapshot) =>
        /\ s.load.got.at =< back.at
        /\ s.load.fresh /\ view # NoSnapshot => view.at =< s.load.got.at

NotAhead(snap) == snap # NoSnapshot => snap.at =< back.at

InTime ==
    /\ ReadInTime(reload)
    /\ NotAhead(view)
    /\ NotAhead(settings)
    /\ \A p \in procs : NotAhead(p.out)

(* The reload has not read anything yet. *)
Quiet(s) == Loading(s) => s.load.got = NoSnapshot

LEMMA BegunQuiet ==
    ASSUME NEW s \in Reloading, NEW wishes
    PROVE  Quiet(Begun(s, wishes))
  BY DEF Begun, Quiet, Reloading, Loading

(* Asking changes nothing of a reload in flight.                            *)
LEMMA AskedKeeps ==
    ASSUME NEW s \in Reloading, NEW wishes
    PROVE  Quiet(Asked(s, wishes)) \/ Asked(s, wishes).load = s.load
  BY BegunQuiet DEF Asked, Queued, Reloading

LEMMA DequeuedKeeps ==
    ASSUME NEW s \in Reloading
    PROVE  Quiet(Dequeued(s)) \/ Dequeued(s).load = s.load
  <1> DEFINE t == [s EXCEPT !.pending = FALSE, !.wishes = {}]
  <1>1. t \in Reloading /\ t.load = s.load
    BY DEF Reloading
  <1> HIDE DEF t
  <1>2. Quiet(Asked(t, s.wishes)) \/ Asked(t, s.wishes).load = s.load
    BY <1>1, AskedKeeps
  <1>3. QED
    BY <1>2 DEF Dequeued, t

LEMMA SettledIsQuiet ==
    ASSUME NEW s \in Reloading, NEW maintained \in BOOLEAN, Loading(s)
    PROVE  Quiet(Dequeued(Settled(s, maintained)))
  <1>1. Settled(s, maintained) \in Reloading
    BY SettledType
  <1>2. Settled(s, maintained).load = NoLoad
    BY DEF Settled, Reloading
  <1> DEFINE t == Settled(s, maintained)
  <1> HIDE DEF t
  <1>3. QED
    BY <1>1, <1>2, DequeuedKeeps DEF t, Quiet, Loading

LEMMA BumpedIsStale ==
    ASSUME NEW s \in Reloading
    PROVE  /\ Loading(Bumped(s)) => Loading(s) /\ ~Bumped(s).load.fresh
           /\ Loading(Bumped(s)) => Bumped(s).load.got = s.load.got
  BY DEF Bumped, Loading, Reloading, Load

(* An event, a settings answer or a start overtakes the reload in flight.   *)
LEMMA BumpedInTime ==
    ASSUME TypeOK, InTime, reload' = Bumped(reload), back' = back
    PROVE  ReadInTime(reload)'
  BY BumpedIsStale DEF TypeOK, InTime, ReadInTime

LEMMA QuietInTime ==
    ASSUME Quiet(reload')
    PROVE  ReadInTime(reload)'
  BY DEF Quiet, ReadInTime, Loading

LEMMA NotAheadAdvances ==
    ASSUME TypeOK, back' = back \/ \E run \in Run : back' = Moved(run),
           NEW snap \in Snapshot \cup {NoSnapshot}, NotAhead(snap)
    PROVE  snap # NoSnapshot => snap.at =< back'.at
  <1>1. back.at \in Nat /\ back'.at \in Nat /\ back'.at >= back.at
    BY DEF TypeOK, Moved, Snapshot
  <1>2. QED
    BY <1>1 DEF NotAhead, Snapshot

(* The backend moves on at most, and the reload is not disturbed.           *)
LEMMA KeptInTime ==
    ASSUME TypeOK, InTime,
           back' = back \/ \E run \in Run : back' = Moved(run),
           Quiet(reload') \/ reload'.load = reload.load,
           view' = view
    PROVE  /\ ReadInTime(reload)'
           /\ NotAhead(view)'
  <1>1. NotAhead(view)'
    BY NotAheadAdvances DEF NotAhead, InTime, TypeOK
  <1>2. CASE Quiet(reload')
    BY <1>1, <1>2, QuietInTime
  <1>3. CASE reload'.load = reload.load
    <2>1. ASSUME Loading(reload), reload.load.got # NoSnapshot
          PROVE  reload.load.got \in Snapshot
      BY <2>1 DEF TypeOK, Reloading, Load, Loading
    <2>2. ASSUME Loading(reload), reload.load.got # NoSnapshot
          PROVE  reload.load.got.at =< back'.at
      BY <2>1, <2>2, NotAheadAdvances DEF InTime, ReadInTime, NotAhead
    <2>3. ReadInTime(reload)'
      BY <1>3, <2>2 DEF InTime, ReadInTime, Loading
    <2>4. QED
      BY <1>1, <2>3
  <1>4. QED
    BY <1>2, <1>3

LEMMA LaunchInTime ==
    ASSUME InTime, back' = back, NEW auto, NEW follow, NEW pending, NEW broken,
           Launch(auto, follow, pending, broken)
    PROVE  \A p \in procs' : NotAhead(p.out)'
  BY DEF Launch, InTime, NotAhead

LEMMA BecomesInTime ==
    ASSUME TypeOK, InTime, back' = back \/ \E run \in Run : back' = Moved(run),
           NEW p, NEW q, Becomes(p, q), q.out # NoSnapshot => q.out.at =< back'.at
    PROVE  \A r \in procs' : NotAhead(r.out)'
  <1>1. ASSUME NEW r \in procs
        PROVE  r.out # NoSnapshot => r.out.at =< back'.at
    BY NotAheadAdvances DEF InTime, TypeOK, Process
  <1>2. QED
    BY <1>1 DEF Becomes, NotAhead

LEMMA ReloadsInTime ==
    ASSUME TypeOK, InTime, Reloads
    PROVE  InTime'
  <1> USE DEF InTime
  <1>1. ASSUME UNCHANGED <<back, settings>>, Quiet(reload'), NotAhead(view'),
               \A p \in procs' : NotAhead(p.out)
        PROVE  InTime'
    BY <1>1, QuietInTime DEF NotAhead
  <1>2. CASE LoadReads
    <2>1. reload'.load.got = back /\ reload'.load.fresh = reload.load.fresh
      BY <1>2 DEF LoadReads, Loading, TypeOK, Reloading, Load
    <2>2. view # NoSnapshot => view.at =< back.at
      BY DEF NotAhead
    <2>3. ReadInTime(reload)'
      BY <1>2, <2>1, <2>2 DEF LoadReads, ReadInTime, TypeOK, Snapshot
    <2>4. QED
      BY <1>2, <2>3 DEF LoadReads, NotAhead, opVars
  <1>3. CASE CacheReturns
    <2>1. Quiet(reload')
      BY <1>3 DEF CacheReturns, Quiet, Loading, TypeOK, Reloading, Load
    <2>2. NotAhead(view')
      BY <1>3 DEF CacheReturns, Show, NotAhead, ReadInTime
    <2>3. QED
      BY <1>1, <1>3, <2>1, <2>2 DEF CacheReturns, opVars
  <1>4. CASE CacheFails
    <2>1. Quiet(reload')
      BY <1>4 DEF CacheFails, Quiet, Loading, TypeOK, Reloading, Load
    <2>2. QED
      BY <1>1, <1>4, <2>1 DEF CacheFails, opVars
  <1>5. ASSUME Loading(reload), NEW maintained \in BOOLEAN
        PROVE  Quiet(Dequeued(Settled(reload, maintained)))
    BY <1>5, SettledIsQuiet DEF TypeOK
  <1>6. ASSUME NEW warned \in BOOLEAN, LoadReturns(warned) \/ StaleLoadReturns(warned)
        PROVE  InTime'
    <2>1. Quiet(reload')
      BY <1>5, <1>6 DEF LoadReturns, StaleLoadReturns, LoadReturned
    <2>2. NotAhead(view')
      BY <1>6 DEF LoadReturns, StaleLoadReturns, LoadReturned, Show, NotAhead, ReadInTime
    <2>3. QED
      BY <1>1, <1>6, <2>1, <2>2 DEF LoadReturns, StaleLoadReturns, opVars
  <1>7. ASSUME NEW warned \in BOOLEAN, NEW broken \in BOOLEAN,
               LoadReturnsAndResumes(warned, broken)
        PROVE  InTime'
    <2>1. Quiet(reload')
      BY <1>5, <1>7 DEF LoadReturnsAndResumes, LoadReturned
    <2>2. NotAhead(view')
      BY <1>7 DEF LoadReturnsAndResumes, LoadReturned, NotAhead, ReadInTime
    <2>3. \A p \in procs' : NotAhead(p.out)
      BY <1>7 DEF LoadReturnsAndResumes, Launch, NotAhead
    <2>4. QED
      BY <1>1, <1>7, <2>1, <2>2, <2>3 DEF LoadReturnsAndResumes
  <1>8. CASE LoadFails
    BY <1>1, <1>5, <1>8 DEF LoadFails, opVars
  <1>9. CASE RetryFires
    <2> DEFINE awake == [reload EXCEPT !.retry = FALSE]
    <2>1. awake \in Reloading /\ awake.load = reload.load
      BY DEF TypeOK, Reloading
    <2> HIDE DEF awake
    <2>2. Quiet(reload') \/ reload'.load = reload.load
      BY <1>9, <2>1, DequeuedKeeps DEF RetryFires, awake
    <2>3. QED
      BY <1>9, <2>2, KeptInTime DEF RetryFires, NotAhead, opVars
  <1>10. QED
    BY <1>2, <1>3, <1>4, <1>6, <1>7, <1>8, <1>9 DEF Reloads

LEMMA AsksInTime ==
    ASSUME TypeOK, InTime, Asks
    PROVE  InTime'
  <1> USE DEF InTime
  <1>1. reload \in Reloading
    BY DEF TypeOK
  <1>2. \A wishes : Quiet(Asked(reload, wishes)) \/ Asked(reload, wishes).load = reload.load
    BY <1>1, AskedKeeps
  <1>3. ASSUME UNCHANGED <<back, view, settings, procs>>,
               Quiet(reload') \/ reload'.load = reload.load
        PROVE  InTime'
    BY <1>3, KeptInTime DEF NotAhead
  <1>4. ASSUME UNCHANGED <<back, settings>>, reload' = Bumped(reload), NotAhead(view'),
               \A p \in procs' : NotAhead(p.out)'
        PROVE  InTime'
    BY <1>4, BumpedInTime DEF NotAhead
  <1>5. CASE ReferenceIsDue
    BY <1>1, <1>3, <1>5 DEF ReferenceIsDue, Reloading, opVars
  <1>6. CASE Refresh
    <2>1. Quiet(reload') \/ reload'.load = reload.load
      BY <1>1, <1>6, BegunQuiet DEF Refresh, Reloading
    <2>2. QED
      BY <1>3, <1>6, <2>1 DEF Refresh, opVars
  <1>7. CASE reloadPeriodicSnapshotAsync
    BY <1>2, <1>3, <1>7 DEF reloadPeriodicSnapshotAsync, opVars
  <1>8. CASE refreshReferenceSnapshotNow
    <2> DEFINE busy == [reload EXCEPT !.busy = TRUE]
    <2>1. busy \in Reloading /\ busy.load = reload.load
      BY <1>1 DEF Reloading
    <2> HIDE DEF busy
    <2>2. Quiet(reload') \/ reload'.load = reload.load
      BY <1>8, <2>1, AskedKeeps DEF refreshReferenceSnapshotNow, busy
    <2>3. QED
      BY <1>3, <1>8, <2>2 DEF refreshReferenceSnapshotNow, opVars
  <1>9. ASSUME NEW follow \in BOOLEAN, NEW broken \in BOOLEAN, Starts(follow, broken)
        PROVE  InTime'
    BY <1>4, <1>9, LaunchInTime DEF Starts
  <1>10. CASE previewAndStartScan \/ PreviewReturns
    BY <1>3, <1>10 DEF previewAndStartScan, PreviewReturns
  <1>11. ASSUME NEW broken \in BOOLEAN, PreviewStarts(broken)
         PROVE  InTime'
    BY <1>4, <1>11, LaunchInTime DEF PreviewStarts
  <1>12. ASSUME back' = back \/ \E run \in Run : back' = Moved(run), UNCHANGED procs
         PROVE  \A p \in procs' : NotAhead(p.out)'
    BY <1>12, NotAheadAdvances DEF NotAhead, TypeOK, Process
  <1>13. CASE dismissResumableRun
    <2>1. back' = back \/ \E run \in Run : back' = Moved(run)
      BY <1>13 DEF dismissResumableRun, Run
    <2>2. ReadInTime(reload)' /\ NotAhead(view)'
      BY <1>2, <1>13, <2>1, KeptInTime DEF dismissResumableRun
    <2>3. NotAhead(settings)'
      BY <1>13, <2>1, NotAheadAdvances DEF dismissResumableRun, NotAhead, TypeOK
    <2>4. QED
      BY <1>12, <1>13, <2>1, <2>2, <2>3 DEF dismissResumableRun, opVars
  <1>14. CASE SettingsAreSaved
    <2>1. \E run \in Run : back' = Moved(run)
      BY <1>14 DEF SettingsAreSaved, TypeOK, Snapshot
    <2>2. ReadInTime(reload)' /\ NotAhead(view)'
      BY <1>14, <2>1, KeptInTime DEF SettingsAreSaved
    <2>3. back'.at \in Nat
      BY <2>1 DEF Moved, TypeOK, Snapshot
    <2>4. NotAhead(settings)'
      BY <1>14, <2>3 DEF SettingsAreSaved, NotAhead
    <2>5. QED
      BY <1>12, <1>14, <2>1, <2>2, <2>4 DEF SettingsAreSaved, opVars
  <1>15. CASE acceptAuthoritativeSnapshot
    <2>1. ReadInTime(reload)'
      BY <1>15, BumpedInTime DEF acceptAuthoritativeSnapshot
    <2>2. QED
      BY <1>15, <2>1 DEF acceptAuthoritativeSnapshot, Show, NotAhead, opVars
  <1>16. QED
    BY <1>5, <1>6, <1>7, <1>8, <1>9, <1>10, <1>11, <1>13, <1>14, <1>15 DEF Asks, startScan, startRepair

LEMMA StreamsInTime ==
    ASSUME TypeOK, InTime, Streams
    PROVE  InTime'
  <1> USE DEF InTime
  <1>1. PICK p \in procs : \/ ProcessStarts(p) \/ ProcessRefuses(p) \/ ProcessReports(p)
                           \/ ProcessEnds(p) \/ consume(p) \/ Complete(p)
    BY DEF Streams
  <1>2. p \in Process
    BY DEF TypeOK
  <1>3. ASSUME back' = back \/ \E run \in Run : back' = Moved(run),
               UNCHANGED <<reload, view, settings>>,
               \A q \in procs' : NotAhead(q.out)'
        PROVE  InTime'
    <2>1. ReadInTime(reload)' /\ NotAhead(view)'
      BY <1>3, KeptInTime
    <2>2. NotAhead(settings)'
      BY <1>3, NotAheadAdvances DEF NotAhead, TypeOK
    <2>3. QED
      BY <1>3, <2>1, <2>2
  <1>4. ASSUME NEW run \in Run, back' = Moved(run)
        PROVE  back'.at =< back'.at
    BY <1>4 DEF Moved, TypeOK, Snapshot
  <1>5. CASE ProcessStarts(p)
    <2>1. [p EXCEPT !.place = "running", !.out = back'].out = back'
      BY <1>2 DEF Process
    <2>2. back' = Moved("running") /\ "running" \in Run
      BY <1>5 DEF ProcessStarts, Run
    <2>3. \A q \in procs' : NotAhead(q.out)'
      BY <1>4, <1>5, <2>1, <2>2, BecomesInTime DEF ProcessStarts
    <2>4. QED
      BY <1>3, <1>5, <2>2, <2>3 DEF ProcessStarts
  <1>6. CASE ProcessRefuses(p)
    <2>1. [p EXCEPT !.place = "ended", !.out = back].out = back
      BY <1>2 DEF Process
    <2>2. back.at =< back.at
      BY DEF TypeOK, Snapshot
    <2>3. \A q \in procs' : NotAhead(q.out)'
      BY <1>6, <2>1, <2>2, BecomesInTime DEF ProcessRefuses
    <2>4. QED
      BY <1>3, <1>6, <2>3 DEF ProcessRefuses
  <1>7. CASE ProcessReports(p)
    <2>1. [p EXCEPT !.out = back'].out = back'
      BY <1>2 DEF Process
    <2>2. back' = Moved("running") /\ "running" \in Run
      BY <1>7 DEF ProcessReports, Run
    <2>3. \A q \in procs' : NotAhead(q.out)'
      BY <1>4, <1>7, <2>1, <2>2, BecomesInTime DEF ProcessReports
    <2>4. QED
      BY <1>3, <1>7, <2>2, <2>3 DEF ProcessReports
  <1>8. CASE ProcessEnds(p)
    <2>1. [p EXCEPT !.place = "ended", !.out = back'].out = back'
      BY <1>2 DEF Process
    <2>2. PICK run \in Run : back' = Moved(run)
      BY <1>8 DEF ProcessEnds, Run
    <2>3. \A q \in procs' : NotAhead(q.out)'
      BY <1>4, <1>8, <2>1, <2>2, BecomesInTime DEF ProcessEnds
    <2>4. QED
      BY <1>3, <1>8, <2>2, <2>3 DEF ProcessEnds
  <1>9. CASE consume(p)
    <2> DEFINE q == [p EXCEPT !.out = NoSnapshot,
                              !.follow = @ \/ (p.auto /\ p.place = "running")]
    <2>1. q.out = NoSnapshot
      BY <1>2 DEF Process
    <2> HIDE DEF q
    <2>2. \A r \in procs' : NotAhead(r.out)'
      BY <1>9, <2>1, BecomesInTime DEF consume, q
    <2>3. CASE op = p.id
      <3>1. ReadInTime(reload)'
        BY <1>9, <2>3, BumpedInTime DEF consume
      <3>2. NotAhead(view)'
        BY <1>9, <2>3 DEF consume, NotAhead
      <3>3. QED
        BY <1>9, <2>2, <3>1, <3>2 DEF consume, NotAhead
    <2>4. CASE op # p.id
      BY <1>3, <1>9, <2>2, <2>4 DEF consume
    <2>5. QED
      BY <2>3, <2>4
  <1>10. CASE Complete(p)
    <2>1. \A q \in procs' : NotAhead(q.out)'
      BY <1>10 DEF Complete, NotAhead
    <2>2. CASE op = p.id
      <3> DEFINE bumped == Bumped(reload)
                 ended  == [bumped EXCEPT !.owed = @ \/ FollowUp(p) # {}]
                 wishes == {"ref"} \cup FollowUp(p) \cup (IF p.auto THEN {} ELSE {"maint"})
      <3>1. bumped \in Reloading
        BY BumpedType DEF TypeOK
      <3>2. /\ Loading(bumped) => ~bumped.load.fresh
            /\ Loading(bumped) => Loading(reload) /\ bumped.load.got = reload.load.got
        BY BumpedIsStale DEF TypeOK
      <3> HIDE DEF bumped
      <3>3. ended \in Reloading /\ ended.load = bumped.load
        BY <3>1 DEF Reloading
      <3> HIDE DEF ended, wishes
      <3>4. Quiet(reload') \/ reload'.load = bumped.load
        <4>1. Quiet(Asked(ended, wishes)) \/ Asked(ended, wishes).load = ended.load
          BY <3>3, AskedKeeps
        <4>2. reload' = Asked(ended, wishes)
          BY <1>10, <2>2 DEF Complete, ended, wishes, bumped
        <4>3. QED
          BY <3>3, <4>1, <4>2
      <3>5. ReadInTime(reload)'
        <4>1. CASE Quiet(reload')
          BY <4>1, QuietInTime
        <4>2. CASE reload'.load = bumped.load
          BY <1>10, <3>2, <4>2 DEF Complete, ReadInTime, Loading
        <4>3. QED
          BY <3>4, <4>1, <4>2
      <3>6. QED
        BY <1>10, <2>1, <3>5 DEF Complete, NotAhead
    <2>3. CASE op # p.id
      BY <1>3, <1>10, <2>1, <2>3 DEF Complete
    <2>4. QED
      BY <2>2, <2>3
  <1>11. QED
    BY <1>1, <1>5, <1>6, <1>7, <1>8, <1>9, <1>10

LEMMA AlwaysInTime == Spec => []InTime
  <1>1. Init => InTime
    <2> SUFFICES ASSUME Init PROVE InTime
      OBVIOUS
    <2>1. Quiet(reload)
      BY DEF Init, Begun, Quiet, Loading
    <2>2. QED
      BY <2>1 DEF Init, InTime, NotAhead, ReadInTime, Quiet
  <1>2. TypeOK /\ InTime /\ [Next]_vars => InTime'
    <2>1. ASSUME InTime, UNCHANGED <<back, view, reload, settings, procs>> PROVE InTime'
      BY <2>1 DEF InTime, NotAhead, ReadInTime, Loading
    <2>2. Controls => UNCHANGED <<back, view, reload, settings, procs>>
      BY DEF Controls, requestScanControl, ControlIsAnswered, ControlTimesOut, opVars
    <2>3. UNCHANGED vars => UNCHANGED <<back, view, reload, settings, procs>>
      BY DEF vars, opVars
    <2>4. QED
      BY <2>1, <2>2, <2>3, ReloadsInTime, AsksInTime, StreamsInTime DEF Next
  <1>3. QED
    BY <1>1, <1>2, TypeCorrect, PTL DEF Spec

(* Whatever the reload read, and whatever came while it read: what it puts  *)
(* on display is never older than what was there.                          *)
THEOREM ReloadsGoForward == Spec => ReloadNeverGoesBack
  <1>1. ASSUME TypeOK, InTime, Next, Loading(reload), view # NoSnapshot,
               view' = reload.load.got, Reloads
        PROVE  view'.at >= view.at
    <2>1. view' = view \/ (reload.load.fresh /\ reload.load.got # NoSnapshot)
      BY <1>1 DEF Reloads, LoadReads, CacheReturns, CacheFails, LoadReturns,
         LoadReturnsAndResumes, LoadReturned, StaleLoadReturns, LoadFails, RetryFires
    <2>2. view \in Snapshot
      BY <1>1 DEF TypeOK
    <2>3. reload.load.got # NoSnapshot => reload.load.got \in Snapshot
      BY <1>1 DEF TypeOK, Loading, Reloading, Load
    <2>4. CASE view' = view
      BY <2>2, <2>4 DEF Snapshot
    <2>5. CASE reload.load.fresh /\ reload.load.got # NoSnapshot
      BY <1>1, <2>2, <2>3, <2>5 DEF InTime, ReadInTime, Snapshot
    <2>6. QED
      BY <2>1, <2>4, <2>5
  <1>2. TypeOK /\ InTime /\ [Next]_vars =>
          [(Loading(reload) /\ view # NoSnapshot /\ view' = reload.load.got /\ Reloads)
             => view'.at >= view.at]_vars
    BY <1>1
  <1>3. QED
    BY <1>2, TypeCorrect, AlwaysInTime, PTL DEF Spec, ReloadNeverGoesBack

=============================================================================
