--------------------------- MODULE ScanLockProofs ---------------------------
(***************************************************************************)
(* Theorems about ScanLock for any set of processes, any staleness bound   *)
(* and any number of crashes, reused pids, failed writes and suspensions:  *)
(* its invariants, that it implements ScanLockPromise, and under which     *)
(* conditions the file shows a scan that runs.                             *)
(***************************************************************************)
EXTENDS ScanLock, TLAPS

USE DEF Place, Beat, File, Limits

(* The processes between taking the guard and giving it back.              *)
Under(p) == pc[p] \in {"check", "write", "inside", "stopping", "removing"}

Beating(p) == beat[p] \in {"waiting", "read", "written"}

GuardHeld == \A p \in Procs : Under(p) => guard = p

BeatsInside == \A p \in Procs : Beating(p) => pc[p] \in {"inside", "stopping"}

(* The inductive invariant: MutualExclusion follows from GuardHeld alone;   *)
(* FileNamesHolder needs besides that a heartbeat thread writes the file    *)
(* only while its own process is still under the lock.                      *)
LockInv == TypeOK /\ GuardHeld /\ BeatsInside /\ FileNamesHolder

(* The lock is initially free and its state well typed. *)
LEMMA LockInit == Init => LockInv
  BY LockAssumption DEF Init, LockInv, TypeOK, GuardHeld, BeatsInside, FileNamesHolder,
     Under, Beating, Holds

(* Every step keeps the state well typed. *)
LEMMA LockTypeStep == TypeOK /\ [Next]_vars => TypeOK'
  <1> SUFFICES ASSUME TypeOK, [Next]_vars PROVE TypeOK'
    OBVIOUS
  <1> USE LockAssumption DEF TypeOK, Goto
  <1>1. ASSUME NEW p \in Procs, TryGuard(p) PROVE TypeOK'
    BY <1>1 DEF TryGuard
  <1>2. ASSUME NEW p \in Procs, Holder(p) PROVE TypeOK'
    BY <1>2 DEF Holder, CheckFile, WriteFile, JoinHeartbeat, Release, Spend
  <1>3. ASSUME NEW p \in Procs, Leave(p) PROVE TypeOK'
    BY <1>3 DEF Leave
  <1>4. ASSUME NEW p \in Procs, Heartbeat(p) PROVE TypeOK'
    BY <1>4 DEF Heartbeat, BeatRead, BeatWrite, BeatLease
  <1>5. CASE Tick
    BY <1>5 DEF Tick
  <1>6. CASE Environment
    BY <1>6 DEF Environment, AcquireFails, BeatFails, Crash, ReusePid, Suspend, Spend
  <1>7. CASE UNCHANGED vars
    BY <1>7 DEF vars
  <1> QED
    BY <1>1, <1>2, <1>3, <1>4, <1>5, <1>6, <1>7 DEF Next

(* Every step keeps the guard with the processes under the lock, and the    *)
(* heartbeat threads inside it.                                             *)
LEMMA LockGuardStep ==
    TypeOK /\ GuardHeld /\ BeatsInside /\ [Next]_vars => GuardHeld' /\ BeatsInside'
  <1> SUFFICES ASSUME TypeOK, GuardHeld, BeatsInside, [Next]_vars
               PROVE  GuardHeld' /\ BeatsInside'
    OBVIOUS
  <1> USE LockAssumption DEF TypeOK, GuardHeld, BeatsInside, Under, Beating, Goto
  <1>1. ASSUME NEW p \in Procs, TryGuard(p) PROVE GuardHeld' /\ BeatsInside'
    BY <1>1 DEF TryGuard
  <1>2. ASSUME NEW p \in Procs, Holder(p) PROVE GuardHeld' /\ BeatsInside'
    BY <1>2 DEF Holder, CheckFile, WriteFile, JoinHeartbeat, Release
  <1>3. ASSUME NEW p \in Procs, Leave(p) PROVE GuardHeld' /\ BeatsInside'
    BY <1>3 DEF Leave
  <1>4. ASSUME NEW p \in Procs, Heartbeat(p) PROVE GuardHeld' /\ BeatsInside'
    BY <1>4 DEF Heartbeat, BeatRead, BeatWrite, BeatLease
  <1>5. CASE Tick
    BY <1>5 DEF Tick
  <1>6. CASE Environment
    BY <1>6 DEF Environment, AcquireFails, BeatFails, Crash, ReusePid, Suspend
  <1>7. CASE UNCHANGED vars
    BY <1>7 DEF vars
  <1> QED
    BY <1>1, <1>2, <1>3, <1>4, <1>5, <1>6, <1>7 DEF Next

(* Every step leaves the file with the process under the lock. *)
LEMMA LockFileStep == LockInv /\ [Next]_vars => FileNamesHolder'
  <1> SUFFICES ASSUME LockInv, [Next]_vars PROVE FileNamesHolder'
    OBVIOUS
  <1> USE LockAssumption DEF LockInv, TypeOK, GuardHeld, BeatsInside, FileNamesHolder,
          Under, Beating, Holds, Owns, Goto
  <1>1. ASSUME NEW p \in Procs, TryGuard(p) PROVE FileNamesHolder'
    BY <1>1 DEF TryGuard
  <1>2. ASSUME NEW p \in Procs, Holder(p) PROVE FileNamesHolder'
    BY <1>2 DEF Holder, CheckFile, WriteFile, JoinHeartbeat, Release
  <1>3. ASSUME NEW p \in Procs, Leave(p) PROVE FileNamesHolder'
    BY <1>3 DEF Leave
  <1>4. ASSUME NEW p \in Procs, Heartbeat(p) PROVE FileNamesHolder'
    BY <1>4 DEF Heartbeat, BeatRead, BeatWrite, BeatLease
  <1>5. CASE Tick
    BY <1>5 DEF Tick
  <1>6. CASE Environment
    BY <1>6 DEF Environment, AcquireFails, BeatFails, Crash, ReusePid, Suspend
  <1>7. CASE UNCHANGED vars
    BY <1>7 DEF vars
  <1> QED
    BY <1>1, <1>2, <1>3, <1>4, <1>5, <1>6, <1>7 DEF Next

(* The inductive invariant holds of every reachable state. *)
THEOREM LockInvariant == Spec => []LockInv
  <1>1. LockInv /\ [Next]_vars => LockInv'
    BY LockTypeStep, LockGuardStep, LockFileStep DEF LockInv
  <1> QED
    BY LockInit, <1>1, PTL DEF Spec

(* The guard, the file and the heartbeats keep their types.                 *)
THEOREM ScanLockTyped == Spec => []TypeOK
  <1>1. LockInv => TypeOK
    BY DEF LockInv
  <1> QED
    BY LockInvariant, <1>1, PTL

(* Never two processes under the scan lock: the flock, not the file, is     *)
(* what excludes, so no crash, reused pid or stale file breaks it.          *)
THEOREM ScanLockExcludes == Spec => []MutualExclusion
  <1>1. LockInv => MutualExclusion
    BY DEF LockInv, GuardHeld, MutualExclusion, Under, Holds
  <1> QED
    BY LockInvariant, <1>1, PTL

(* While a process is under the scan lock, scan.lock names it: what other   *)
(* commands read is never the entry of an earlier holder.                   *)
THEOREM ScanLockNamesHolder == Spec => []FileNamesHolder
  <1>1. LockInv => FileNamesHolder
    BY DEF LockInv
  <1> QED
    BY LockInvariant, <1>1, PTL

-----------------------------------------------------------------------------
(* When the file shows a running scan.                                      *)

(* The heartbeat thread runs inside the lock, and one that has not returned *)
(* keeps the file fresh: a second beat's worth of time waits for its write. *)
BeatsAreFresh ==
    \A p \in Procs : pc[p] = "inside" =>
        /\ beat[p] # "off"
        /\ Beating(p) => file.age <= 1

Awake == budget["suspend"] = 0

AwakeInv == LockInv /\ Awake /\ BeatsAreFresh

(* Every step keeps the file of a running heartbeat fresh. *)
LEMMA FreshStep == AwakeInv /\ [Next]_vars => AwakeInv'
  <1> SUFFICES ASSUME LockInv, Awake, BeatsAreFresh, [Next]_vars PROVE Awake' /\ BeatsAreFresh'
    BY LockTypeStep, LockGuardStep, LockFileStep DEF AwakeInv, LockInv
  <1> USE LockAssumption DEF LockInv, TypeOK, GuardHeld, FileNamesHolder, Awake, BeatsAreFresh,
          Under, Beating, Holds, Owns, Goto
  <1>1. ASSUME NEW p \in Procs, TryGuard(p) PROVE Awake' /\ BeatsAreFresh'
    BY <1>1 DEF TryGuard
  <1>2. ASSUME NEW p \in Procs, Holder(p) PROVE Awake' /\ BeatsAreFresh'
    <2>1. CASE CheckFile(p)
      BY <2>1 DEF CheckFile
    <2>2. CASE WriteFile(p)
      BY <2>2 DEF WriteFile
    <2>3. CASE JoinHeartbeat(p)
      BY <2>3 DEF JoinHeartbeat
    <2>4. CASE Release(p)
      <3>1. budget'["suspend"] = 0
        BY <2>4 DEF Release, Spend
      <3>2. pc' = [pc EXCEPT ![p] = "out"] /\ UNCHANGED beat /\ guard = p
        BY <2>4 DEF Release
      <3>3. \A q \in Procs : pc'[q] # "inside"
        BY <3>2
      <3> QED
        BY <3>1, <3>3
    <2> QED
      BY <1>2, <2>1, <2>2, <2>3, <2>4 DEF Holder
  <1>3. ASSUME NEW p \in Procs, Leave(p) PROVE Awake' /\ BeatsAreFresh'
    BY <1>3 DEF Leave
  <1>4. ASSUME NEW p \in Procs, Heartbeat(p) PROVE Awake' /\ BeatsAreFresh'
    BY <1>4 DEF Heartbeat, BeatRead, BeatWrite, BeatLease
  <1>5. CASE Tick
    <2>1. file \in File /\ file'.age = file.age + 1 /\ file'.pid = file.pid
      BY <1>5 DEF Tick
    <2>2. ASSUME NEW p \in Procs, pc[p] = "inside", Beating(p) PROVE file.age = 0
      BY <1>5, <2>1, <2>2 DEF Tick, BeatDue
    <2> QED
      BY <1>5, <2>1, <2>2 DEF Tick
  <1>6. ASSUME NEW p \in Procs, AcquireFails(p) PROVE Awake' /\ BeatsAreFresh'
    <2>1. budget'["suspend"] = 0
      BY <1>6 DEF AcquireFails, Spend
    <2> QED
      BY <1>6, <2>1 DEF AcquireFails
  <1>7. ASSUME NEW p \in Procs, BeatFails(p) PROVE Awake' /\ BeatsAreFresh'
    <2>1. budget'["suspend"] = 0
      BY <1>7 DEF BeatFails, Spend
    <2> QED
      BY <1>7, <2>1 DEF BeatFails
  <1>8. ASSUME NEW p \in Procs, Crash(p) PROVE Awake' /\ BeatsAreFresh'
    <2>1. budget'["suspend"] = 0
      BY <1>8 DEF Crash, Spend
    <2> QED
      BY <1>8, <2>1 DEF Crash
  <1>9. ASSUME NEW p \in Procs, ReusePid(p) PROVE Awake' /\ BeatsAreFresh'
    <2>1. budget'["suspend"] = 0
      BY <1>9 DEF ReusePid, Spend
    <2> QED
      BY <1>9, <2>1 DEF ReusePid
  <1>10. CASE Suspend
    BY <1>10 DEF Suspend, Spend
  <1>11. CASE UNCHANGED vars
    BY <1>11 DEF vars
  <1> QED
    BY <1>1, <1>2, <1>3, <1>4, <1>5, <1>6, <1>7, <1>8, <1>9, <1>10, <1>11 DEF Next, Environment

NeverSuspended == \A b \in Budgets : b["suspend"] = 0

(* A machine that never sleeps keeps its heartbeats fresh. *)
LEMMA AwakeInvariant == NeverSuspended => (Spec => []AwakeInv)
  <1> SUFFICES ASSUME NeverSuspended PROVE Spec => []AwakeInv
    OBVIOUS
  <1>1. Init => AwakeInv
    BY LockInit DEF Init, AwakeInv, Awake, BeatsAreFresh, NeverSuspended
  <1> QED
    BY <1>1, FreshStep, PTL DEF Spec

(* The scan is seen as long as its heartbeat thread lives: of what can     *)
(* happen to a process, only an OSError in that thread hides it.            *)
BeatingScanIsSeen == \A p \in Procs : pc[p] = "inside" /\ beat[p] # "gone" => Active

(* While the machine does not sleep, a command that looks at scan.lock      *)
(* finds every scan whose heartbeat thread has not returned, whichever      *)
(* processes crash and whichever files cannot be written or removed.        *)
THEOREM BeatingScansAreSeen == NeverSuspended => (Spec => []BeatingScanIsSeen)
  <1>1. ASSUME AwakeInv, NEW p \in Procs, pc[p] = "inside", beat[p] # "gone" PROVE Active
    <2>1. Beating(p) /\ file.age <= 1
      BY <1>1 DEF AwakeInv, LockInv, TypeOK, BeatsAreFresh, Beating
    <2>2. file # NoFile /\ file.pid = p
      BY <1>1 DEF AwakeInv, LockInv, FileNamesHolder, Holds, Owns
    <2>3. file.age <= Stale
      BY <2>1, <2>2, <1>1, LockAssumption DEF AwakeInv, LockInv, TypeOK
    <2> QED
      BY <1>1, <2>2, <2>3 DEF Active, Alive
  <1>2. AwakeInv => BeatingScanIsSeen
    BY <1>1 DEF BeatingScanIsSeen
  <1> QED
    BY <1>2, AwakeInvariant, PTL

NeverFails == \A b \in Budgets : b["fault"] = 0

NoneGone == budget["fault"] = 0 /\ \A p \in Procs : pc[p] = "inside" => beat[p] # "gone"

(* Without a failed call no heartbeat thread returns before it is told to.  *)
LEMMA NoneGoneStep == LockInv /\ NoneGone /\ [Next]_vars => NoneGone'
  <1> SUFFICES ASSUME LockInv, NoneGone, [Next]_vars PROVE NoneGone'
    OBVIOUS
  <1> USE LockAssumption DEF LockInv, TypeOK, FileNamesHolder, Holds, NoneGone, Goto
  <1>1. ASSUME NEW p \in Procs, TryGuard(p) PROVE NoneGone'
    BY <1>1 DEF TryGuard
  <1>2. ASSUME NEW p \in Procs, Holder(p) PROVE NoneGone'
    <2>1. budget'["fault"] = 0
      BY <1>2 DEF Holder, CheckFile, WriteFile, JoinHeartbeat, Release, Spend
    <2> QED
      BY <1>2, <2>1 DEF Holder, CheckFile, WriteFile, JoinHeartbeat, Release
  <1>3. ASSUME NEW p \in Procs, Leave(p) PROVE NoneGone'
    BY <1>3 DEF Leave
  <1>4. ASSUME NEW p \in Procs, Heartbeat(p) PROVE NoneGone'
    BY <1>4 DEF Heartbeat, BeatRead, BeatWrite, BeatLease
  <1>5. CASE Tick
    BY <1>5 DEF Tick
  <1>6. ASSUME NEW p \in Procs, AcquireFails(p) PROVE NoneGone'
    <2>1. budget'["fault"] = 0
      BY <1>6 DEF AcquireFails, Spend
    <2> QED
      BY <1>6, <2>1 DEF AcquireFails
  <1>7. ASSUME NEW p \in Procs, BeatFails(p) PROVE NoneGone'
    BY <1>7 DEF BeatFails, Spend
  <1>8. ASSUME NEW p \in Procs, Crash(p) PROVE NoneGone'
    <2>1. budget'["fault"] = 0
      BY <1>8 DEF Crash, Spend
    <2> QED
      BY <1>8, <2>1 DEF Crash
  <1>9. ASSUME NEW p \in Procs, ReusePid(p) PROVE NoneGone'
    <2>1. budget'["fault"] = 0
      BY <1>9 DEF ReusePid, Spend
    <2> QED
      BY <1>9, <2>1 DEF ReusePid
  <1>10. CASE Suspend
    <2>1. budget'["fault"] = 0
      BY <1>10 DEF Suspend, Spend
    <2> QED
      BY <1>10, <2>1 DEF Suspend
  <1>11. CASE UNCHANGED vars
    BY <1>11 DEF vars
  <1> QED
    BY <1>1, <1>2, <1>3, <1>4, <1>5, <1>6, <1>7, <1>8, <1>9, <1>10, <1>11 DEF Next, Environment

(* Without a failed call and without sleep the file reads as active while   *)
(* a scan runs: a failed heartbeat (the run DeadHeartbeat) and a suspended  *)
(* machine are all that can hide it.                                        *)
THEOREM RunningScansAreSeen == NeverFails /\ NeverSuspended => (Spec => []RunningScanIsSeen)
  <1> SUFFICES ASSUME NeverFails, NeverSuspended PROVE Spec => []RunningScanIsSeen
    OBVIOUS
  <1>1. Init => NoneGone
    BY DEF Init, NoneGone, NeverFails
  <1>2. BeatingScanIsSeen /\ NoneGone => RunningScanIsSeen
    BY DEF BeatingScanIsSeen, NoneGone, RunningScanIsSeen
  <1> QED
    BY <1>1, <1>2, NoneGoneStep, LockInvariant, BeatingScansAreSeen, PTL DEF Spec

-----------------------------------------------------------------------------
(* The abstract lock.                                                       *)

(* The file that was found has been removed before a new one is written.    *)
Cleared == \A p \in Procs : pc[p] = "write" => file = NoFile

LEMMA ClearedStep == LockInv /\ Cleared /\ [Next]_vars => Cleared'
  <1> SUFFICES ASSUME LockInv, Cleared, [Next]_vars PROVE Cleared'
    OBVIOUS
  <1> USE LockAssumption DEF LockInv, TypeOK, GuardHeld, BeatsInside, Cleared, Under, Beating, Goto
  <1>1. ASSUME NEW p \in Procs, TryGuard(p) PROVE Cleared'
    BY <1>1 DEF TryGuard
  <1>2. ASSUME NEW p \in Procs, Holder(p) PROVE Cleared'
    BY <1>2 DEF Holder, CheckFile, WriteFile, JoinHeartbeat, Release
  <1>3. ASSUME NEW p \in Procs, Leave(p) PROVE Cleared'
    BY <1>3 DEF Leave
  <1>4. ASSUME NEW p \in Procs, Heartbeat(p) PROVE Cleared'
    BY <1>4 DEF Heartbeat, BeatRead, BeatWrite, BeatLease
  <1>5. CASE Tick
    BY <1>5 DEF Tick
  <1>6. CASE Environment
    BY <1>6 DEF Environment, AcquireFails, BeatFails, Crash, ReusePid, Suspend
  <1>7. CASE UNCHANGED vars
    BY <1>7 DEF vars
  <1> QED
    BY <1>1, <1>2, <1>3, <1>4, <1>5, <1>6, <1>7 DEF Next

Holders == {p \in Procs : Holds(p)}
Named == IF file = NoFile THEN {} ELSE {file.pid}

(* A process under the lock is alone there, with its name in the file.      *)
LEMMA HoldersAlone ==
    ASSUME LockInv, NEW p \in Procs, Holds(p)
    PROVE  Holders = {p} /\ Named = {p} /\ guard = p
  <1>1. \A q \in Procs : Holds(q) => q = p
    BY DEF LockInv, GuardHeld, Under, Holds
  <1>2. Owns(p) /\ guard = p
    BY DEF LockInv, FileNamesHolder, GuardHeld, Under, Holds
  <1> QED
    BY <1>1, <1>2 DEF Holders, Named, Owns

LEMMA NobodyHolds ==
    ASSUME LockInv, NEW p \in Procs, guard \in {p, NoProc}, ~Holds(p)
    PROVE  Holders = {}
  <1>1. ASSUME NEW q \in Procs, Holds(q) PROVE FALSE
    BY <1>1, LockAssumption DEF LockInv, GuardHeld, Under, Holds
  <1> QED
    BY <1>1 DEF Holders

(* Nobody comes or goes, and the file keeps its name. *)
LEMMA SameHolders ==
    ASSUME \A p \in Procs : Holds(p)' = Holds(p), Named' = Named
    PROVE  UNCHANGED LockPromise!vars
  BY DEF LockPromise!vars, Holders, Named

(* Every step of the lock is one of the promise, or none. *)
LEMMA LockPromiseStep ==
    LockInv /\ LockInv' /\ Cleared /\ [Next]_vars => [LockPromise!Next]_(LockPromise!vars)
  <1> SUFFICES ASSUME LockInv, LockInv', Cleared, [Next]_vars
               PROVE  LockPromise!Next \/ UNCHANGED LockPromise!vars
    OBVIOUS
  <1> USE LockAssumption
  <1>1. TypeOK
    BY DEF LockInv
  <1>2. ASSUME NEW p \in Procs, TryGuard(p) PROVE UNCHANGED LockPromise!vars
    BY <1>1, <1>2, SameHolders DEF TryGuard, TypeOK, Goto, Holds, Named
  <1>3. ASSUME NEW p \in Procs, CheckFile(p)
        PROVE  LockPromise!TakeDown \/ UNCHANGED LockPromise!vars
    <2>1. guard = p /\ ~Holds(p)
      BY <1>3 DEF CheckFile, Holds, LockInv, GuardHeld, Under
    <2>2. Holders = {}
      BY <2>1, NobodyHolds
    <2>3. Holders' = {}
      <3>1. \A q \in Procs : Holds(q)' = Holds(q)
        BY <1>1, <1>3 DEF CheckFile, TypeOK, Goto, Holds
      <3> QED
        BY <2>2, <3>1 DEF Holders
    <2>4. UNCHANGED Named \/ Named' = {}
      BY <1>3 DEF CheckFile, Named
    <2> QED
      BY <2>2, <2>3, <2>4 DEF LockPromise!TakeDown, LockPromise!vars, Holders, Named
  <1>4. ASSUME NEW p \in Procs, WriteFile(p) PROVE LockPromise!Enter(p)
    <2>1. guard = p /\ ~Holds(p) /\ file = NoFile
      BY <1>4 DEF WriteFile, Holds, LockInv, GuardHeld, Under, Cleared
    <2>2. Holders = {} /\ Named = {}
      BY <2>1, NobodyHolds DEF Named
    <2>3. Holds(p)'
      BY <1>1, <1>4 DEF WriteFile, TypeOK, Goto, Holds
    <2>4. Holders' = {p} /\ Named' = {p}
      BY <2>3, HoldersAlone, <1>4 DEF Holders, Named, LockInv, GuardHeld, FileNamesHolder, Under,
         Holds, Owns
    <2> QED
      BY <2>2, <2>4 DEF LockPromise!Enter, Holders, Named
  <1>5. ASSUME NEW p \in Procs, Holds(p), ~Holds(p)', Named' \in {Named, {}}, guard' = NoProc
        PROVE  LockPromise!Exit
    <2>1. Holders = {p}
      BY <1>5, HoldersAlone
    <2>2. Holders' = {}
      <3>1. ASSUME NEW q \in Procs, Holds(q)' PROVE FALSE
        BY <1>5, <3>1 DEF LockInv, GuardHeld, Under, Holds
      <3> QED
        BY <3>1 DEF Holders
    <2> QED
      BY <1>5, <2>1, <2>2 DEF LockPromise!Exit, Holders, Named
  <1>6. ASSUME NEW p \in Procs, JoinHeartbeat(p) \/ Leave(p) \/ BeatRead(p) \/ BeatLease(p) \/ BeatFails(p)
        PROVE  UNCHANGED LockPromise!vars
    <2>1. UNCHANGED file
      BY <1>6 DEF JoinHeartbeat, Leave, BeatRead, BeatLease, BeatFails
    <2>2. ASSUME NEW q \in Procs PROVE Holds(q)' = Holds(q)
      <3>1. \/ UNCHANGED pc
            \/ pc[p] = "inside" /\ pc' = [pc EXCEPT ![p] = "stopping"]
            \/ pc[p] = "stopping" /\ pc' = [pc EXCEPT ![p] = "removing"]
        BY <1>6 DEF JoinHeartbeat, Leave, BeatRead, BeatLease, BeatFails, Goto
      <3> QED
        BY <1>1, <3>1 DEF TypeOK, Holds
    <2> QED
      BY <2>1, <2>2, SameHolders DEF Named
  <1>7. ASSUME NEW p \in Procs, Release(p) PROVE LockPromise!Exit
    <2>1. Holds(p) /\ ~Holds(p)' /\ guard' = NoProc
      BY <1>1, <1>7 DEF Release, TypeOK, Goto, Holds
    <2>2. Named' \in {Named, {}}
      BY <1>7 DEF Release, Named
    <2> QED
      BY <1>5, <2>1, <2>2
  <1>8. ASSUME NEW p \in Procs, BeatWrite(p) PROVE UNCHANGED LockPromise!vars
    <2>1. Holds(p)
      BY <1>8 DEF BeatWrite, LockInv, BeatsInside, Beating, Holds
    <2>2. file # NoFile /\ file.pid = p
      BY <2>1 DEF LockInv, FileNamesHolder, Owns
    <2>3. Named' = Named
      BY <1>8, <2>2 DEF BeatWrite, Named
    <2> QED
      BY <1>8, <2>3, SameHolders DEF BeatWrite, Holds
  <1>9. ASSUME NEW p \in Procs, AcquireFails(p) PROVE UNCHANGED LockPromise!vars
    BY <1>1, <1>9, SameHolders DEF AcquireFails, TypeOK, Goto, Holds, Named
  <1>10. ASSUME NEW p \in Procs, Crash(p) PROVE LockPromise!Exit \/ UNCHANGED LockPromise!vars
    <2>1. ~Holds(p)' /\ Named' = Named
      BY <1>1, <1>10 DEF Crash, TypeOK, Goto, Holds, Named
    <2>2. CASE Holds(p)
      <3>1. guard' = NoProc
        BY <1>10, <2>2, HoldersAlone DEF Crash
      <3> QED
        BY <1>5, <2>1, <2>2, <3>1
    <2>3. CASE ~Holds(p)
      <3>1. \A q \in Procs : Holds(q)' = Holds(q)
        BY <1>1, <1>10, <2>1, <2>3 DEF Crash, TypeOK, Goto, Holds
      <3> QED
        BY <2>1, <3>1, SameHolders
    <2> QED
      BY <2>2, <2>3
  <1>11. ASSUME NEW p \in Procs, ReusePid(p) PROVE UNCHANGED LockPromise!vars
    BY <1>1, <1>11, SameHolders DEF ReusePid, TypeOK, Goto, Holds, Named
  <1>12. CASE Tick \/ Suspend
    <2>1. file \in File /\ file' \in File /\ file'.pid = file.pid /\ UNCHANGED pc
      BY <1>1, <1>12 DEF Tick, Suspend, TypeOK
    <2> QED
      BY <2>1, SameHolders DEF Holds, Named
  <1>13. CASE UNCHANGED vars
    BY <1>13, SameHolders DEF vars, Holds, Named
  <1> QED
    BY <1>2, <1>3, <1>4, <1>6, <1>7, <1>8, <1>9, <1>10, <1>11, <1>12, <1>13
    DEF Next, Holder, Heartbeat, Environment, LockPromise!Next

(* Whatever crashes, fails or sleeps, the flock, the file and the heartbeat *)
(* thread together are a lock that one process enters after the old name    *)
(* was taken down, and whose name stays while it is inside.                 *)
THEOREM LockPromiseIsKept == Spec => KeepsLockPromise
  <1>1. Init => LockPromise!Init
    BY DEF Init, LockPromise!Init, Holds
  <1>2. Init => Cleared
    BY DEF Init, Cleared
  <1> QED
    BY <1>1, <1>2, ClearedStep, LockPromiseStep, LockInvariant, PTL
       DEF Spec, KeepsLockPromise, LockPromise!Spec
=============================================================================
