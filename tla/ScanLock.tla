------------------------------ MODULE ScanLock ------------------------------
(***************************************************************************)
(* The scan process lock: _scan_process_lock of scanner/native_bridge.py   *)
(* and its reader scan_lock_is_active of scanner/process_lock.py.          *)
(*                                                                         *)
(* Two things are called the lock.  The guard is a kernel lock (flock): it *)
(* is what excludes a second scan, and the kernel drops it with its        *)
(* process.  The file scan.lock holds the pid and the last heartbeat of    *)
(* the holder: it is what other commands look at, and it stays when the    *)
(* process dies.                                                           *)
(*                                                                         *)
(* Time is the age of the heartbeat, in beats of                           *)
(* LOCK_HEARTBEAT_INTERVAL_SECONDS.                                        *)
(***************************************************************************)
EXTENDS Naturals

CONSTANTS
    Procs,    \* processes, each with a pid of its own
    NoProc,   \* nobody
    NoFile,   \* scan.lock does not exist
    Stale,    \* beats after which a heartbeat is stale: LOCK_STALE_SECONDS
    Budgets   \* how often the environment may do each thing: one is chosen

VARIABLES
    pc,       \* where each process is
    guard,    \* who holds the flock
    file,     \* scan.lock
    beat,     \* the heartbeat thread of each process
    budget

vars == <<pc, guard, file, beat, budget>>

Place == {"out", "check", "write", "inside", "stopping", "removing", "dead"}

(* "off": not started or joined; "waiting" for the interval; "read" its own *)
(* pid in the file; "written" the file; "gone": it has returned.            *)
Beat == {"off", "waiting", "read", "written", "gone"}

File == [pid: Procs, age: 0..Stale + 1]

Limits == {"crash", "reuse", "fault", "suspend"}

ASSUME LockAssumption ==
    /\ NoProc \notin Procs
    /\ NoFile \notin File
    /\ Stale \in Nat \ {0}
    /\ Budgets \subseteq [Limits -> Nat]

TypeOK ==
    /\ pc \in [Procs -> Place]
    /\ guard \in Procs \cup {NoProc}
    /\ file \in File \cup {NoFile}
    /\ beat \in [Procs -> Beat]
    /\ budget \in [Limits -> Nat]

Init ==
    /\ pc = [p \in Procs |-> "out"]
    /\ guard = NoProc
    /\ file = NoFile
    /\ beat = [p \in Procs |-> "off"]
    /\ budget \in Budgets

Spend(limit) ==
    /\ budget[limit] > 0
    /\ budget' = [budget EXCEPT ![limit] = @ - 1]

Alive(p) == pc[p] # "dead"

(* Mutant: the age of the heartbeat is not looked at.                       *)
ActiveWithoutAge == file # NoFile /\ Alive(file.pid)

(* scan_lock_is_active, as every command outside the lock evaluates it. *)
Active == file # NoFile /\ Alive(file.pid) /\ file.age <= Stale

Owns(p) == file # NoFile /\ file.pid = p

Goto(p, place) == pc' = [pc EXCEPT ![p] = place]

-----------------------------------------------------------------------------
(* Acquiring and releasing.                                                *)

(* Mutant: the file alone decides who may go in.                            *)
TryGuardByFile(p) ==
    /\ pc[p] = "out"
    /\ guard' = p
    /\ Goto(p, "check")
    /\ UNCHANGED <<file, beat, budget>>

TryGuard(p) ==
    /\ pc[p] = "out"
    /\ guard = NoProc
    /\ guard' = p
    /\ Goto(p, "check")
    /\ UNCHANGED <<file, beat, budget>>

(* A live, fresh file refuses the lock even though the guard was free; any  *)
(* other file is removed.                                                   *)
CheckFile(p) ==
    /\ pc[p] = "check"
    /\ \/ /\ Active
          /\ Goto(p, "out")
          /\ guard' = NoProc
          /\ UNCHANGED file
       \/ /\ ~Active
          /\ Goto(p, "write")
          /\ file' = NoFile
          /\ UNCHANGED guard
    /\ UNCHANGED <<beat, budget>>

WriteFile(p) ==
    /\ pc[p] = "write"
    /\ file' = [pid |-> p, age |-> 0]
    /\ Goto(p, "inside")
    /\ beat' = [beat EXCEPT ![p] = "waiting"]
    /\ UNCHANGED <<guard, budget>>

(* Removing the old file or writing the new one fails.                      *)
AcquireFails(p) ==
    /\ pc[p] \in {"check", "write"}
    /\ Spend("fault")
    /\ Goto(p, "out")
    /\ guard' = NoProc
    /\ UNCHANGED <<file, beat>>

(* Mutant: the guard is given back before the heartbeat has stopped.        *)
LeaveUnlocking(p) ==
    /\ pc[p] = "inside"
    /\ Goto(p, "stopping")
    /\ guard' = NoProc
    /\ UNCHANGED <<file, beat, budget>>

(* The body of the with statement ends: the heartbeat is told to stop ...   *)
Leave(p) ==
    /\ pc[p] = "inside"
    /\ Goto(p, "stopping")
    /\ UNCHANGED <<guard, file, beat, budget>>

(* Mutant: the heartbeat is not joined.                                     *)
JoinHeartbeatNot(p) ==
    /\ pc[p] = "stopping"
    /\ Goto(p, "removing")
    /\ UNCHANGED <<guard, file, beat, budget>>

(* ... and joined before the file is touched.                               *)
JoinHeartbeat(p) ==
    /\ pc[p] = "stopping"
    /\ beat[p] \in {"waiting", "gone"}
    /\ beat' = [beat EXCEPT ![p] = "off"]
    /\ Goto(p, "removing")
    /\ UNCHANGED <<guard, file, budget>>

(* Mutant: the file is emptied of its owner instead of removed.             *)
ReleaseByEmptying(p) ==
    /\ pc[p] = "removing"
    /\ file' = IF Owns(p) THEN [pid |-> NoProc, age |-> 0] ELSE file
    /\ guard' = NoProc
    /\ Goto(p, "out")
    /\ UNCHANGED <<beat, budget>>

(* The file may fail to go away; the guard is released all the same.        *)
Release(p) ==
    /\ pc[p] = "removing"
    /\ \/ file' = (IF Owns(p) THEN NoFile ELSE file) /\ UNCHANGED budget
       \/ Spend("fault") /\ UNCHANGED file
    /\ guard' = NoProc
    /\ Goto(p, "out")
    /\ UNCHANGED beat

-----------------------------------------------------------------------------
(* The heartbeat thread: read, write, refresh the lease of the active run.  *)
(* Any OSError ends it, the TimeoutError of the store transaction included. *)

BeatRead(p) ==
    /\ beat[p] = "waiting"
    /\ pc[p] = "inside"
    /\ beat' = [beat EXCEPT ![p] = IF Owns(p) THEN "read" ELSE "gone"]
    /\ UNCHANGED <<pc, guard, file, budget>>

BeatWrite(p) ==
    /\ beat[p] = "read"
    /\ file' = [pid |-> p, age |-> 0]
    /\ beat' = [beat EXCEPT ![p] = "written"]
    /\ UNCHANGED <<pc, guard, budget>>

BeatLease(p) ==
    /\ beat[p] = "written"
    /\ beat' = [beat EXCEPT ![p] = "waiting"]
    /\ UNCHANGED <<pc, guard, file, budget>>

BeatFails(p) ==
    /\ beat[p] \in {"read", "written"} \/ (beat[p] = "waiting" /\ pc[p] = "inside")
    /\ Spend("fault")
    /\ beat' = [beat EXCEPT ![p] = "gone"]
    /\ UNCHANGED <<pc, guard, file>>

Heartbeat(p) == BeatRead(p) \/ BeatWrite(p) \/ BeatLease(p)

-----------------------------------------------------------------------------
(* A process dies; its pid is given to a process that is not a scan (or     *)
(* not yet one); a beat's worth of time passes; the machine sleeps.         *)

Crash(p) ==
    /\ pc[p] \notin {"out", "dead"}
    /\ Spend("crash")
    /\ Goto(p, "dead")
    /\ guard' = IF guard = p THEN NoProc ELSE guard
    /\ beat' = [beat EXCEPT ![p] = "off"]
    /\ UNCHANGED file

ReusePid(p) ==
    /\ pc[p] = "dead"
    /\ Spend("reuse")
    /\ Goto(p, "out")
    /\ UNCHANGED <<guard, file, beat>>

(* A heartbeat thread that has not returned beats once per interval.        *)
BeatDue(p) == beat[p] \in {"waiting", "read", "written"} /\ Owns(p) /\ file.age >= 1

Tick ==
    /\ file # NoFile
    /\ file.age <= Stale
    /\ \A p \in Procs : ~BeatDue(p)
    /\ file' = [file EXCEPT !.age = @ + 1]
    /\ UNCHANGED <<pc, guard, beat, budget>>

(* heartbeat_at is wall-clock time, which runs on while nothing else does.  *)
Suspend ==
    /\ file # NoFile
    /\ Spend("suspend")
    /\ file' = [file EXCEPT !.age = Stale + 1]
    /\ UNCHANGED <<pc, guard, beat>>

-----------------------------------------------------------------------------
Holder(p) ==
    \/ CheckFile(p)
    \/ WriteFile(p)
    \/ JoinHeartbeat(p)
    \/ Release(p)

Environment ==
    \/ \E p \in Procs : AcquireFails(p) \/ BeatFails(p) \/ Crash(p) \/ ReusePid(p)
    \/ Suspend

Next ==
    \/ \E p \in Procs : TryGuard(p) \/ Holder(p) \/ Leave(p) \/ Heartbeat(p)
    \/ Tick
    \/ Environment

Spec == Init /\ [][Next]_vars

(* The kernel schedules the processes and time passes.  Nobody has to ask   *)
(* for the lock again, and a scan ends (ScanSession!ScanEnds).              *)
Fairness ==
    /\ WF_vars(Tick)
    /\ \A p \in Procs : WF_vars(Holder(p)) /\ WF_vars(Leave(p)) /\ WF_vars(Heartbeat(p))

FairSpec == Spec /\ Fairness

-----------------------------------------------------------------------------
(* Properties.                                                             *)

Holds(p) == pc[p] \in {"inside", "stopping", "removing"}

(* Two processes are never both under the lock, whatever crashes, whatever  *)
(* becomes of the file, whichever pids are reused.                          *)
MutualExclusion == \A p, q \in Procs : Holds(p) /\ Holds(q) => p = q

(* While a process is under the lock the file names it: no other process    *)
(* and no heartbeat of an earlier holder has removed or replaced it.        *)
FileNamesHolder == \A p \in Procs : Holds(p) => Owns(p)

(* The file reads as active while a scan runs.                              *)
RunningScanIsSeen == \A p \in Procs : pc[p] = "inside" => Active

(* What ScanLockPromise says of the lock, kept by the kernel lock, the file *)
(* and the heartbeat thread together: nobody enters beside another, and     *)
(* neither a heartbeat nor a late removal touches the file of the next      *)
(* holder or brings back a file that was removed.                           *)
LockPromise == INSTANCE ScanLockPromise WITH
    holders <- {p \in Procs : Holds(p)},
    named <- IF file = NoFile THEN {} ELSE {file.pid}

KeepsLockPromise == LockPromise!Spec

(* A file that reads as active although its process is not under the lock   *)
(* (a crash whose pid was reused, a removal that failed) does not stay so.  *)
LeftoverExpires ==
    \A p \in Procs : (Owns(p) /\ guard # p /\ Active) ~> ~(Owns(p) /\ guard # p /\ Active)
=============================================================================
