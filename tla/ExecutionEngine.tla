--------------------------- MODULE ExecutionEngine ---------------------------
(***************************************************************************)
(* ExecutionEngine.execute of scanner/execution.py: one pool of threads    *)
(* runs the jobs of a scan.  With groups (one per connection) the calling  *)
(* thread keeps a queue per group, submits round robin within each group's *)
(* limit, waits for a future, and drains the queues once a job has failed. *)
(* Without groups it submits every job and waits for all of them.          *)
(*                                                                         *)
(* Groups are numbered in the order of their first job, and the n-th job   *)
(* of group g is <<g, n>>: a queue is known by how many jobs have left it. *)
(* What the callbacks do is ScanSession's; here they return or raise.      *)
(***************************************************************************)
EXTENDS Integers, FiniteSets

CONSTANTS
    GroupCount,
    JobsIn,       \* group -> how many jobs it has
    Limit,        \* group -> max_workers_by_group
    MaxWorkers    \* max_workers

Groups == 0..GroupCount - 1

Jobs == UNION {{g} \X (1..JobsIn[g]) : g \in Groups}

ASSUME EngineAssumption ==
    /\ GroupCount \in Nat \ {0}
    /\ JobsIn \in [Groups -> Nat \ {0}]
    /\ Limit \in [Groups -> Nat \ {0}]
    /\ MaxWorkers \in Int

(* min(len(jobs), max(1, max_workers)) *)
WorkerCount ==
    LET asked == IF MaxWorkers < 1 THEN 1 ELSE MaxWorkers
    IN  IF Cardinality(Jobs) < asked THEN Cardinality(Jobs) ELSE asked

VARIABLES
    call,      \* what the caller chose: groups or not, stop_on_failure
    main,      \* where the calling thread is
    popped,    \* group -> jobs that have left its queue
    active,    \* active_by_group
    cursor,    \* group_cursor
    futures,   \* the jobs in the futures dict
    error,     \* first_error is set
    place,     \* job -> where it is
    failure,   \* the failure event
    raised,    \* some run_job has raised (observation)
    late,      \* jobs started since then (observation)
    passed     \* group -> times in a row others were preferred to it (observation)

vars == <<call, main, popped, active, cursor, futures, error, place, failure,
          raised, late, passed>>

mainVars == <<main, popped, active, cursor, futures, error>>
observed == <<raised, late, passed>>

Settled == {"finished", "refused", "skipped", "error"}

JobPlace == {"queued", "submitted", "starting", "running", "failing", "finishing"}
                \cup Settled

MainPlace == {"submit", "wait", "check", "drain", "unwind", "stuck",
              "returned", "raised"}

TypeOK ==
    /\ call \in [grouped: BOOLEAN, stopOnFailure: BOOLEAN]
    /\ main \in MainPlace
    /\ popped \in [Groups -> Nat]
    /\ \A g \in Groups : popped[g] <= JobsIn[g]
    /\ active \in [Groups -> Nat]
    /\ cursor \in Groups
    /\ futures \subseteq Jobs
    /\ error \in BOOLEAN
    /\ place \in [Jobs -> JobPlace]
    /\ failure \in BOOLEAN
    /\ raised \in BOOLEAN
    /\ late \in Nat
    /\ passed \in [Groups -> Nat]

Init ==
    /\ call \in [grouped: BOOLEAN, stopOnFailure: BOOLEAN]
    /\ main = "submit"
    /\ popped = [g \in Groups |-> 0]
    /\ active = [g \in Groups |-> 0]
    /\ cursor = 0
    /\ futures = {}
    /\ error = FALSE
    /\ place = [j \in Jobs |-> "queued"]
    /\ failure = FALSE
    /\ raised = FALSE
    /\ late = 0
    /\ passed = [g \in Groups |-> 0]

-----------------------------------------------------------------------------
(* The calling thread, with groups.                                        *)

(* Mutant: one job too many is expected in the queue.                       *)
QueuedOffByOne(g) == popped[g] <= JobsIn[g]

Queued(g) == popped[g] < JobsIn[g]

First(g) == <<g, popped[g] + 1>>

Pop(g) == popped' = [popped EXCEPT ![g] = @ + 1]

(* Mutant: a group may exceed its limit by one.                             *)
EligibleOffByOne(g) == Queued(g) /\ active[g] <= Limit[g]

Eligible(g) == Queued(g) /\ active[g] < Limit[g]

(* Mutant: the scan always begins at the first group.                       *)
OffsetFromFirst(g) == g

(* How far the scan of group_order from the cursor goes to reach g. *)
Offset(g) == (g - cursor) % GroupCount

Selected(g) == Eligible(g) /\ \A h \in Groups : Eligible(h) => Offset(g) <= Offset(h)

FreeSlot == Cardinality(futures) < WorkerCount

Submit(g) ==
    /\ main = "submit"
    /\ call.grouped
    /\ FreeSlot
    /\ Selected(g)
    /\ cursor' = (g + 1) % GroupCount
    /\ Pop(g)
    /\ active' = [active EXCEPT ![g] = @ + 1]
    /\ futures' = futures \cup {First(g)}
    /\ place' = [place EXCEPT ![First(g)] = "submitted"]
    /\ passed' = [h \in Groups |-> IF h # g /\ Eligible(h) THEN passed[h] + 1 ELSE 0]
    /\ UNCHANGED <<call, main, error, failure, raised, late>>

(* Mutant: the calling thread waits although no future is left.             *)
EndSubmitWaiting ==
    /\ main = "submit"
    /\ call.grouped
    /\ ~FreeSlot \/ \A g \in Groups : ~Eligible(g)
    /\ main' = "wait"
    /\ UNCHANGED <<call, popped, active, cursor, futures, error, place, failure, observed>>

(* The RuntimeError of group limits that let nothing start is "stuck".      *)
EndSubmit ==
    /\ main = "submit"
    /\ call.grouped
    /\ ~FreeSlot \/ \A g \in Groups : ~Eligible(g)
    /\ main' = IF futures # {} THEN "wait"
               ELSE IF \E g \in Groups : Queued(g) THEN "stuck"
               ELSE "unwind"
    /\ UNCHANGED <<call, popped, active, cursor, futures, error, place, failure, observed>>

(* Mutant: pending futures are collected with the completed ones.           *)
CollectedPending == futures

Collected == {j \in futures : place[j] \in Settled}

(* Mutant: the count of active jobs never comes down.                       *)
CollectedOfNone(g) == {}

CollectedOf(g) == {j \in Collected : j[1] = g}

Collect ==
    /\ main = "wait"
    /\ Collected # {}
    /\ futures' = futures \ Collected
    /\ active' = [g \in Groups |-> active[g] - Cardinality(CollectedOf(g))]
    /\ error' = (error \/ \E j \in Collected : place[j] = "error")
    /\ main' = "check"
    /\ UNCHANGED <<call, popped, cursor, place, failure, observed>>

CheckFailure ==
    /\ main = "check"
    /\ main' = IF call.stopOnFailure /\ failure THEN "drain" ELSE "submit"
    /\ UNCHANGED <<call, popped, active, cursor, futures, error, place, failure, observed>>

(* The calling thread skips what is still queued; skip_job may raise.       *)
Drain(g) ==
    /\ main = "drain"
    /\ Queued(g)
    /\ \A h \in Groups : Queued(h) => g <= h
    /\ Pop(g)
    /\ \/ /\ place' = [place EXCEPT ![First(g)] = "skipped"]
          /\ UNCHANGED <<main, error>>
       \/ /\ place' = [place EXCEPT ![First(g)] = "error"]
          /\ error' = TRUE
          /\ main' = "unwind"
    /\ UNCHANGED <<call, active, cursor, futures, failure, observed>>

EndDrain ==
    /\ main = "drain"
    /\ \A g \in Groups : ~Queued(g)
    /\ main' = "submit"
    /\ UNCHANGED <<call, popped, active, cursor, futures, error, place, failure, observed>>

-----------------------------------------------------------------------------
(* The calling thread, without groups; and the end of both.                *)

SubmitAll ==
    /\ main = "submit"
    /\ ~call.grouped
    /\ popped' = JobsIn
    /\ futures' = Jobs
    /\ place' = [j \in Jobs |-> "submitted"]
    /\ main' = "unwind"
    /\ UNCHANGED <<call, active, cursor, error, failure, observed>>

Threaded == {"submitted", "starting", "running", "failing", "finishing"}

(* Leaving the executor waits for its threads.                              *)
Unwind ==
    /\ main = "unwind"
    /\ \A j \in Jobs : place[j] \notin Threaded
    /\ error' = (error \/ \E j \in futures : place[j] = "error")
    /\ main' = IF error' THEN "raised" ELSE "returned"
    /\ UNCHANGED <<call, popped, active, cursor, futures, place, failure, observed>>

-----------------------------------------------------------------------------
(* execute_job, on a thread of the pool.                                   *)

Busy == {j \in Jobs : place[j] \in Threaded \ {"submitted"}}

Goto(j, p) == place' = [place EXCEPT ![j] = p]

(* A job that finds the failure event set is skipped; skip_job may raise.   *)
Begin(j) ==
    /\ place[j] = "submitted"
    /\ Cardinality(Busy) < WorkerCount
    /\ \E p \in IF call.stopOnFailure /\ failure THEN {"skipped", "error"} ELSE {"starting"} :
         Goto(j, p)
    /\ UNCHANGED <<call, mainVars, failure, observed>>

(* try_start returns True or False, or raises. *)
TryStart(j) ==
    /\ place[j] = "starting"
    /\ \/ Goto(j, "running") /\ late' = (IF raised THEN late + 1 ELSE late)
       \/ \E p \in {"refused", "error"} : Goto(j, p) /\ UNCHANGED late
    /\ UNCHANGED <<call, mainVars, failure, raised, passed>>

RunReturns(j) ==
    /\ place[j] = "running"
    /\ Goto(j, "finishing")
    /\ UNCHANGED <<call, mainVars, failure, observed>>

(* Mutant: the failure event is not set.                                    *)
RunRaisesUnnoticed(j) ==
    /\ place[j] = "running"
    /\ Goto(j, "failing")
    /\ raised' = TRUE
    /\ UNCHANGED <<call, mainVars, failure, late, passed>>

RunRaises(j) ==
    /\ place[j] = "running"
    /\ Goto(j, "failing")
    /\ failure' = (failure \/ call.stopOnFailure)
    /\ raised' = TRUE
    /\ UNCHANGED <<call, mainVars, late, passed>>

(* fail_job; the exception of run_job (or its own) goes to the future. *)
FailJob(j) ==
    /\ place[j] = "failing"
    /\ Goto(j, "error")
    /\ UNCHANGED <<call, mainVars, failure, observed>>

FinishJob(j) ==
    /\ place[j] = "finishing"
    /\ \E p \in {"finished", "error"} : Goto(j, p)
    /\ UNCHANGED <<call, mainVars, failure, observed>>

-----------------------------------------------------------------------------
Main ==
    \/ \E g \in Groups : Submit(g) \/ Drain(g)
    \/ EndSubmit
    \/ Collect
    \/ CheckFailure
    \/ EndDrain
    \/ SubmitAll
    \/ Unwind

Thread(j) ==
    \/ Begin(j)
    \/ TryStart(j)
    \/ RunReturns(j)
    \/ RunRaises(j)
    \/ FailJob(j)
    \/ FinishJob(j)

Next == Main \/ \E j \in Jobs : Thread(j)

Spec == Init /\ [][Next]_vars

(* Every thread is scheduled, and every callback returns: the jobs run      *)
(* subprocesses and requests with timeouts.                                 *)
Fairness == WF_vars(Main) /\ \A j \in Jobs : WF_vars(Thread(j))

FairSpec == Spec /\ Fairness

-----------------------------------------------------------------------------
(* Properties.                                                             *)

Over == {"returned", "raised", "stuck"}

(* No connection ever has more jobs in the pool than its limit, and the     *)
(* pool no more than its workers, whatever raises and whenever.             *)
LimitsRespected ==
    /\ Cardinality(Busy) <= WorkerCount
    /\ call.grouped => \A g \in Groups :
                           Cardinality({j \in Jobs : j[1] = g /\ place[j] \in Threaded}) <= Limit[g]

(* A normal return means that every job was finished or refused by          *)
(* try_start, none dropped, none failed; and when execute ends either way,  *)
(* no thread still works on a job behind the caller's back.                 *)
EndsHonestly ==
    /\ main = "returned" => \A j \in Jobs : place[j] \in {"finished", "refused"}
    /\ main = "raised" => \E j \in Jobs : place[j] = "error"
    /\ main \in Over => \A j \in Jobs : place[j] \notin Threaded

(* After a job has raised under stop_on_failure, only jobs already past the *)
(* test of the failure event, one on each other thread, still start.        *)
FewLateStarts == call.stopOnFailure => late < WorkerCount

(* Round robin: a group that could be served is passed over at most once    *)
(* for each other group.                                                    *)
NoGroupStarves == \A g \in Groups : passed[g] < GroupCount

(* The engine's own check that group limits let something start never       *)
(* fires: the counts of active jobs always come back down.                  *)
NeverStuck == main # "stuck"

(* What JobPool says of a call, kept by the queues, the counts of active    *)
(* jobs, the futures and the failure event together: no job runs twice or   *)
(* is forgotten, and none moves any more once the call has ended.           *)
StateOf(j) ==
    CASE place[j] \in {"queued", "submitted", "starting"} -> "waiting"
      [] place[j] \in {"running", "failing", "finishing"} -> "running"
      [] place[j] = "error" -> "failed"
      [] OTHER -> place[j]

Pool == INSTANCE JobPool WITH
    Workers <- WorkerCount,
    grouped <- call.grouped,
    state <- [j \in Jobs |-> StateOf(j)],
    result <- IF main \in Over THEN main ELSE "none"

KeepsPool == Pool!Spec

(* execute ends, whatever the callbacks raise. *)
Terminates == <>(main \in Over)
=============================================================================
