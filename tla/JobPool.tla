------------------------------- MODULE JobPool -------------------------------
(***************************************************************************)
(* What ExecutionEngine.execute promises to the scan or repair that calls  *)
(* it: each job runs at most once, within the limits of the pool and of    *)
(* its group; the call ends once, when no job runs, and returns only if    *)
(* every job was finished or refused.                                      *)
(***************************************************************************)
EXTENDS Integers, FiniteSets

CONSTANTS
    Jobs,       \* pairs of a group and a number
    Limit,      \* group -> how many of its jobs may run
    Workers     \* how many jobs may run in all

VARIABLES
    grouped,    \* the limits of the groups apply
    state,      \* job -> what has become of it
    result      \* of the call

vars == <<grouped, state, result>>

Init ==
    /\ grouped \in BOOLEAN
    /\ state = [j \in Jobs |-> "waiting"]
    /\ result = "none"

Running == {j \in Jobs : state[j] = "running"}

RunningOf(g) == {j \in Running : j[1] = g}

Become(j, s) ==
    /\ result = "none"
    /\ state' = [state EXCEPT ![j] = s]
    /\ UNCHANGED <<grouped, result>>

Start(j) ==
    /\ state[j] = "waiting"
    /\ Cardinality(Running) < Workers
    /\ grouped => Cardinality(RunningOf(j[1])) < Limit[j[1]]
    /\ Become(j, "running")

Finish(j) ==
    /\ state[j] = "running"
    /\ \E s \in {"finished", "failed"} : Become(j, s)

(* A job that is never run.                                                 *)
Drop(j) ==
    /\ state[j] = "waiting"
    /\ \E s \in {"refused", "skipped", "failed"} : Become(j, s)

Return ==
    /\ result = "none"
    /\ \A j \in Jobs : state[j] \in {"finished", "refused"}
    /\ result' = "returned"
    /\ UNCHANGED <<grouped, state>>

Raise ==
    /\ result = "none"
    /\ Running = {}
    /\ \E j \in Jobs : state[j] = "failed"
    /\ result' = "raised"
    /\ UNCHANGED <<grouped, state>>

Next == (\E j \in Jobs : Start(j) \/ Finish(j) \/ Drop(j)) \/ Return \/ Raise

Spec == Init /\ [][Next]_vars
=============================================================================
