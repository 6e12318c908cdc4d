----------------------------- MODULE RunPromise -----------------------------
(***************************************************************************)
(* What the scan machinery promises about each run, whatever happens to    *)
(* the processes that execute it: a run is opened once, each of its steps  *)
(* is committed at most once and only while it is open, and a closed run   *)
(* stays closed.                                                           *)
(***************************************************************************)
CONSTANTS Runs, Steps

VARIABLES
    status,     \* of each run: "new", "open" or "closed"
    committed   \* of each run: the steps whose result is durable

vars == <<status, committed>>

Init ==
    /\ status = [r \in Runs |-> "new"]
    /\ committed = [r \in Runs |-> {}]

Open(r) ==
    /\ status[r] = "new"
    /\ status' = [status EXCEPT ![r] = "open"]
    /\ UNCHANGED committed

Commit(r, s) ==
    /\ status[r] = "open"
    /\ s \notin committed[r]
    /\ committed' = [committed EXCEPT ![r] = @ \cup {s}]
    /\ UNCHANGED status

Close(r) ==
    /\ status[r] = "open"
    /\ status' = [status EXCEPT ![r] = "closed"]
    /\ UNCHANGED committed

Next == \E r \in Runs : Open(r) \/ Close(r) \/ \E s \in Steps : Commit(r, s)

Spec == Init /\ [][Next]_vars
=============================================================================
