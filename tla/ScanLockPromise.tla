--------------------------- MODULE ScanLockPromise ---------------------------
(***************************************************************************)
(* What the scan lock promises to those who take it and to those who only  *)
(* look at it: at most one process is under it; the name on the door is    *)
(* put up by whoever enters, and only when no other name hangs there; it   *)
(* is not touched while somebody is inside, and after that it can only be  *)
(* taken down.                                                             *)
(***************************************************************************)
CONSTANT Procs

VARIABLES
    holders,    \* the processes under the lock
    named       \* the processes scan.lock names

vars == <<holders, named>>

Init == holders = {} /\ named = {}

Enter(p) ==
    /\ holders = {}
    /\ named = {}
    /\ holders' = {p}
    /\ named' = {p}

(* By its own doing or by its death, which leaves the name behind.          *)
Exit ==
    /\ holders # {}
    /\ holders' = {}
    /\ named' \in {named, {}}

TakeDown ==
    /\ holders = {}
    /\ named' = {}
    /\ UNCHANGED holders

Next == (\E p \in Procs : Enter(p)) \/ Exit \/ TakeDown

Spec == Init /\ [][Next]_vars
=============================================================================
