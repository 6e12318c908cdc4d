--------------------------- MODULE MCRepairSession ---------------------------
(* Instances of RepairSession for TLC: candidate a has two cells, b has one. *)
EXTENDS RepairSession, TLC

CONSTANTS a, b, a1, a2, b1

OneCellOrTwo == a1 :> a @@ a2 :> a @@ b1 :> b

Round3(x, y, z) == a1 :> x @@ a2 :> y @@ b1 :> z

(* A round that was cut short: an error, a missing result, a timeout.       *)
Mixed == {Round3("error", "none", "timeout")}

OneFailure == {Round3("error", "error", "ok")}

Of(start, request, fault, crash) ==
    [limit \in Limits |-> CASE limit = "start" -> start
                            [] limit = "request" -> request
                            [] limit = "fault" -> fault
                            [] limit = "crash" -> crash]

Ask(kind, cands, cell) == [kind |-> kind, cands |-> cands, cell |-> cell]

(* A candidate, one of its cells, and the two batches. *)
SomeRepairs ==
    {Ask("candidate", {a}, NoStep), Ask("candidate", {a}, a1),
     Ask("failed", {a}, NoStep), Ask("timeout", {a, b}, NoStep)}

(* Two troubles of different kinds at a time; with a crash, two repairs.    *)
RepairBudgets == {Of(2, 1, 0, 1), Of(2, 0, 1, 1), Of(1, 1, 1, 0),
                  Of(1, 0, 2, 0)}
PauseBudgets == {Of(1, 1, 0, 0)}
=============================================================================
