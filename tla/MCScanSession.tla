---------------------------- MODULE MCScanSession ----------------------------
(* Instances of ScanSession for TLC: who asks, and how often the            *)
(* environment may start, ask, dismiss, fail and crash.                     *)
EXTENDS ScanSession, TLC

CONSTANTS s1

OneSession == {s1}

Of(start, request, dismiss, fault, crash) ==
    [limit \in Limits |-> CASE limit = "start" -> start
                            [] limit = "request" -> request
                            [] limit = "dismiss" -> dismiss
                            [] limit = "fault" -> fault
                            [] limit = "crash" -> crash]

FaultBudget == Of(2, 1, 0, 2, 1)
ResumeBudget == Of(3, 1, 0, 0, 2)
DismissBudget == Of(1, 1, 1, 1, 0)
StopCrashBudget == Of(2, 1, 0, 0, 1)
DismissRaceBudget == Of(2, 0, 1, 0, 1)

Symmetric == Permutations(Steps) \cup Permutations(Workers) \cup Permutations(Runs)
=============================================================================
