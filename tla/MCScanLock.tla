----------------------------- MODULE MCScanLock -----------------------------
(* Instances of ScanLock for TLC. *)
EXTENDS ScanLock

Of(crash, reuse, fault, suspend) ==
    [limit \in Limits |-> CASE limit = "crash" -> crash
                            [] limit = "reuse" -> reuse
                            [] limit = "fault" -> fault
                            [] limit = "suspend" -> suspend]

AllFaults == Of(2, 1, 2, 1)
OneFault == {Of(0, 0, 1, 0)}
=============================================================================
