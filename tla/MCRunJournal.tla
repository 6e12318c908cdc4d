----------------------------- MODULE MCRunJournal -----------------------------
(* Instances of RunJournal, and with it of ScanLock, for TLC. *)
EXTENDS MCScanLock, RunJournal

(* Every fault of the lock with no event to write; some of them with three. *)
FaultsOfEither == {AllFaults, Of(2, 1, 1, 0)}
FewEvents == [b \in FaultsOfEither |-> IF b = AllFaults THEN 0 ELSE 3]
=============================================================================
