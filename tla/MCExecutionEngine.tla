-------------------------- MODULE MCExecutionEngine --------------------------
(* An instance of ExecutionEngine for TLC: three connections, the first     *)
(* with two jobs in a row, limits on both sides of the number of jobs.      *)
EXTENDS ExecutionEngine

TwoTwoOne == [g \in 0..2 |-> IF g = 2 THEN 1 ELSE 2]
OneTwoOne == [g \in 0..2 |-> IF g = 1 THEN 2 ELSE 1]
=============================================================================
