-------------------------- MODULE MCControlSession --------------------------
(* Small instances of ControlSession for TLC. *)
EXTENDS ControlSession, TLC

CONSTANTS c1, c2

Test(n, rev, valid) == [parallel |-> n, reverse |-> rev, ok |-> valid]

TwoAndOne == c1 :> Test(2, FALSE, TRUE) @@ c2 :> Test(1, TRUE, TRUE)
Reverse == c1 :> Test(1, TRUE, TRUE)
=============================================================================
