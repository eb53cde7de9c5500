----------------------------- MODULE MCFeeIntake -----------------------------
(* Small instances of FeeIntake for TLC. *)
EXTENDS FeeIntake, TLC

CONSTANTS x, y

Swap == Permutations({x, y})
=============================================================================
