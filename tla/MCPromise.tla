------------------------------- MODULE MCPromise -------------------------------
(* Small instances of Promise; each .cfg picks the features its scripts use. *)
EXTENDS Promise

CONSTANTS v1, v2

OneVal == {v1}
TwoVals == {v1, v2}

MCSymmetry == Permutations(TwoVals)

Everything == {"then", "finally", "static", "all", "race", "host"}
Chains == {"then", "host"}
Loops == {"then", "task"}
=============================================================================
