------------------------------- MODULE MCAsyncVM -------------------------------
(* Small instances of AsyncVM. *)
EXTENDS AsyncVM

CONSTANT v1

MCVals == {v1}
=============================================================================
