----------------------------- MODULE MCGenerator -----------------------------
(* Two generators: the main goroutine and either body may step the other. *)
EXTENDS Generator

CONSTANTS g1, g2, a, b

MCGens == {g1, g2}
MCVals == {a, b}
=============================================================================
