----------------------------- MODULE MCShapeCache -----------------------------
(* A small instance of ShapeCache: two objects built by the same sites. *)
EXTENDS ShapeCache, TLC

CONSTANTS o1, o2, a, b, v1, v2, ga, sa

MCObjs == {o1, o2}
MCNames == {a, b}
MCVals == {v1, v2}
MCGetSites == {ga}
MCSetSites == {sa}
MCGetName == ga :> a
MCSetName == sa :> a

(* Objects and values are interchangeable; names and sites are not. *)
MCSymmetry == Permutations(MCObjs) \cup Permutations(MCVals)
=============================================================================
