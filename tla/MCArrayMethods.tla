---------------------------- MODULE MCArrayMethods ----------------------------
(***************************************************************************)
(* An array that may be an element of itself and one collection of each    *)
(* kind, under scripts and callbacks of a few operations in any order.     *)
(***************************************************************************)
EXTENDS ArrayMethods

CONSTANTS arr, obj, sym

MCElems == {Undefined, NaN, 1, arr}
MCIndices == {-2, 0, 1, Undefined}
MCContents == {<<>>, <<NaN, 1, arr>>, <<arr, 1, Undefined>>}
MCRank == [x \in MCElems |-> IF x = 1 THEN 1 ELSE 2]
MCInputs == {<<>>, <<[key |-> 1, val |-> 1], [key |-> obj, val |-> 2], [key |-> 1, val |-> 2]>>}
=============================================================================
