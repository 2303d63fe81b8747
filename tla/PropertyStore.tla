---------------------------- MODULE PropertyStore ----------------------------
(***************************************************************************)
(* What internal/value/object.go promises its callers: every object is a   *)
(* finite map from names to values, a write changes one name of one        *)
(* object, a deletion takes one name of one object away, and nothing else  *)
(* (a read, the filling of a cache, the birth of a shape) changes any of   *)
(* them.  Shapes, slots, tombstones and inline caches do not exist at this *)
(* level; ShapeCache is shown to implement it.                             *)
(***************************************************************************)
CONSTANTS Objs,     \* the live *Object values
          Names,    \* property names
          Vals,     \* property values
          Missing   \* (Undefined(), false): no such own property

VARIABLE props      \* props[o][n]: the own data property n of o, or Missing

Init == props = [o \in Objs |-> [n \in Names |-> Missing]]

Write(o, n, v) == props' = [props EXCEPT ![o][n] = v]

Remove(o, n) == props' = [props EXCEPT ![o][n] = Missing]

Next == \E o \in Objs, n \in Names : \/ \E v \in Vals : Write(o, n, v)
                                     \/ Remove(o, n)

Spec == Init /\ [][Next]_props
=============================================================================
