------------------------------ MODULE MCDispatch ------------------------------
(***************************************************************************)
(* Scripts that go on, in any order and from their getters, setters, traps *)
(* and constructors as well, from what a few literals have built: a chain  *)
(* of three objects, a proxy for one with and without traps, and a buffer  *)
(* under a view that begins in its middle.                                 *)
(***************************************************************************)
EXTENDS Dispatch

CONSTANTS fun, gun, prim

Root == NewBareObject
Chained == <<Root, NewObject, [NewObject EXCEPT !.proto = 2]>>
Proxied(handler) == <<Root, NewObject, handler,
                      [NewBareObject EXCEPT !.proxy = [target |-> 2, handler |-> 3]]>>
Traps == [NewObject EXCEPT !.data = [n \in {get, set} |-> IF n = get THEN fun ELSE gun]]
Viewed == <<Root, NewBuffer(8), MakeTypedArrayView("Int32", 2, 4, 1)>>

MCScripts ==
  {[heap |-> Chained, uses |-> {"access"}, ops |-> 3],
   [heap |-> Chained, uses |-> {"access", "structure"}, ops |-> 2],
   [heap |-> Proxied(NewObject), uses |-> {"access"}, ops |-> 2],
   [heap |-> Proxied(Traps), uses |-> {"access"}, ops |-> 2],
   [heap |-> <<Root, NewObject>>, uses |-> {"construction"}, ops |-> 4],
   [heap |-> <<Root>>, uses |-> {"construction", "structure"}, ops |-> 3],
   [heap |-> Viewed, uses |-> {"elements"}, ops |-> 3]}

MCNumbers == {-1, 200}
MCIndices == {-1, 0, 1}
=============================================================================
