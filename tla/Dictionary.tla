------------------------------ MODULE Dictionary ------------------------------
(***************************************************************************)
(* What Map, Set, WeakMap and WeakSet promise their scripts: a collection  *)
(* that has been constructed is a finite map from keys to values (a set    *)
(* maps a key to itself), one operation changes one collection at one key, *)
(* and nothing that runs in the middle of forEach changes that.            *)
(***************************************************************************)
CONSTANTS Ids,      \* the collections
          Keys,     \* the keys equality is defined for
          Vals,
          Sources,  \* the contents a constructor can be given
          Absent    \* not constructed

VARIABLE content    \* Absent, or a function from some of the keys

Init == content = [d \in Ids |-> Absent]

New(d) == content[d] = Absent /\ \E f \in Sources : content' = [content EXCEPT ![d] = f]

Bound(f, k, v) == [x \in DOMAIN f \cup {k} |-> IF x = k THEN v ELSE f[x]]
Without(f, k) == [x \in DOMAIN f \ {k} |-> f[x]]

Put(d, k, v) == content[d] # Absent /\ content' = [content EXCEPT ![d] = Bound(@, k, v)]
Drop(d, k) == content[d] # Absent /\ content' = [content EXCEPT ![d] = Without(@, k)]
Empty(d) == content[d] # Absent /\ content' = [content EXCEPT ![d] = [k \in {} |-> k]]

Next == \E d \in Ids : \/ New(d) \/ Empty(d)
                       \/ \E k \in Keys : Drop(d, k) \/ \E v \in Vals : Put(d, k, v)

Spec == Init /\ [][Next]_content
=============================================================================
