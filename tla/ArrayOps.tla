------------------------------- MODULE ArrayOps -------------------------------
(***************************************************************************)
(* value.Array (internal/value/array.go), a dense slice, read as undefined *)
(* beyond its end and extended by a write there; and the methods of        *)
(* Array.prototype that call nothing back (internal/builtins/array.go), as *)
(* operators on the elements.  Positions are Go's, from 0; Undefined for   *)
(* an index argument stands for a missing one.                             *)
(***************************************************************************)
EXTENDS Integers, Sequences, SequencesExt

CONSTANTS Undefined,
          NaN,
          Refs,     \* elements that are arrays, objects, functions, symbols or BigInts
          ArrayIds  \* arrays of the script; as elements they are in Refs

ASSUME ArrayOpsAssumption == ArrayIds \subseteq Refs /\ NaN \notin Refs /\ Undefined \notin Refs

Get(s, i) == IF i \in 0..(Len(s) - 1) THEN s[i + 1] ELSE Undefined

Put(s, i, v) ==
  IF i < 0 THEN s
  ELSE [k \in 1..(IF i < Len(s) THEN Len(s) ELSE i + 1) |-> IF k = i + 1 THEN v ELSE Get(s, k - 1)]

Truncate(s, n) == IF n < Len(s) THEN [k \in 1..(IF n < 0 THEN 0 ELSE n) |-> s[k]] ELSE s

-----------------------------------------------------------------------------
(* Loops. *)

Up(i, j) == [k \in 1..(j - i + 1) |-> i + k - 1]
Down(i, j) == [k \in 1..(i - j + 1) |-> i - k + 1]

(* for i in is: s[i + d] = s[i], one after the other. *)
Moves(s, is, d) == FoldLeft(LAMBDA t, i : Put(t, i + d, Get(t, i)), s, is)

(* s[at], s[at + 1], .. = vs. *)
Puts(s, at, vs) == FoldLeft(LAMBDA t, k : Put(t, at + k - 1, vs[k]), s, Up(1, Len(vs)))

ClampIndex(i, n) == IF i < 0 THEN IF i + n < 0 THEN 0 ELSE i + n
                    ELSE IF i > n THEN n ELSE i

StartOf(a, n) == IF a = Undefined THEN 0 ELSE ClampIndex(a, n)
EndOf(b, n) == IF b = Undefined THEN n ELSE ClampIndex(b, n)

(* References are never found: identity is not looked at. *)
StrictEqual(a, b) == a = b /\ a # NaN /\ a \notin Refs
SameValueZero(a, b) == IF a = NaN THEN b = NaN ELSE StrictEqual(a, b)

-----------------------------------------------------------------------------
(* In place. *)

Pushed(s, vs) == s \o vs
Popped(s) == Truncate(s, Len(s) - 1)
Shifted(s) == IF s = <<>> THEN s ELSE Truncate(Moves(s, Up(1, Len(s) - 1), -1), Len(s) - 1)

(* Slip: the old elements are moved front to back. *)
UnshiftedForward(s, vs) ==
  Puts(Moves(s \o [k \in 1..Len(vs) |-> Undefined], Up(0, Len(s) - 1), Len(vs)), 0, vs)

Unshifted(s, vs) ==
  Puts(Moves(s \o [k \in 1..Len(vs) |-> Undefined], Down(Len(s) - 1, 0), Len(vs)), 0, vs)

Reversed(s) ==
  FoldLeft(LAMBDA t, i : Put(Put(t, i, Get(t, Len(s) - 1 - i)), Len(s) - 1 - i, Get(t, i)),
           s, Up(0, Len(s) \div 2 - 1))

Filled(s, v, a, b) ==
  FoldLeft(LAMBDA t, i : Put(t, i, v), s, Up(StartOf(a, Len(s)), EndOf(b, Len(s)) - 1))

CopiedWithin(s, to, a, b) ==
  LET n == Len(s)
      target == ClampIndex(to, n)
      start == StartOf(a, n)
      count == Min({EndOf(b, n) - start, n - target})
  IN Puts(s, target, [k \in 1..count |-> Get(s, start + k - 1)])

-----------------------------------------------------------------------------
(* Into a new array, or an answer. *)

Constructed1(n) == [k \in 1..n |-> Undefined]                \* Array(n), n >= 0
Sliced(s, a, b) == LET is == Up(StartOf(a, Len(s)), EndOf(b, Len(s)) - 1)
                   IN [k \in DOMAIN is |-> Get(s, is[k])]

Concatenated(h, s, vs) ==
  FoldLeft(LAMBDA out, v : IF v \in ArrayIds THEN out \o h[v] ELSE Append(out, v), s, vs)

(* flattenInto, to a depth; arrays may contain one another. *)
Flattened(h, a, depth) ==
  LET F[d \in 0..depth] ==
        [b \in ArrayIds |->
           FoldLeft(LAMBDA out, v : IF d > 0 /\ v \in ArrayIds THEN out \o F[d - 1][v] ELSE Append(out, v),
                    <<>>, h[b])]
  IN F[depth][a]

FromIndex(a, n) == IF a = Undefined THEN 0 ELSE IF a < 0 THEN Max({a + n, 0}) ELSE a

IndexOf(s, v, a) ==
  LET hits == {i \in FromIndex(a, Len(s))..(Len(s) - 1) : StrictEqual(Get(s, i), v)}
  IN IF hits = {} THEN -1 ELSE Min(hits)

LastIndexOf(s, v, a) ==
  LET n == Len(s)
      from == IF a = Undefined THEN n - 1 ELSE IF a < 0 THEN a + n ELSE Min({a, n - 1})
      hits == {i \in 0..from : StrictEqual(Get(s, i), v)}
  IN IF hits = {} THEN -1 ELSE Max(hits)

Includes(s, v, a) == \E i \in FromIndex(a, Len(s))..(Len(s) - 1) : SameValueZero(Get(s, i), v)

Counted(i, n) == IF i < 0 THEN i + n ELSE i
At(s, i) == Get(s, Counted(i, Len(s)))
ToReversed(s) == LET is == Down(Len(s) - 1, 0) IN [k \in DOMAIN is |-> Get(s, is[k])]

(* with(): a RangeError outside. *)
WithFits(s, i) == Counted(i, Len(s)) \in 0..(Len(s) - 1)
With(s, i, v) == [k \in 1..Len(s) |-> IF k - 1 = Counted(i, Len(s)) THEN v ELSE Get(s, k - 1)]

(* sort.SliceStable, an insertion sort for few elements: x goes behind the
   last element it is not before, before being a set of pairs. *)
Inserted(out, x, before) ==
  LET k == Max({0} \cup {i \in DOMAIN out : <<x, out[i]>> \notin before})
  IN SubSeq(out, 1, k) \o <<x>> \o SubSeq(out, k + 1, Len(out))

Sorted(s, before) == FoldLeft(LAMBDA out, x : Inserted(out, x, before), <<>>, s)
=============================================================================
