------------------------------ MODULE ArrayMethods ------------------------------
(***************************************************************************)
(* Arrays under a script whose callbacks run in the middle of the methods  *)
(* that take one (internal/builtins/array.go), together with the           *)
(* collections: a callback of map() may sort the array, walk a Map, or     *)
(* push onto the array it was called for.  calls is shared with            *)
(* Collections; what an iteration looked at, seen, start and touched are   *)
(* history.                                                                *)
(***************************************************************************)
EXTENDS Collections

CONSTANTS Elems,      \* elements of its arrays
          Written,    \* what the script stores
          Results,    \* what its callbacks answer
          Indices,    \* index arguments, Undefined for none
          Rank,       \* the order of the strings of elements, a function
          Contents,   \* the arrays a script starts with
          MaxLen      \* bound: elements of an array

ASSUME ArrayMethodsAssumption ==
  /\ MaxLen \in Nat /\ Undefined \in Elems /\ Written \subseteq Elems
  /\ Indices \subseteq Int \cup {Undefined} /\ Rank \in [Elems -> Int]
  /\ \A s \in Contents : s \in Seq(Elems) /\ Len(s) <= MaxLen
  /\ ArrayIds \cap (Maps \cup Sets) = {}

VARIABLES arrays,     \* the arrays of the script
          answer      \* the method call that ended last; value is a sequence, of one for a scalar

vars == <<collVars, arrays, answer>>

Up1 == {"map", "from", "filter", "flatMap", "forEach", "find", "findIndex", "every", "some"}
Down1 == {"findLast", "findLastIndex"}
Folding == {"reduce", "reduceRight"}
Sorting == {"sort", "toSorted"}
Orders == {"ascending", "descending", "equal"}

AllInit == /\ Init /\ arrays \in [ArrayIds -> Contents]
           /\ answer = [m |-> "none"]

Truthy(v) == v \notin {Undefined, NaN, 0}

CmpRank(o, p, q) == CASE o = "ascending" -> Rank[p] < Rank[q]
                      [] o = "descending" -> Rank[p] > Rank[q]
                      [] o = "equal" -> FALSE

-----------------------------------------------------------------------------
(* The script and its callbacks change an array. *)

Touched(a) == [j \in DOMAIN calls |->
                 IF calls[j].id = a THEN [calls[j] EXCEPT !.touched = TRUE] ELSE calls[j]]

Becomes(a, s) ==
  /\ Step(2) /\ Len(s) <= MaxLen
  /\ arrays' = [arrays EXCEPT ![a] = s] /\ calls' = Touched(a)
  /\ UNCHANGED <<entries, size, weak, answer>>

ArrayPush(a) == \E v \in Written : Becomes(a, Pushed(arrays[a], <<v>>))
ArrayPop(a) == arrays[a] # <<>> /\ Becomes(a, Popped(arrays[a]))
ArrayShift(a) == arrays[a] # <<>> /\ Becomes(a, Shifted(arrays[a]))
ArrayUnshift(a) == \E v \in Written : Becomes(a, Unshifted(arrays[a], <<v, Undefined>>))
ArrayReverse(a) == Becomes(a, Reversed(arrays[a]))
ArrayFill(a) == \E v \in Written, i \in Indices : Becomes(a, Filled(arrays[a], v, i, Undefined))
ArrayCopyWithin(a) == \E i, j \in Indices \ {Undefined} : Becomes(a, CopiedWithin(arrays[a], i, j, Undefined))
SetElement(a) == \E i \in 0..(MaxLen - 1), v \in Written : Becomes(a, Put(arrays[a], i, v))

-----------------------------------------------------------------------------
(* Loops.  More is the condition at the loop head: the length is read again
   by most of them, once by reduce; the loops that count down start from it. *)

More(c) == IF c.m \in Down1 \cup {"reduceRight"} THEN c.i >= 0
           ELSE IF c.m = "reduce" THEN c.i < c.n
           ELSE c.i < Len(arrays[c.id])

(* The callback is called for the element at i as it is now. *)
Visited(c) == [c EXCEPT !.item = Get(arrays[c.id], c.i)]

Ends(c, v) == /\ calls' = Below
              /\ answer' = [m |-> c.m, start |-> c.start, seen |-> c.seen, acc |-> c.acc,
                            init |-> c.init, touched |-> c.touched, value |-> v]

Exhausted(c) ==
  CASE c.m \in {"map", "from", "filter", "flatMap"} -> c.out
    [] c.m \in {"forEach", "find", "findLast"} -> <<Undefined>>
    [] c.m \in {"findIndex", "findLastIndex"} -> <<-1>>
    [] c.m = "every" -> <<TRUE>> [] c.m = "some" -> <<FALSE>>
    [] c.m \in Folding -> <<c.acc>>

GoOn(c) == IF More(c) THEN calls' = Append(Below, Visited(c)) /\ UNCHANGED answer
           ELSE Ends(c, Exhausted(c))

Forward(c) == [c EXCEPT !.i = @ + 1]
Backward(c) == [c EXCEPT !.i = @ - 1]

(* callbackPair.  A loop that has nothing to do calls nothing back. *)
Call(m, a) ==
  [m |-> m, id |-> a, i |-> 0, n |-> Len(arrays[a]), item |-> Undefined, out |-> <<>>,
   acc |-> Undefined, init |-> FALSE,
   start |-> arrays[a], seen |-> <<>>, touched |-> FALSE]

Begins(c) == /\ Step(2) /\ Len(calls) < MaxCalls /\ More(c)
             /\ calls' = Append(calls, Visited(c))
             /\ UNCHANGED <<entries, size, weak, arrays, answer>>

CallUp(a) == \E m \in Up1 : Begins(Call(m, a))
CallDown(a) == \E m \in Down1 : Begins([Call(m, a) EXCEPT !.i = Len(arrays[a]) - 1])

(* Slip: without an initial value the first element is folded in twice. *)
CallReduceTwice(a) ==
  \/ Begins([Call("reduce", a) EXCEPT !.init = TRUE])
  \/ Begins([Call("reduce", a) EXCEPT !.acc = Get(arrays[a], 0)])

CallReduce(a) ==
  \/ Begins([Call("reduce", a) EXCEPT !.init = TRUE])
  \/ Begins([Call("reduce", a) EXCEPT !.acc = Get(arrays[a], 0), !.i = 1])

CallReduceRight(a) ==
  \/ Begins([Call("reduceRight", a) EXCEPT !.init = TRUE, !.i = Len(arrays[a]) - 1])
  \/ Begins([Call("reduceRight", a) EXCEPT !.acc = Get(arrays[a], Len(arrays[a]) - 1),
                                           !.i = Len(arrays[a]) - 2])

(* The callback of the innermost method has answered r. *)
Noted(r) == [top EXCEPT !.seen = Append(@, <<top.item, r>>)]

Returning(m) == calls # <<>> /\ top.m = m /\ UNCHANGED <<entries, size, weak, arrays, steps>>

ArrayMap == Returning("map") /\ \E r \in Results : GoOn(Forward([Noted(r) EXCEPT !.out = Append(@, r)]))

ArrayFrom == Returning("from") /\ \E r \in Results : GoOn(Forward([Noted(r) EXCEPT !.out = Append(@, r)]))

ArrayFilter ==
  Returning("filter") /\ \E r \in Results :
    GoOn(Forward([Noted(r) EXCEPT !.out = IF Truthy(r) THEN Append(@, top.item) ELSE @]))

ArrayFlatMap ==
  Returning("flatMap") /\ \E r \in Results :
    LET vs == IF r \in ArrayIds THEN arrays[r] ELSE <<r>>
    IN GoOn(Forward([Noted(vs) EXCEPT !.out = @ \o vs]))

ArrayForEach == Returning("forEach") /\ \E r \in Results : GoOn(Forward(Noted(r)))

ArrayReduce ==
  Returning("reduce") /\ \E r \in Results : GoOn(Forward([Noted(r) EXCEPT !.acc = r]))

ArrayReduceRight ==
  Returning("reduceRight") /\ \E r \in Results : GoOn(Backward([Noted(r) EXCEPT !.acc = r]))

ArrayFind ==
  Returning("find") /\ \E r \in Results :
    IF Truthy(r) THEN Ends(Noted(r), <<top.item>>) ELSE GoOn(Forward(Noted(r)))

ArrayFindIndex ==
  Returning("findIndex") /\ \E r \in Results :
    IF Truthy(r) THEN Ends(Noted(r), <<top.i>>) ELSE GoOn(Forward(Noted(r)))

ArrayFindLast ==
  Returning("findLast") /\ \E r \in Results :
    IF Truthy(r) THEN Ends(Noted(r), <<top.item>>) ELSE GoOn(Backward(Noted(r)))

ArrayFindLastIndex ==
  Returning("findLastIndex") /\ \E r \in Results :
    IF Truthy(r) THEN Ends(Noted(r), <<top.i>>) ELSE GoOn(Backward(Noted(r)))

ArrayEvery ==
  Returning("every") /\ \E r \in Results :
    IF ~ Truthy(r) THEN Ends(Noted(r), <<FALSE>>) ELSE GoOn(Forward(Noted(r)))

ArraySome ==
  Returning("some") /\ \E r \in Results :
    IF Truthy(r) THEN Ends(Noted(r), <<TRUE>>) ELSE GoOn(Forward(Noted(r)))

-----------------------------------------------------------------------------
(* sort() works on a copy of the elements and writes it back at the end,
   whatever the comparator did to the array meanwhile; when it throws, nothing
   is written. *)

Before(o) == {p \in (DOMAIN Rank) \X (DOMAIN Rank) : CmpRank(o, p[1], p[2])}

SortedBy(s, o) == Sorted(s, Before(o))

SortByString(a) == Becomes(a, Puts(arrays[a], 0, SortedBy(arrays[a], "ascending")))

CallSort(a) ==
  \E m \in Sorting, o \in Orders :
    /\ Step(2) /\ Len(calls) < MaxCalls /\ Len(arrays[a]) >= 2
    /\ calls' = Append(calls, [Call(m, a) EXCEPT !.acc = o])
    /\ UNCHANGED <<entries, size, weak, arrays, answer>>

ArraySort ==
  /\ calls # <<>> /\ top.m = "sort"
  /\ arrays' = [arrays EXCEPT ![top.id] = Puts(@, 0, SortedBy(top.start, top.acc))]
  /\ calls' = Front(Touched(top.id))
  /\ answer' = [m |-> "sort", start |-> top.start, acc |-> top.acc, touched |-> top.touched,
                value |-> arrays'[top.id]]
  /\ UNCHANGED <<entries, size, weak, steps>>

ArrayToSorted ==
  /\ Returning("toSorted")
  /\ calls' = Below
  /\ answer' = [m |-> "toSorted", start |-> top.start, acc |-> top.acc, touched |-> FALSE,
                value |-> SortedBy(top.start, top.acc)]

-----------------------------------------------------------------------------
ArrayNext ==
  \/ \E a \in ArrayIds : \/ ArrayPush(a) \/ ArrayPop(a) \/ ArrayShift(a) \/ ArrayUnshift(a)
                         \/ ArrayReverse(a) \/ ArrayFill(a) \/ ArrayCopyWithin(a) \/ SetElement(a)
                         \/ CallUp(a) \/ CallDown(a) \/ CallReduce(a) \/ CallReduceRight(a)
                         \/ SortByString(a) \/ CallSort(a)
  \/ ArrayMap \/ ArrayFrom \/ ArrayFilter \/ ArrayFlatMap \/ ArrayForEach
  \/ ArrayReduce \/ ArrayReduceRight
  \/ ArrayFind \/ ArrayFindIndex \/ ArrayFindLast \/ ArrayFindLastIndex
  \/ ArrayEvery \/ ArraySome \/ ArraySort \/ ArrayToSorted

Next == (CollNext /\ UNCHANGED <<arrays, answer>>) \/ ArrayNext

Spec == AllInit /\ [][Next]_vars

-----------------------------------------------------------------------------
(* Elements and positions of arrays and of the methods that wait for a callback:
   no loop looks beside the array it was called for. *)
TypeOK ==
  /\ CollTypeOK
  /\ \A a \in ArrayIds : arrays[a] \in Seq(Elems) /\ Len(arrays[a]) <= MaxLen
  /\ \A j \in DOMAIN calls : calls[j].id \in ArrayIds =>
       /\ calls[j].i \in 0..MaxLen
       /\ calls[j].m \notin Sorting => calls[j].item \in Elems

(* Between any two operations, inside callbacks too, types are kept, the flat
   arrays are whole and the reads of a collection agree with them. *)
CollectionsSound == TypeOK /\ StoresSound /\ ReadsAgree

(* What ECMAScript says of the methods that call nothing back. *)
InRange(i, n) == IF i = Undefined THEN n ELSE IF i < 0 THEN Max({n + i, 0}) ELSE Min({i, n})

MutatorsExact(s, v, i, j) ==
  LET n == Len(s)
      from == IF i = Undefined THEN 0 ELSE InRange(i, n)
      to == InRange(j, n)
  IN /\ s # <<>> => Shifted(s) = Tail(s) /\ Popped(s) = Front(s)
     /\ Unshifted(s, <<v, Undefined>>) = <<v, Undefined>> \o s
     /\ Reversed(s) = Reverse(s) /\ ToReversed(s) = Reverse(s)
     /\ Filled(s, v, i, j) = [k \in 1..n |-> IF from < k /\ k <= to THEN v ELSE s[k]]
     /\ Sliced(s, i, j) = SubSeq(s, from + 1, to)
     /\ i # Undefined /\ j # Undefined =>
          LET count == Max({0, Min({n - to, n - from})})
          IN CopiedWithin(s, i, j, Undefined) =
               SubSeq(s, 1, from) \o SubSeq(s, to + 1, to + count) \o SubSeq(s, from + count + 1, n)
     /\ i # Undefined =>
          /\ At(s, i) = IF i \in 0..(n - 1) THEN s[i + 1]
                        ELSE IF n + i \in 0..(n - 1) /\ i < 0 THEN s[n + i + 1] ELSE Undefined
          /\ WithFits(s, i) => With(s, i, v) = ReplaceAt(s, from + 1, v)

SearchesExact(s, v, i) ==
  LET n == Len(s)
      from == IF i = Undefined THEN 0 ELSE InRange(i, n)
      upto == IF i = Undefined THEN n - 1 ELSE IF i < 0 THEN n + i ELSE Min({i, n - 1})
      is(k) == s[k + 1] = v
  IN v \notin Refs =>
     /\ Includes(s, v, i) <=> \E k \in from..(n - 1) : is(k)
     /\ v # NaN =>
          LET f == IndexOf(s, v, i)
              l == LastIndexOf(s, v, i)
          IN /\ IF f = -1 THEN \A k \in from..(n - 1) : ~ is(k)
                ELSE f \in from..(n - 1) /\ is(f) /\ \A k \in from..(f - 1) : ~ is(k)
             /\ IF l = -1 THEN \A k \in 0..upto : ~ is(k)
                ELSE l \in 0..upto /\ is(l) /\ \A k \in (l + 1)..upto : ~ is(k)

(* A stable sort: a rearrangement, in order, those not before each other as they were. *)
SortsStably(s, t, before) ==
  \E p \in [1..Len(s) -> 1..Len(s)] :
    /\ \A i, j \in 1..Len(s) : i # j => p[i] # p[j]
    /\ t = [i \in 1..Len(s) |-> s[p[i]]]
    /\ \A i, j \in 1..Len(s) : i < j =>
         <<t[j], t[i]>> \notin before /\ (<<t[i], t[j]>> \in before \/ p[i] < p[j])

(* ECMAScript's order: undefined is last, and the comparator is not asked about it. *)
UndefinedLast(o) ==
  {p \in (DOMAIN Rank) \X (DOMAIN Rank) :
     p[1] # Undefined /\ (p[2] = Undefined \/ CmpRank(o, p[1], p[2]))}

(* Every method that calls nothing back does what ECMAScript says of it, for
   these elements and index arguments, references as search targets excepted:
   the loops write s[i] in an order that never reads what they overwrote. *)
MethodsAgree ==
  \A a \in ArrayIds :
    LET s == arrays[a]
    IN /\ \A v \in Elems, i \in Indices :
            SearchesExact(s, v, i) /\ \A j \in Indices : MutatorsExact(s, v, i, j)
       /\ Flattened(arrays, a, 1) =
            FlattenSeq([k \in DOMAIN s |-> IF s[k] \in ArrayIds THEN arrays[s[k]] ELSE <<s[k]>>])
       /\ Flattened(arrays, a, 2) = Concatenated(arrays, <<>>, Flattened(arrays, a, 1))

(* The methods agree with ECMAScript on the arrays a script starts with and on
   those that one operation makes of them, the states in which TLC looks. *)
MethodsExact == calls = <<>> /\ steps <= 2 => MethodsAgree

(* The result of a method for the elements s and the answers rs. *)
AnswerOf(m, s, rs) ==
  LET n == Len(s)
      hits == {k \in DOMAIN rs : Truthy(rs[k])}
      first == IF hits = {} THEN 0 ELSE Min(hits)
      kept == {k \in 1..n : Truthy(rs[k])}
      back(k) == n + 1 - k
  IN CASE m \in {"map", "from"} -> rs
       [] m = "filter" -> [k \in 1..Cardinality(kept) |->
                             s[CHOOSE j \in kept : Cardinality({x \in kept : x <= j}) = k]]
       [] m = "flatMap" -> FlattenSeq(rs)
       [] m = "forEach" -> <<Undefined>>
       [] m = "find" -> <<IF first = 0 THEN Undefined ELSE s[first]>>
       [] m = "findLast" -> <<IF first = 0 THEN Undefined ELSE s[back(first)]>>
       [] m = "findIndex" -> <<first - 1>>
       [] m = "findLastIndex" -> <<IF first = 0 THEN -1 ELSE back(first) - 1>>
       [] m = "every" -> <<\A k \in DOMAIN rs : Truthy(rs[k])>>
       [] m = "some" -> <<hits # {}>>
       [] OTHER -> <<rs[Len(rs)]>>

CallsOf(m, n, init, rs) ==
  LET decides(k) == IF m = "every" THEN ~ Truthy(rs[k]) ELSE Truthy(rs[k])
  IN IF m \in {"find", "findIndex", "findLast", "findLastIndex", "every", "some"}
       THEN /\ \A k \in 1..(Len(rs) - 1) : ~ decides(k)
            /\ Len(rs) = n \/ decides(Len(rs))
       ELSE Len(rs) = IF m \in Folding /\ ~ init THEN n - 1 ELSE n

(* A method whose array nobody changed while it ran answers, from the elements
   and the answers of its callbacks, what ECMAScript says, and a search stops at
   the answer that decides it. A sort is stable by what the comparator says of
   every pair, undefined included (array.go:953-966 asks about it too): that is
   ECMAScript's answer when no element is undefined. *)
IterationsExact ==
  answer.m # "none" /\ ~ answer.touched =>
    IF answer.m \in Sorting
      THEN /\ SortsStably(answer.start, answer.value, Before(answer.acc))
           /\ Undefined \notin Range(answer.start) =>
                SortsStably(answer.start, answer.value, UndefinedLast(answer.acc))
    ELSE LET s == answer.start
             rs == [k \in DOMAIN answer.seen |-> answer.seen[k][2]]
             order == IF answer.m \in Down1 \cup {"reduceRight"} THEN Reverse(s) ELSE s
             skip == IF answer.m \in Folding /\ ~ answer.init THEN 1 ELSE 0
         IN /\ CallsOf(answer.m, Len(s), answer.init, rs)
            /\ \A k \in DOMAIN rs : answer.seen[k][1] = order[k + skip]
            /\ answer.value = AnswerOf(answer.m, s, rs)
=============================================================================
