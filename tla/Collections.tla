------------------------------ MODULE Collections ------------------------------
(***************************************************************************)
(* Map, Set, WeakMap and WeakSet (internal/builtins/map.go, set.go,        *)
(* weak.go), operated on by a script and by the callbacks of forEach,      *)
(* which run in the middle of it: calls is the stack of the native methods *)
(* that wait for a callback.  Array positions are Go's, from 0.            *)
(***************************************************************************)
EXTENDS ArrayOps

CONSTANTS Maps, Sets, WeakMaps, WeakSets,   \* the collections
          Prims, Objs,  \* keys: primitive values, and plain objects
          Arrs,         \* keys: arrays and functions
          Opaque,       \* keys: symbols and BigInts, which the matching of keys does not know
          Vals,         \* values of a Map
          Inputs,       \* what constructors are given: sequences of pairs
          Absent,
          MaxCalls,     \* bound: methods waiting for a callback at one time
          MaxSteps      \* bound: the weight of the operations of the script and its callbacks

Keys == Prims \cup Objs \cup Arrs \cup Opaque
Pairs == [key : Keys, val : Vals]

(* What a WeakMap or WeakSet holds. *)
Stores == [kept : UNION {[K -> Vals \cup Keys] : K \in SUBSET Objs}, lost : Nat]

(* A collection is of one kind, an object no symbol, and Absent none of the
   values it stands beside. *)
ASSUME CollectionsAssumption ==
  /\ Maps \cap Sets = {} /\ (Maps \cup Sets) \cap (WeakMaps \cup WeakSets) = {}
  /\ Objs \cap Opaque = {}
  /\ Inputs \subseteq Seq(Pairs) /\ MaxCalls \in Nat /\ MaxSteps \in Nat
  /\ Absent \notin Seq(Keys \cup Vals) /\ Absent \notin Stores
  /\ \A K \in SUBSET Keys : Absent \notin [K -> Vals \cup Keys]

VARIABLES entries,  \* the array in __entries__ (key, value, key, value, ..) or __values__
          size,     \* the property size
          weak,     \* weakMapStorage, weakSetStorage: by object; lost counts unreachable handles
          calls,
          steps

collVars == <<entries, size, weak, calls, steps>>

Init ==
  /\ entries = [d \in Maps \cup Sets |-> Absent]
  /\ size = [d \in Maps \cup Sets |-> 0]
  /\ weak = [w \in WeakMaps \cup WeakSets |-> Absent]
  /\ calls = <<>> /\ steps = 0

-----------------------------------------------------------------------------
(* The loop s[j] = s[j + w] for j from i on, as far as there is something to
   take: every read is ahead of the writes. *)
SlidDown(s, i, w) == [k \in 1..Len(s) |-> IF k > i /\ k + w <= Len(s) THEN s[k + w] ELSE s[k]]

Least(S) == CHOOSE i \in S : \A j \in S : i <= j

(* Keys are the same value, NaN included; of symbols and BigInts no two are. *)
KeyMatch(a, b) == a = b /\ a \notin Opaque
SetSameValueZero(a, b) == a = b /\ a \notin Opaque

MapIndexOfKey(s, k) ==
  LET found == {i \in 0..(Len(s) - 1) : i % 2 = 0 /\ KeyMatch(Get(s, i), k)}
  IN IF found = {} THEN -1 ELSE Least(found)

SetIndex(s, k) ==
  LET found == {i \in 0..(Len(s) - 1) : SetSameValueZero(Get(s, i), k)}
  IN IF found = {} THEN -1 ELSE Least(found)

MapInternalSet(s, k, v) ==
  LET i == MapIndexOfKey(s, k)
  IN IF i >= 0 THEN Put(s, i + 1, v) ELSE Append(Append(s, k), v)

SetInsert(s, k) == IF SetIndex(s, k) >= 0 THEN s ELSE Append(s, k)

(* Slip: the value stays where its key was. *)
MapRemovedShort(s, k) == LET i == MapIndexOfKey(s, k) IN Truncate(SlidDown(s, i, 1), Len(s) - 2)

MapRemoved(s, k) == LET i == MapIndexOfKey(s, k) IN Truncate(SlidDown(s, i, 2), Len(s) - 2)
SetRemoved(s, k) == LET i == SetIndex(s, k) IN Truncate(SlidDown(s, i, 1), Len(s) - 1)

-----------------------------------------------------------------------------
(* What runs: the script, or the callback of the last of calls. *)

top == calls[Len(calls)]
Below == SubSeq(calls, 1, Len(calls) - 1)

(* An operation of weight w. *)
Step(w) == steps + w <= MaxSteps /\ steps' = steps + w

(* History for ForEachCovers: an entry has gone while d was being walked. *)
Shrunk(d) == [j \in DOMAIN calls |->
                IF calls[j].id = d THEN [calls[j] EXCEPT !.touched = TRUE] ELSE calls[j]]

Holds(d, s) == entries' = [entries EXCEPT ![d] = s]
Constructed(d) == entries[d] # Absent

-----------------------------------------------------------------------------
(* Map and Set. *)

FilledMap(input) == FoldLeft(LAMBDA s, p : MapInternalSet(s, p.key, p.val), <<>>, input)

MapConstructor(d) ==
  /\ Step(1) /\ ~ Constructed(d)
  /\ \E input \in Inputs :
       LET s == FilledMap(input)
       IN Holds(d, s) /\ size' = [size EXCEPT ![d] = Len(s) \div 2]
  /\ UNCHANGED <<weak, calls>>

FilledSet(input) == FoldLeft(LAMBDA s, p : SetInsert(s, p.key), <<>>, input)

SetConstructor(d) ==
  /\ Step(1) /\ ~ Constructed(d)
  /\ \E input \in Inputs :
       LET s == FilledSet(input)
       IN Holds(d, s) /\ size' = [size EXCEPT ![d] = Len(s)]
  /\ UNCHANGED <<weak, calls>>

(* Slip: size counts the calls of set(). *)
MapSetCounted(d, k, v) ==
  /\ Step(1) /\ Constructed(d)
  /\ Holds(d, MapInternalSet(entries[d], k, v))
  /\ size' = [size EXCEPT ![d] = @ + 1]
  /\ UNCHANGED <<weak, calls>>

MapSet(d, k, v) ==
  /\ Step(1) /\ Constructed(d)
  /\ LET s == MapInternalSet(entries[d], k, v)
     IN Holds(d, s) /\ size' = [size EXCEPT ![d] = Len(s) \div 2]
  /\ UNCHANGED <<weak, calls>>

SetAdd(d, k) ==
  /\ Step(1) /\ Constructed(d)
  /\ LET s == SetInsert(entries[d], k)
     IN Holds(d, s) /\ size' = [size EXCEPT ![d] = Len(s)]
  /\ UNCHANGED <<weak, calls>>

(* delete() of a key that is not there answers false and changes nothing. *)
MapDelete(d, k) ==
  /\ Step(1) /\ Constructed(d) /\ MapIndexOfKey(entries[d], k) >= 0
  /\ LET s == MapRemoved(entries[d], k)
     IN Holds(d, s) /\ size' = [size EXCEPT ![d] = Len(s) \div 2]
  /\ calls' = Shrunk(d) /\ UNCHANGED weak

SetDelete(d, k) ==
  /\ Step(1) /\ Constructed(d) /\ SetIndex(entries[d], k) >= 0
  /\ LET s == SetRemoved(entries[d], k)
     IN Holds(d, s) /\ size' = [size EXCEPT ![d] = Len(s)]
  /\ calls' = Shrunk(d) /\ UNCHANGED weak

MapClear(d) ==
  /\ Step(1) /\ Constructed(d)
  /\ Holds(d, Truncate(entries[d], 0)) /\ size' = [size EXCEPT ![d] = 0]
  /\ calls' = Shrunk(d) /\ UNCHANGED weak

SetClear(d) ==
  /\ Step(1) /\ Constructed(d)
  /\ Holds(d, Truncate(entries[d], 0)) /\ size' = [size EXCEPT ![d] = 0]
  /\ calls' = Shrunk(d) /\ UNCHANGED weak

MapGet(d, k) == LET i == MapIndexOfKey(entries[d], k)
                IN IF i >= 0 THEN Get(entries[d], i + 1) ELSE Undefined
MapHas(d, k) == MapIndexOfKey(entries[d], k) >= 0
SetHas(d, k) == SetIndex(entries[d], k) >= 0
MapKeys(d) == [j \in 1..(Len(entries[d]) \div 2) |-> Get(entries[d], 2 * j - 2)]
MapValues(d) == [j \in 1..(Len(entries[d]) \div 2) |-> Get(entries[d], 2 * j - 1)]
SetValues(d) == entries[d]

-----------------------------------------------------------------------------
(* forEach.  n is the length when it began; start and seen are history. *)

(* Slip: the length is read again each time. *)
MapVisitLive(c, rest) ==
  IF c.i < Len(entries[c.id])
    THEN Append(rest, [c EXCEPT !.seen = Append(@, <<Get(entries[c.id], c.i), Get(entries[c.id], c.i + 1)>>)])
    ELSE rest

MapVisit(c, rest) ==
  IF c.i < c.n
    THEN Append(rest, [c EXCEPT !.seen = Append(@, <<Get(entries[c.id], c.i), Get(entries[c.id], c.i + 1)>>)])
    ELSE rest

SetVisit(c, rest) ==
  IF c.i < c.n THEN Append(rest, [c EXCEPT !.seen = Append(@, <<Get(entries[c.id], c.i)>>)]) ELSE rest

Walk(m, d) == [m |-> m, id |-> d, i |-> 0, n |-> Len(entries[d]), start |-> entries[d],
               seen |-> <<>>, touched |-> FALSE]

MapForEach(d) ==
  /\ Step(1) /\ Constructed(d) /\ Len(calls) < MaxCalls
  /\ calls' = MapVisit(Walk("Map.forEach", d), calls)
  /\ UNCHANGED <<entries, size, weak>>

SetForEach(d) ==
  /\ Step(1) /\ Constructed(d) /\ Len(calls) < MaxCalls
  /\ calls' = SetVisit(Walk("Set.forEach", d), calls)
  /\ UNCHANGED <<entries, size, weak>>

MapCallbackReturns ==
  /\ calls # <<>> /\ top.m = "Map.forEach"
  /\ calls' = MapVisit([top EXCEPT !.i = @ + 2], Below)
  /\ UNCHANGED <<entries, size, weak, steps>>

SetCallbackReturns ==
  /\ calls # <<>> /\ top.m = "Set.forEach"
  /\ calls' = SetVisit([top EXCEPT !.i = @ + 1], Below)
  /\ UNCHANGED <<entries, size, weak, steps>>

(* A callback throws: every method up to the script or callback that catches
   is left. *)
CallbackThrows ==
  /\ calls # <<>> /\ \E k \in 0..(Len(calls) - 1) : calls' = SubSeq(calls, 1, k)
  /\ Step(1) /\ UNCHANGED <<entries, size, weak>>

-----------------------------------------------------------------------------
(* WeakMap and WeakSet.  An array or a function gets a handle made for the
   call, which no later call can name. *)

NewWeak(w) == /\ Step(1) /\ weak[w] = Absent
              /\ weak' = [weak EXCEPT ![w] = [kept |-> [k \in {} |-> k], lost |-> 0]]
              /\ UNCHANGED <<entries, size, calls>>

(* requireObjectKey: a primitive is a TypeError. *)
Stored(s, k, v) ==
  IF k \in Objs THEN [s EXCEPT !.kept = [x \in DOMAIN @ \cup {k} |-> IF x = k THEN v ELSE @[x]]]
  ELSE [s EXCEPT !.lost = @ + 1]

WeakMapSet(w, k, v) == /\ Step(1) /\ weak[w] # Absent /\ k \in Objs \cup Arrs
                       /\ weak' = [weak EXCEPT ![w] = Stored(@, k, v)]
                       /\ UNCHANGED <<entries, size, calls>>

WeakSetAdd(w, k) == /\ Step(1) /\ weak[w] # Absent /\ k \in Objs \cup Arrs
                    /\ weak' = [weak EXCEPT ![w] = Stored(@, k, k)]
                    /\ UNCHANGED <<entries, size, calls>>

Unstored(s, k) == [s EXCEPT !.kept = [x \in DOMAIN @ \ {k} |-> @[x]]]

WeakMapDelete(w, k) == /\ Step(1) /\ weak[w] # Absent /\ k \in DOMAIN weak[w].kept
                       /\ weak' = [weak EXCEPT ![w] = Unstored(@, k)]
                       /\ UNCHANGED <<entries, size, calls>>

WeakSetDelete(w, k) == /\ Step(1) /\ weak[w] # Absent /\ k \in DOMAIN weak[w].kept
                       /\ weak' = [weak EXCEPT ![w] = Unstored(@, k)]
                       /\ UNCHANGED <<entries, size, calls>>

WeakMapGet(w, k) == IF k \in DOMAIN weak[w].kept THEN weak[w].kept[k] ELSE Undefined
WeakHas(w, k) == k \in DOMAIN weak[w].kept

-----------------------------------------------------------------------------
CollNext ==
  \/ \E d \in Maps : \/ MapConstructor(d) \/ MapClear(d) \/ MapForEach(d)
                     \/ \E k \in Keys : MapDelete(d, k) \/ \E v \in Vals : MapSet(d, k, v)
  \/ \E d \in Sets : \/ SetConstructor(d) \/ SetClear(d) \/ SetForEach(d)
                     \/ \E k \in Keys : SetDelete(d, k) \/ SetAdd(d, k)
  \/ \E w \in WeakMaps : \/ NewWeak(w)
                         \/ \E k \in Keys : WeakMapDelete(w, k) \/ \E v \in Vals : WeakMapSet(w, k, v)
  \/ \E w \in WeakSets : NewWeak(w) \/ \E k \in Keys : WeakSetDelete(w, k) \/ WeakSetAdd(w, k)
  \/ MapCallbackReturns \/ SetCallbackReturns \/ CallbackThrows

CollSpec == Init /\ [][CollNext]_collVars

-----------------------------------------------------------------------------
(* What is checked. *)

CollTypeOK ==
  /\ \A d \in Maps \cup Sets :
       /\ entries[d] = Absent \/ entries[d] \in Seq(Keys \cup Vals)
       /\ size[d] \in Nat
  /\ \A w \in WeakMaps \cup WeakSets :
       weak[w] # Absent => DOMAIN weak[w].kept \subseteq Objs /\ weak[w].lost \in Nat
  /\ Len(calls) <= MaxCalls /\ steps \in 0..MaxSteps

KeyAt(d, j) == IF d \in Maps THEN entries[d][2 * j - 1] ELSE entries[d][j]
Count(d) == IF d \in Maps THEN Len(entries[d]) \div 2 ELSE Len(entries[d])

(* The flat arrays stay whole under any operation in the middle of any walk:
   no key without its value, no key twice, and size their number. *)
StoresSound ==
  \A d \in Maps \cup Sets : Constructed(d) =>
    /\ d \in Maps => Len(entries[d]) % 2 = 0
    /\ size[d] = Count(d)
    /\ \A i, j \in 1..Count(d) : i # j /\ KeyMatch(KeyAt(d, i), KeyAt(d, i)) => KeyAt(d, i) # KeyAt(d, j)

(* The contents as a function of the keys equality is defined for. *)
Held(d) == {k \in Keys \ Opaque : \E j \in 1..Count(d) : KeyAt(d, j) = k}
ValueOf(d, k) == IF d \in Maps THEN entries[d][2 * (CHOOSE j \in 1..Count(d) : KeyAt(d, j) = k)] ELSE k

Content(d) ==
  IF d \in Maps \cup Sets
    THEN IF Constructed(d) THEN [k \in Held(d) |-> ValueOf(d, k)] ELSE Absent
    ELSE IF weak[d] = Absent THEN Absent ELSE weak[d].kept

(* get(), has(), keys(), values() answer from the contents. *)
ReadsAgree ==
  /\ \A d \in Maps : Constructed(d) =>
       /\ \A k \in Keys : /\ MapHas(d, k) <=> k \in DOMAIN Content(d)
                          /\ MapGet(d, k) = IF k \in DOMAIN Content(d) THEN Content(d)[k] ELSE Undefined
       /\ Len(MapKeys(d)) = size[d] /\ Len(MapValues(d)) = size[d]
       /\ \A k \in DOMAIN Content(d) : \E j \in 1..size[d] :
            MapKeys(d)[j] = k /\ MapValues(d)[j] = Content(d)[k]
  /\ \A d \in Sets : Constructed(d) =>
       /\ \A k \in Keys : SetHas(d, k) <=> k \in DOMAIN Content(d)
       /\ Len(SetValues(d)) = size[d]

(* What a constructor makes of its input. *)
Folded(d, input) ==
  LET hits(k) == {i \in DOMAIN input : input[i].key = k}
      keys == {input[i].key : i \in DOMAIN input} \ Opaque
  IN IF d \in Maps THEN [k \in keys |-> input[CHOOSE i \in hits(k) : \A j \in hits(k) : j <= i].val]
     ELSE [k \in keys |-> k]

AllIds == Maps \cup Sets \cup WeakMaps \cup WeakSets
Sources == {Folded(d, input) : d \in Maps \cup Sets, input \in Inputs} \cup {[k \in {} |-> k]}
contents == [d \in AllIds |-> Content(d)]

D == INSTANCE Dictionary WITH Ids <- AllIds, Keys <- Keys \ Opaque, Vals <- Vals \cup Keys,
                              Sources <- Sources, content <- contents

(* Every collection is a finite map, whatever its array goes through. *)
ImplementsDictionary == D!Spec

KeySeq(d, s) == IF d \in Maps THEN [j \in 1..(Len(s) \div 2) |-> s[2 * j - 1]] ELSE s

KeysGoOn(d, s, t) ==
  LET ks == KeySeq(d, s)
      kt == KeySeq(d, t)
  IN \/ kt = <<>>
     \/ Len(kt) >= Len(ks) /\ Len(kt) <= Len(ks) + 1 /\ SubSeq(kt, 1, Len(ks)) = ks
     \/ \E i \in DOMAIN ks : kt = SubSeq(ks, 1, i - 1) \o SubSeq(ks, i + 1, Len(ks))

(* Iteration order is the order of insertion: a step leaves the keys of a
   collection as they are, puts one behind them, takes one out or all. *)
InsertionOrder ==
  [][\A d \in Maps \cup Sets : Constructed(d) => KeysGoOn(d, entries[d], entries'[d])]_collVars

Walking(c) == c.m \in {"Map.forEach", "Set.forEach"}

InOrder(c) == LET ks == KeySeq(c.id, c.start)
              IN Len(c.seen) \in 1..Len(ks) /\ \A i \in DOMAIN c.seen : c.seen[i][1] = ks[i]

(* A forEach during which nothing is taken out visits what was there when it
   began, in order, each once and nothing else, with the values of the moment:
   what its callbacks add is for the next walk. *)
ForEachCovers ==
  [][/\ \A j \in DOMAIN calls' : Walking(calls'[j]) /\ ~ calls'[j].touched => InOrder(calls'[j])
     /\ Len(calls') < Len(calls) /\ steps' = steps /\ Walking(top) /\ ~ top.touched
          => Len(top.seen) = Len(KeySeq(top.id, top.start))]_collVars

(* What a script observes of order: keys stay where insertion put them, and a
   walk goes along them, whatever its callbacks do meanwhile. *)
OrderKept == InsertionOrder /\ ForEachCovers
=============================================================================
