--------------------------- MODULE PromiseHeapProofs ---------------------------
(***************************************************************************)
(* What the functions of PromiseHeap do to a heap, for any set S of        *)
(* subscribers and any set V of values: its types, which promises change,  *)
(* and where subscribers are.  A subscriber is at one place until the      *)
(* microtask loop takes it; Count(h, K) is the number of places that hold  *)
(* a subscriber of K, and every lemma says what an operation does to it.   *)
(***************************************************************************)
EXTENDS PromiseHeap, FiniteSets, TLAPS, SequenceTheorems, FunctionTheorems,
        FiniteSetTheorems, WellFoundedInduction

States == {"pending", "fulfilled", "rejected"}

Origins == {"none", "ctor", "static", "then", "finally", "item", "all", "race", "async"}

Slots(S, V) ==
  [state : States, value : V, subs : Seq(S), handled : BOOLEAN, by : Origins,
   from : 0..MaxProms, items : Seq(Proms \cup V), results : Seq(V), left : Int]

Tasks(S) == [sub : S, src : 0..MaxProms, ok : BOOLEAN]

Heaps(S, V) ==
  [made : 0..MaxProms, slot : [Proms -> Slots(S, V)], queue : Seq(Tasks(S))]

PlacesIn(h, K) == {at \in Places(h) : SubAt(h, at) \in K}

Count(h, K) == Cardinality(PlacesIn(h, K))

(* Between h and k nobody is lost and nobody is doubled; k has one place more,
   and it holds sub. *)
SameCounts(h, k) == \A K : Count(k, K) = Count(h, K)

OneMore(h, k, sub) == \A K : Count(k, K) = Count(h, K) + IF sub \in K THEN 1 ELSE 0

-----------------------------------------------------------------------------
(* Places. *)

(* The fields of a heap, and what can be said of them without its definition. *)
LEMMA HeapFields ==
  ASSUME NEW S, NEW V, NEW h \in Heaps(S, V)
  PROVE  /\ h.made \in 0..MaxProms
         /\ h.slot \in [Proms -> Slots(S, V)]
         /\ h.queue \in Seq(Tasks(S))
         /\ Made(h) \subseteq Proms
         /\ \A p \in Proms : h.slot[p] \in Slots(S, V) /\ h.slot[p].subs \in Seq(S)
<1>1. MaxProms \in Nat
  BY MaxPromsAssumption
<1>2. /\ h.made \in 0..MaxProms
      /\ h.slot \in [Proms -> Slots(S, V)]
      /\ h.queue \in Seq(Tasks(S))
  BY DEF Heaps
<1>3. \A p \in Proms : h.slot[p] \in Slots(S, V)
  BY <1>2
<1>4. \A p \in Proms : h.slot[p].subs \in Seq(S)
  BY <1>3 DEF Slots
<1>5. Made(h) \subseteq Proms
  BY <1>1, <1>2 DEF Made, Proms
<1>. QED BY <1>2, <1>3, <1>4, <1>5

(* A place is a position of the queue or of the list of a promise. *)
LEMMA PlaceCases ==
  ASSUME NEW S, NEW V, NEW h \in Heaps(S, V)
  PROVE  \A at : at \in Places(h) <=>
           \/ \E i \in 1..Len(h.queue) : at = <<0, i>>
           \/ \E p \in Made(h) : \E i \in 1..Len(h.slot[p].subs) : at = <<p, i>>
<1>1. DOMAIN h.queue = 1..Len(h.queue)
  BY HeapFields, LenProperties
<1>2. \A p \in Made(h) : DOMAIN h.slot[p].subs = 1..Len(h.slot[p].subs)
  BY HeapFields, LenProperties
<1>. QED BY <1>1, <1>2 DEF Places

(* Places of the queue and of the list of a promise, with what they hold. *)
InQueue(h, i) == /\ <<0, i>> \in Places(h)
                 /\ SubAt(h, <<0, i>>) = h.queue[i].sub

InList(h, p, i) == /\ <<p, i>> \in Places(h)
                   /\ SubAt(h, <<p, i>>) = h.slot[p].subs[i]

(* A position of the queue is a place. *)
LEMMA QueuePlace ==
  ASSUME NEW S, NEW V, NEW h \in Heaps(S, V), NEW i \in 1..Len(h.queue)
  PROVE  InQueue(h, i)
BY PlaceCases DEF InQueue, SubAt

(* A position of the list of a promise is a place. *)
LEMMA ListPlace ==
  ASSUME NEW S, NEW V, NEW h \in Heaps(S, V), NEW p \in Made(h),
         NEW i \in 1..Len(h.slot[p].subs)
  PROVE  InList(h, p, i)
<1>1. p # 0
  BY HeapFields DEF Made
<1>. QED BY <1>1, PlaceCases DEF InList, SubAt

(* There are finitely many places. *)
LEMMA PlacesFinite ==
  ASSUME NEW S, NEW V, NEW h \in Heaps(S, V)
  PROVE  IsFiniteSet(Places(h))
<1>1. IsFiniteSet({0} \X DOMAIN h.queue)
  <2>1. DOMAIN h.queue = 1..Len(h.queue) /\ Len(h.queue) \in Nat
    BY HeapFields, LenProperties
  <2>2. IsFiniteSet(DOMAIN h.queue)
    BY <2>1, FS_Interval
  <2>. QED BY <2>2, FS_Singleton, FS_Product
<1>2. IsFiniteSet(UNION {{p} \X DOMAIN h.slot[p].subs : p \in Made(h)})
  <2>1. ASSUME NEW p \in Made(h)
        PROVE  IsFiniteSet({p} \X DOMAIN h.slot[p].subs)
    <3>1. /\ DOMAIN h.slot[p].subs = 1..Len(h.slot[p].subs)
          /\ Len(h.slot[p].subs) \in Nat
      BY HeapFields, LenProperties
    <3>2. IsFiniteSet(DOMAIN h.slot[p].subs)
      BY <3>1, FS_Interval
    <3>. QED BY <3>2, FS_Singleton, FS_Product
  <2>2. IsFiniteSet(Made(h))
    <3>1. h.made \in Int
      BY MaxPromsAssumption, HeapFields
    <3>. QED BY <3>1, FS_Interval DEF Made
  <2>3. IsFiniteSet({{p} \X DOMAIN h.slot[p].subs : p \in Made(h)})
    <3> DEFINE rows == {{p} \X DOMAIN h.slot[p].subs : p \in Made(h)}
               row == [p \in Made(h) |-> {p} \X DOMAIN h.slot[p].subs]
    <3>1. row \in Surjection(Made(h), rows)
      BY Zenon DEF Surjection
    <3>. QED BY <2>2, <3>1, FS_Surjection
  <2>. QED BY <2>1, <2>3, FS_UNION
<1>. QED BY <1>1, <1>2, FS_Union DEF Places

(* Counting them gives a number. *)
LEMMA CountFacts ==
  ASSUME NEW S, NEW V, NEW h \in Heaps(S, V), NEW K
  PROVE  /\ Count(h, K) \in Nat
         /\ IsFiniteSet(PlacesIn(h, K))
         /\ Count(h, K) = 0 <=> \A at \in Places(h) : SubAt(h, at) \notin K
         /\ Count(h, K) = 1 <=> \E at : PlacesIn(h, K) = {at}
<1>1. PlacesIn(h, K) \subseteq Places(h)
  BY DEF PlacesIn
<1>2. IsFiniteSet(PlacesIn(h, K))
  BY <1>1, PlacesFinite, FS_Subset
<1>3. Count(h, K) \in Nat
  BY <1>2, FS_CardinalityType DEF Count
<1>4. Count(h, K) = 0 <=> PlacesIn(h, K) = {}
  BY <1>2, FS_EmptySet DEF Count
<1>5. Count(h, K) = 1 <=> \E at : PlacesIn(h, K) = {at}
  BY <1>2, FS_Singleton DEF Count
<1>. QED BY <1>2, <1>3, <1>4, <1>5 DEF PlacesIn

(* The fields of a microtask. *)
LEMMA TaskFields ==
  ASSUME NEW s, NEW q, NEW b
  PROVE  Task(s, q, b).sub = s /\ Task(s, q, b).src = q /\ Task(s, q, b).ok = b
BY DEF Task

(* The elements of a concatenation. *)
LEMMA ConcatIndexed ==
  ASSUME NEW T, NEW a \in Seq(T), NEW b \in Seq(T)
  PROVE  /\ a \o b \in Seq(T)
         /\ Len(a \o b) = Len(a) + Len(b)
         /\ \A i \in 1..Len(a) : (a \o b)[i] = a[i]
         /\ \A i \in 1..Len(b) : (a \o b)[Len(a) + i] = b[i]
<1>1. Len(a) \in Nat /\ Len(b) \in Nat
  BY LenProperties
<1>2. ASSUME NEW i \in 1..Len(a) PROVE (a \o b)[i] = a[i]
  BY <1>1, ConcatProperties
<1>3. ASSUME NEW i \in 1..Len(b) PROVE (a \o b)[Len(a) + i] = b[i]
  <2>1. Len(a) + i \in 1..(Len(a) + Len(b)) /\ ~ (Len(a) + i <= Len(a))
        /\ Len(a) + i - Len(a) = i
    BY <1>1
  <2>. QED BY <2>1, ConcatProperties
<1>. QED BY <1>2, <1>3, ConcatProperties

(* f maps the places of h one to one to those of k outside X. *)
Corresponds(h, k, X, f) ==
  /\ f \in [Places(h) -> Places(k) \ X]
  /\ \A a, b \in Places(h) : f[a] = f[b] => a = b
  /\ \A c \in Places(k) \ X : \E a \in Places(h) : f[a] = c
  /\ \A a \in Places(h) : SubAt(k, f[a]) = SubAt(h, a)

(* Places that correspond hold equally many subscribers of K. *)
LEMMA MovedCount ==
  ASSUME NEW S, NEW V, NEW h \in Heaps(S, V), NEW k \in Heaps(S, V), NEW K, NEW X,
         NEW f, Corresponds(h, k, X, f)
  PROVE  Cardinality(PlacesIn(k, K) \ X) = Count(h, K)
<1> DEFINE g == [a \in PlacesIn(h, K) |-> f[a]]
           T == PlacesIn(k, K) \ X
<1>1. g \in [PlacesIn(h, K) -> T]
  BY DEF PlacesIn, Corresponds
<1>2. \A a, b \in PlacesIn(h, K) : g[a] = g[b] => a = b
  BY DEF PlacesIn, Corresponds
<1>3. \A c \in T : \E a \in PlacesIn(h, K) : g[a] = c
  BY DEF PlacesIn, Corresponds
<1>4. g \in Bijection(PlacesIn(h, K), T)
  BY <1>1, <1>2, <1>3, Fun_IsBij, Zenon
<1>5. IsFiniteSet(PlacesIn(h, K))
  BY CountFacts
<1>6. ExistsBijection(PlacesIn(h, K), T)
  BY <1>4 DEF ExistsBijection
<1>. QED BY <1>5, <1>6, FS_Bijection DEF Count

(* A heap whose subscribers are where they were. *)
SameSubs(h, k) ==
  /\ k.queue = h.queue
  /\ Made(h) \subseteq Made(k)
  /\ \A p \in Made(h) : k.slot[p].subs = h.slot[p].subs
  /\ \A p \in Made(k) \ Made(h) : k.slot[p].subs = <<>>

(* Nothing moves in such a step. *)
LEMMA SamePlaces ==
  ASSUME NEW S, NEW V, NEW h \in Heaps(S, V), NEW k \in Heaps(S, V), SameSubs(h, k)
  PROVE  /\ Places(k) = Places(h)
         /\ \A at \in Places(h) : SubAt(k, at) = SubAt(h, at)
         /\ SameCounts(h, k)
<1>1. \A at : at \in Places(k) <=> at \in Places(h)
  <2>1. \A p \in Made(k) \ Made(h) : Len(k.slot[p].subs) = 0
    BY EmptySeq DEF SameSubs
  <2>2. ASSUME NEW p \in Made(k) \ Made(h), NEW i \in 1..Len(k.slot[p].subs) PROVE FALSE
    BY <2>1
  <2>3. SUFFICES ASSUME NEW at PROVE at \in Places(k) <=> at \in Places(h)
    OBVIOUS
  <2>4. (\E i \in 1..Len(k.queue) : at = <<0, i>>)
          <=> (\E i \in 1..Len(h.queue) : at = <<0, i>>)
    BY DEF SameSubs
  <2>5. (\E p \in Made(k) : \E i \in 1..Len(k.slot[p].subs) : at = <<p, i>>)
          <=> (\E p \in Made(h) : \E i \in 1..Len(h.slot[p].subs) : at = <<p, i>>)
    BY <2>2, Zenon DEF SameSubs
  <2>. QED BY <2>4, <2>5, PlaceCases
<1>2. \A at \in Places(h) : SubAt(k, at) = SubAt(h, at)
  <2>1. \A at \in Places(h) : at[1] = 0 \/ at[1] \in Made(h)
    BY PlaceCases
  <2>. QED BY <2>1 DEF SameSubs, SubAt
<1>3. Places(k) = Places(h)
  BY <1>1
<1>4. \A K : PlacesIn(k, K) = PlacesIn(h, K)
  BY <1>2, <1>3 DEF PlacesIn
<1>. QED BY <1>2, <1>3, <1>4 DEF Count, SameCounts

-----------------------------------------------------------------------------
(* Settling. *)

(* k is h with p settled: its list has gone to the end of the queue. *)
Settles(h, k, p, state, v) ==
  /\ k.made = h.made
  /\ \A q \in Proms : q # p => k.slot[q] = h.slot[q]
  /\ k.slot[p] = [h.slot[p] EXCEPT !.state = state, !.value = v, !.subs = <<>>]
  /\ Len(k.queue) = Len(h.queue) + Len(h.slot[p].subs)
  /\ \A i \in 1..Len(h.queue) : k.queue[i] = h.queue[i]
  /\ \A i \in 1..Len(h.slot[p].subs) :
       k.queue[Len(h.queue) + i] = Task(h.slot[p].subs[i], p, state = "fulfilled")

(* What Settle does to a pending promise. *)
LEMMA SettleFacts ==
  ASSUME NEW S, NEW V, NEW h \in Heaps(S, V), NEW p \in Proms, Pending(h, p),
         NEW state \in States, NEW v \in V, NEW k, k = Settle(h, p, state, v)
  PROVE  k \in Heaps(S, V) /\ Settles(h, k, p, state, v)
<1> DEFINE s == h.slot[p]
           moved == [i \in DOMAIN s.subs |-> Task(s.subs[i], p, state = "fulfilled")]
<1>0. MaxProms \in Nat
  BY MaxPromsAssumption
<1>1. /\ s \in Slots(S, V) /\ s.subs \in Seq(S) /\ h.queue \in Seq(Tasks(S))
      /\ h.slot \in [Proms -> Slots(S, V)]
  BY HeapFields
<1>2. k = [h EXCEPT !.slot[p] = [s EXCEPT !.state = state, !.value = v, !.subs = <<>>],
                    !.queue = @ \o moved]
  BY DEF Settle, Pending
<1>3. /\ DOMAIN s.subs = 1..Len(s.subs) /\ Len(s.subs) \in Nat
      /\ \A i \in 1..Len(s.subs) : s.subs[i] \in S
  BY <1>1, LenProperties, ElementOfSeq
<1>4. \A i \in 1..Len(s.subs) : Task(s.subs[i], p, state = "fulfilled") \in Tasks(S)
  BY <1>0, <1>3 DEF Task, Tasks, Proms
<1>5. moved \in Seq(Tasks(S)) /\ Len(moved) = Len(s.subs)
  BY <1>3, <1>4
<1>6. /\ h.queue \o moved \in Seq(Tasks(S))
      /\ Len(h.queue \o moved) = Len(h.queue) + Len(s.subs)
      /\ \A i \in 1..Len(h.queue) : (h.queue \o moved)[i] = h.queue[i]
      /\ \A i \in 1..Len(s.subs) : (h.queue \o moved)[Len(h.queue) + i] = moved[i]
  <2>1. \A m \in Seq(Tasks(S)) :
          /\ h.queue \o m \in Seq(Tasks(S))
          /\ Len(h.queue \o m) = Len(h.queue) + Len(m)
          /\ \A i \in 1..Len(h.queue) : (h.queue \o m)[i] = h.queue[i]
          /\ \A i \in 1..Len(m) : (h.queue \o m)[Len(h.queue) + i] = m[i]
    BY HeapFields, ConcatIndexed
  <2>. QED BY <1>5, <2>1
<1>7. [s EXCEPT !.state = state, !.value = v, !.subs = <<>>] \in Slots(S, V)
  <2>1. <<>> \in Seq(S)
    BY EmptySeq
  <2>2. s = [state |-> s.state, value |-> s.value, subs |-> s.subs, handled |-> s.handled,
             by |-> s.by, from |-> s.from, items |-> s.items, results |-> s.results,
             left |-> s.left]
    BY <1>1 DEF Slots
  <2>. QED BY <1>1, <2>1, <2>2 DEF Slots
<1>8. /\ k.queue = h.queue \o moved /\ k.made = h.made
      /\ k.slot = [h.slot EXCEPT ![p] =
                     [s EXCEPT !.state = state, !.value = v, !.subs = <<>>]]
  BY <1>2 DEF Heaps
<1>9. k \in Heaps(S, V)
  <2>1. k = [made |-> h.made, slot |-> k.slot, queue |-> k.queue]
    BY <1>2, <1>8 DEF Heaps
  <2>2. k.slot \in [Proms -> Slots(S, V)]
    BY <1>1, <1>7, <1>8
  <2>. QED BY <1>6, <1>8, <2>1, <2>2, HeapFields DEF Heaps
<1>. QED BY <1>1, <1>3, <1>6, <1>8, <1>9 DEF Settles

(* Settling a promise moves its subscribers to the end of the queue: nobody is
   lost and nobody is doubled. *)
LEMMA SettlePlaces ==
  ASSUME NEW S, NEW V, NEW h \in Heaps(S, V), NEW k \in Heaps(S, V), NEW p \in Made(h),
         NEW state \in States, NEW v \in V, Settles(h, k, p, state, v)
  PROVE  SameCounts(h, k)
<1> DEFINE n == Len(h.queue)
           m == Len(h.slot[p].subs)
           f == [a \in Places(h) |-> IF a[1] = p THEN <<0, n + a[2]>> ELSE a]
<1>1. p \in Proms /\ p # 0 /\ n \in Nat /\ m \in Nat
  BY HeapFields, LenProperties DEF Made
<1>2. /\ k \in Heaps(S, V) /\ Made(k) = Made(h) /\ Made(h) \subseteq Proms
      /\ \A q \in Made(h) : q # p => k.slot[q].subs = h.slot[q].subs
      /\ k.slot[p].subs = <<>> /\ Len(k.queue) = n + m
      /\ \A i \in 1..n : k.queue[i] = h.queue[i]
      /\ \A i \in 1..m : /\ k.queue[n + i].sub = h.slot[p].subs[i]
                         /\ k.queue[n + i].src = p
  <2>1. k \in Heaps(S, V) /\ Settles(h, k, p, state, v)
    OBVIOUS
  <2>2. Made(k) = Made(h) /\ Made(h) \subseteq Proms /\ h.slot[p] \in Slots(S, V)
    BY <1>1, <2>1, HeapFields DEF Made, Settles
  <2>3. k.slot[p].subs = <<>>
    BY <2>1, <2>2 DEF Slots, Settles
  <2>4. \A q \in Made(h) : q # p => k.slot[q].subs = h.slot[q].subs
    BY <2>1, <2>2 DEF Settles
  <2>5. /\ Len(k.queue) = n + m
        /\ \A i \in 1..n : k.queue[i] = h.queue[i]
    BY <2>1 DEF Settles
  <2>6. \A i \in 1..m : k.queue[n + i] = Task(h.slot[p].subs[i], p, state = "fulfilled")
    BY <2>1 DEF Settles
  <2>7. \A i \in 1..m : /\ k.queue[n + i].sub = h.slot[p].subs[i]
                         /\ k.queue[n + i].src = p
    BY <2>6, TaskFields
  <2>. QED BY <2>1, <2>2, <2>3, <2>4, <2>5, <2>7
<1> HIDE DEF n, m
<1>3. ASSUME NEW i \in 1..n
      PROVE  /\ <<0, i>> \in Places(h) /\ f[<<0, i>>] = <<0, i>> /\ <<0, i>> \in Places(k)
             /\ SubAt(k, <<0, i>>) = SubAt(h, <<0, i>>)
  <2>1. i \in 1..Len(k.queue) /\ i \in 1..Len(h.queue)
    BY <1>1, <1>2 DEF n
  <2>2. InQueue(h, i) /\ InQueue(k, i)
    BY <1>2, <2>1, QueuePlace
  <2>3. <<0, i>>[1] # p
    BY <1>1
  <2>. QED BY <1>2, <2>2, <2>3 DEF InQueue
<1>4. ASSUME NEW q \in Made(h), q # p, NEW i \in 1..Len(h.slot[q].subs)
      PROVE  /\ <<q, i>> \in Places(h) /\ f[<<q, i>>] = <<q, i>> /\ <<q, i>> \in Places(k)
             /\ SubAt(k, <<q, i>>) = SubAt(h, <<q, i>>)
  <2>1. q \in Made(k) /\ i \in 1..Len(k.slot[q].subs)
    BY <1>2, <1>4
  <2>2. InList(h, q, i) /\ InList(k, q, i)
    BY <1>2, <2>1, ListPlace
  <2>3. <<q, i>>[1] # p
    BY <1>4
  <2>. QED BY <1>2, <1>4, <2>2, <2>3 DEF InList
<1>5. ASSUME NEW i \in 1..m
      PROVE  /\ <<p, i>> \in Places(h) /\ f[<<p, i>>] = <<0, n + i>>
             /\ <<0, n + i>> \in Places(k)
             /\ SubAt(k, <<0, n + i>>) = SubAt(h, <<p, i>>)
  <2>1. n + i \in 1..Len(k.queue) /\ i \in 1..Len(h.slot[p].subs)
    BY <1>1, <1>2 DEF m
  <2>2. InQueue(k, n + i) /\ InList(h, p, i)
    BY <1>2, <2>1, QueuePlace, ListPlace
  <2>3. <<p, i>>[1] = p /\ <<p, i>>[2] = i
    OBVIOUS
  <2>. QED BY <1>2, <2>2, <2>3 DEF InQueue, InList
<1>6. \A a \in Places(h) :
        \/ \E i \in 1..n : a = <<0, i>>
        \/ \E q \in Made(h) : q # p /\ \E i \in 1..Len(h.slot[q].subs) : a = <<q, i>>
        \/ \E i \in 1..m : a = <<p, i>>
  BY PlaceCases DEF n, m
<1>7. ASSUME NEW c \in Places(k)
      PROVE  \/ \E i \in 1..n : c = <<0, i>>
             \/ \E q \in Made(h) : q # p /\ \E i \in 1..Len(h.slot[q].subs) : c = <<q, i>>
             \/ \E i \in 1..m : c = <<0, n + i>>
  <2>1. CASE \E i \in 1..Len(k.queue) : c = <<0, i>>
    <3>1. PICK i \in 1..(n + m) : c = <<0, i>>
      BY <1>2, <2>1
    <3>2. CASE i <= n
      BY <1>1, <3>1, <3>2
    <3>3. CASE i > n
      <4>1. i - n \in 1..m /\ n + (i - n) = i
        BY <1>1, <3>3
      <4>. QED BY <3>1, <4>1
    <3>. QED BY <1>1, <3>2, <3>3
  <2>2. CASE \E q \in Made(k) : \E i \in 1..Len(k.slot[q].subs) : c = <<q, i>>
    <3>1. PICK q \in Made(k) : \E i \in 1..Len(k.slot[q].subs) : c = <<q, i>>
      BY <2>2
    <3>2. PICK i \in 1..Len(k.slot[q].subs) : c = <<q, i>>
      BY <3>1
    <3>3. q # p
      BY <1>2, <3>2, EmptySeq
    <3>. QED BY <1>2, <3>2, <3>3
  <2>. QED BY <1>2, <2>1, <2>2, PlaceCases
<1> HIDE DEF f
<1>8. ASSUME NEW a \in Places(h)
      PROVE  /\ f[a] \in Places(k)
             /\ SubAt(k, f[a]) = SubAt(h, a)
  <2>1. CASE \E i \in 1..n : a = <<0, i>>
    BY <1>3, <2>1
  <2>2. CASE \E q \in Made(h) : q # p /\ \E i \in 1..Len(h.slot[q].subs) : a = <<q, i>>
    BY <1>4, <2>2
  <2>3. CASE \E i \in 1..m : a = <<p, i>>
    BY <1>5, <2>3
  <2>. QED BY <1>6, <2>1, <2>2, <2>3
<1>9. f \in [Places(h) -> Places(k)]
  <2>1. f = [a \in Places(h) |-> f[a]]
    BY DEF f
  <2>. QED BY <1>8, <2>1
<1>10. ASSUME NEW c \in Places(k)
       PROVE  \E a \in Places(h) : f[a] = c
  <2>1. CASE \E i \in 1..n : c = <<0, i>>
    BY <1>3, <2>1
  <2>2. CASE \E q \in Made(h) : q # p /\ \E i \in 1..Len(h.slot[q].subs) : c = <<q, i>>
    BY <1>4, <2>2
  <2>3. CASE \E i \in 1..m : c = <<0, n + i>>
    BY <1>5, <2>3
  <2>. QED BY <1>7, <2>1, <2>2, <2>3
<1>11. ASSUME NEW a \in Places(h), NEW b \in Places(h), f[a] = f[b]
       PROVE  a = b
  <2>2. CASE a[1] = p /\ b[1] = p
    <3>1. PICK i \in 1..m : a = <<p, i>>
      BY <1>1, <1>6, <2>2
    <3>2. PICK j \in 1..m : b = <<p, j>>
      BY <1>1, <1>6, <2>2
    <3>3. n + i = n + j
      <4>1. <<0, n + i>> = <<0, n + j>>
        BY <1>5, <1>11, <3>1, <3>2
      <4>2. <<0, n + i>>[2] = <<0, n + j>>[2]
        BY <4>1
      <4>. QED BY <4>2
    <3>. QED BY <1>1, <3>1, <3>2, <3>3
  <2>3. ASSUME NEW x \in Places(h), NEW y \in Places(h), x[1] = p, y[1] # p
        PROVE  f[x] # f[y]
    <3>1. PICK i \in 1..m : x = <<p, i>>
      BY <1>1, <1>6, <2>3
    <3>2. f[x] = <<0, n + i>>
      BY <1>5, <3>1
    <3>3. f[y] = y
      BY <2>3 DEF f
    <3>4. y # <<0, n + i>>
      BY <1>1, <1>2, <1>6, <2>3 DEF Proms
    <3>. QED BY <3>2, <3>3, <3>4
  <2>4. CASE a[1] # p /\ b[1] # p
    BY <1>11, <2>4 DEF f
  <2>. QED BY <1>11, <2>2, <2>3, <2>4
<1>12. ASSUME NEW K PROVE Count(k, K) = Count(h, K)
  <2>1. Corresponds(h, k, {}, f)
    BY <1>8, <1>9, <1>10, <1>11 DEF Corresponds
  <2>5. Cardinality(PlacesIn(k, K) \ {}) = Count(h, K)
    BY <1>2, <2>1, MovedCount
  <2>6. PlacesIn(k, K) \ {} = PlacesIn(k, K)
    OBVIOUS
  <2>. QED BY <2>5, <2>6 DEF Count
<1>. QED BY <1>12 DEF SameCounts

-----------------------------------------------------------------------------
(* Subscribing. *)

(* k is h with sub subscribed to p: at the end of its list, or of the queue. *)
Subscribes(h, k, p, sub) ==
  /\ k.made = h.made
  /\ \A q \in Proms : q # p => k.slot[q] = h.slot[q]
  /\ Pending(h, p) => /\ k.slot[p] = [h.slot[p] EXCEPT !.subs = Append(@, sub)]
                      /\ k.queue = h.queue
  /\ ~ Pending(h, p) =>
       /\ k.slot[p] = h.slot[p]
       /\ k.queue = Append(h.queue, Task(sub, p, h.slot[p].state = "fulfilled"))

(* A microtask made of a subscriber. *)
LEMMA TaskIn ==
  ASSUME NEW S, NEW sub \in S, NEW p \in Proms, NEW b \in BOOLEAN
  PROVE  Task(sub, p, b) \in Tasks(S)
BY MaxPromsAssumption DEF Task, Tasks, Proms

(* A slot whose list changed. *)
LEMMA SlotWithSubs ==
  ASSUME NEW S, NEW V, NEW s \in Slots(S, V), NEW l \in Seq(S)
  PROVE  [s EXCEPT !.subs = l] \in Slots(S, V)
<1>1. s = [state |-> s.state, value |-> s.value, subs |-> s.subs, handled |-> s.handled,
           by |-> s.by, from |-> s.from, items |-> s.items, results |-> s.results,
           left |-> s.left]
  BY DEF Slots
<1>. QED BY <1>1 DEF Slots

(* A heap with one slot changed, or another queue. *)
LEMMA HeapWithSlot ==
  ASSUME NEW S, NEW V, NEW h \in Heaps(S, V), NEW p \in Proms, NEW s \in Slots(S, V)
  PROVE  /\ [h EXCEPT !.slot[p] = s] \in Heaps(S, V)
         /\ [h EXCEPT !.slot[p] = s].made = h.made
         /\ [h EXCEPT !.slot[p] = s].queue = h.queue
         /\ [h EXCEPT !.slot[p] = s].slot = [h.slot EXCEPT ![p] = s]
<1>1. h = [made |-> h.made, slot |-> h.slot, queue |-> h.queue]
  BY DEF Heaps
<1>. QED BY <1>1, HeapFields DEF Heaps

(* The same for another queue. *)
LEMMA HeapWithQueue ==
  ASSUME NEW S, NEW V, NEW h \in Heaps(S, V), NEW q \in Seq(Tasks(S))
  PROVE  /\ [h EXCEPT !.queue = q] \in Heaps(S, V)
         /\ [h EXCEPT !.queue = q].made = h.made
         /\ [h EXCEPT !.queue = q].queue = q
         /\ [h EXCEPT !.queue = q].slot = h.slot
<1>1. h = [made |-> h.made, slot |-> h.slot, queue |-> h.queue]
  BY DEF Heaps
<1>. QED BY <1>1, HeapFields DEF Heaps

(* What ThenOnSettled does. *)
LEMMA SubscribeFacts ==
  ASSUME NEW S, NEW V, NEW h \in Heaps(S, V), NEW p \in Proms, NEW sub \in S,
         NEW k, k = ThenOnSettled(h, p, sub)
  PROVE  k \in Heaps(S, V) /\ Subscribes(h, k, p, sub)
<1>1. h.slot[p] \in Slots(S, V) /\ h.slot[p].subs \in Seq(S) /\ h.queue \in Seq(Tasks(S))
  BY HeapFields
<1>2. CASE Pending(h, p)
  <2> DEFINE s == [h.slot[p] EXCEPT !.subs = Append(@, sub)]
  <2>1. k = [h EXCEPT !.slot[p] = s]
    BY <1>2 DEF ThenOnSettled
  <2>2. Append(h.slot[p].subs, sub) \in Seq(S)
    BY <1>1, AppendProperties
  <2>3. s \in Slots(S, V)
    BY <1>1, <2>2, SlotWithSubs
  <2> HIDE DEF s
  <2>4. /\ k \in Heaps(S, V) /\ k.made = h.made /\ k.queue = h.queue
        /\ k.slot = [h.slot EXCEPT ![p] = s]
    BY <2>1, <2>3, HeapWithSlot
  <2>5. k.slot[p] = s /\ \A q \in Proms : q # p => k.slot[q] = h.slot[q]
    BY <2>4, HeapFields
  <2>. QED BY <1>2, <2>4, <2>5 DEF Subscribes, s
<1>3. CASE ~ Pending(h, p)
  <2> DEFINE t == Task(sub, p, h.slot[p].state = "fulfilled")
  <2>1. k = [h EXCEPT !.queue = Append(h.queue, t)]
    BY <1>3 DEF ThenOnSettled
  <2>2. t \in Tasks(S)
    BY TaskIn
  <2> HIDE DEF t
  <2>3. Append(h.queue, t) \in Seq(Tasks(S))
    BY <1>1, <2>2, AppendProperties
  <2>4. /\ k \in Heaps(S, V) /\ k.made = h.made /\ k.slot = h.slot
        /\ k.queue = Append(h.queue, t)
    BY <2>1, <2>3, HeapFields DEF Heaps
  <2>. QED BY <1>3, <2>4 DEF Subscribes, t
<1>. QED BY <1>2, <1>3

(* A heap with one more place. *)
LEMMA AddedPlace ==
  ASSUME NEW S, NEW V, NEW h \in Heaps(S, V), NEW k \in Heaps(S, V), NEW e, NEW sub, NEW p,
         e \notin Places(h), Places(k) = Places(h) \cup {e},
         \A at \in Places(h) : SubAt(k, at) = SubAt(h, at),
         SubAt(k, e) = sub
  PROVE  OneMore(h, k, sub)
<1>1. ASSUME NEW K
      PROVE  Count(k, K) = Count(h, K) + IF sub \in K THEN 1 ELSE 0
  <2>1. IsFiniteSet(PlacesIn(h, K)) /\ Count(h, K) \in Nat
    BY CountFacts
  <2>2. CASE sub \in K
    <3>1. PlacesIn(k, K) = PlacesIn(h, K) \cup {e}
      BY <2>2 DEF PlacesIn
    <3>2. e \notin PlacesIn(h, K)
      BY DEF PlacesIn
    <3>. QED BY <2>1, <2>2, <3>1, <3>2, FS_AddElement DEF Count
  <2>3. CASE sub \notin K
    <3>1. PlacesIn(k, K) = PlacesIn(h, K)
      BY <2>3 DEF PlacesIn
    <3>. QED BY <2>1, <2>3, <3>1 DEF Count
  <2>. QED BY <2>2, <2>3
<1>. QED BY <1>1 DEF OneMore

(* k is h with microtask t at the end of the queue. *)
Queues(h, k, t) ==
  /\ k.made = h.made
  /\ \A q \in Made(h) : k.slot[q] = h.slot[q]
  /\ k.queue = Append(h.queue, t)

(* Queueing adds one place, for the microtask, and moves nobody. *)
LEMMA QueuePlaces ==
  ASSUME NEW S, NEW V, NEW h \in Heaps(S, V), NEW k \in Heaps(S, V), NEW t \in Tasks(S),
         Queues(h, k, t)
  PROVE  OneMore(h, k, t.sub)
<1> DEFINE e == <<0, Len(h.queue) + 1>>
<1>1. Made(k) = Made(h) /\ Made(h) \subseteq Proms /\ \A q \in Made(h) : q # 0
  BY HeapFields DEF Queues, Made
<1>2. \A q \in Made(h) : k.slot[q] = h.slot[q]
  BY DEF Queues
<1>3. /\ Len(k.queue) = Len(h.queue) + 1 /\ Len(h.queue) \in Nat
      /\ \A i \in 1..Len(h.queue) : k.queue[i] = h.queue[i]
      /\ k.queue[Len(h.queue) + 1] = t
  BY HeapFields, AppendProperties DEF Queues
<1>4. \A at : at \in Places(k) <=> at \in Places(h) \/ at = e
  <2>1. \A i : i \in 1..Len(k.queue) <=> i \in 1..Len(h.queue) \/ i = Len(h.queue) + 1
    BY <1>3
  <2>2. SUFFICES ASSUME NEW at PROVE at \in Places(k) <=> at \in Places(h) \/ at = e
    OBVIOUS
  <2>3. (\E i \in 1..Len(k.queue) : at = <<0, i>>)
          <=> at = e \/ \E i \in 1..Len(h.queue) : at = <<0, i>>
    BY <2>1
  <2> HIDE DEF e
  <2>4. at \in Places(h) <=> \/ \E i \in 1..Len(h.queue) : at = <<0, i>>
                             \/ \E q \in Made(h) : \E i \in 1..Len(h.slot[q].subs) :
                                  at = <<q, i>>
    BY PlaceCases
  <2>5. at \in Places(k) <=> \/ \E i \in 1..Len(k.queue) : at = <<0, i>>
                             \/ \E q \in Made(k) : \E i \in 1..Len(k.slot[q].subs) :
                                  at = <<q, i>>
    BY PlaceCases
  <2>6. (\E q \in Made(k) : \E i \in 1..Len(k.slot[q].subs) : at = <<q, i>>)
          <=> (\E q \in Made(h) : \E i \in 1..Len(h.slot[q].subs) : at = <<q, i>>)
    BY <1>1, <1>2
  <2>. QED BY <2>3, <2>4, <2>5, <2>6
<1>5. e \notin Places(h)
  <2>1. ASSUME NEW i \in 1..Len(h.queue), e = <<0, i>> PROVE FALSE
    <3>1. Len(h.queue) + 1 = i
      BY <2>1
    <3>. QED BY <1>3, <3>1
  <2>2. ASSUME NEW q \in Made(h), NEW i \in 1..Len(h.slot[q].subs), e = <<q, i>> PROVE FALSE
    BY <1>1, <2>2
  <2> HIDE DEF e
  <2>. QED BY <2>1, <2>2, PlaceCases
<1>6. \A at \in Places(h) : SubAt(k, at) = SubAt(h, at)
  <2>1. SUFFICES ASSUME NEW at \in Places(h) PROVE SubAt(k, at) = SubAt(h, at)
    OBVIOUS
  <2>2. CASE \E i \in 1..Len(h.queue) : at = <<0, i>>
    BY <1>3, <2>2 DEF SubAt
  <2>3. CASE \E q \in Made(h) : \E i \in 1..Len(h.slot[q].subs) : at = <<q, i>>
    BY <1>1, <1>2, <2>3 DEF SubAt
  <2>. QED BY <2>2, <2>3, PlaceCases
<1>7. SubAt(k, e) = t.sub
  BY <1>3 DEF SubAt
<1>8. Places(k) = Places(h) \cup {e}
  BY <1>4
<1> HIDE DEF e
<1>. QED BY <1>5, <1>6, <1>7, <1>8, AddedPlace

(* t is s and x after it. *)
Longer(t, s, x) ==
  /\ Len(t) = Len(s) + 1 /\ Len(s) \in Nat
  /\ \A i \in 1..Len(s) : t[i] = s[i]
  /\ t[Len(s) + 1] = x
  /\ \A i : i \in 1..Len(t) <=> i \in 1..Len(s) \/ i = Len(s) + 1

(* That is what Append makes. *)
LEMMA Appended ==
  ASSUME NEW S, NEW s \in Seq(S), NEW x \in S
  PROVE  Longer(Append(s, x), s, x)
<1> DEFINE t == Append(s, x)
<1>1. Len(t) = Len(s) + 1 /\ Len(s) \in Nat
  BY AppendProperties
<1>2. \A i \in 1..Len(s) : t[i] = s[i]
  BY AppendProperties
<1>3. t[Len(s) + 1] = x
  BY AppendProperties
<1> HIDE DEF t
<1>4. Longer(t, s, x)
  BY <1>1, <1>2, <1>3 DEF Longer
<1>. QED BY <1>4 DEF t

(* Subscribing adds one place, for the subscriber, and moves nobody. *)
LEMMA SubscribePlaces ==
  ASSUME NEW S, NEW V, NEW h \in Heaps(S, V), NEW k \in Heaps(S, V), NEW p \in Made(h),
         NEW sub \in S, Subscribes(h, k, p, sub)
  PROVE  OneMore(h, k, sub)
<1> DEFINE e == <<p, Len(h.slot[p].subs) + 1>>
<1>1. p \in Proms /\ p # 0
  BY HeapFields DEF Made
<1>2. /\ k \in Heaps(S, V) /\ Subscribes(h, k, p, sub)
      /\ h.slot[p] \in Slots(S, V) /\ h.slot[p].subs \in Seq(S)
      /\ h.queue \in Seq(Tasks(S))
  BY <1>1, SubscribeFacts, HeapFields
<1>3. Made(k) = Made(h) /\ Made(h) \subseteq Proms
  BY <1>2, HeapFields DEF Subscribes, Made
<1>4. CASE Pending(h, p)
  <2>1. k.queue = h.queue /\ k.slot[p].subs = Append(h.slot[p].subs, sub)
    BY <1>2, <1>4 DEF Subscribes, Slots
  <2>2. \A q \in Made(h) : q # p => k.slot[q].subs = h.slot[q].subs
    BY <1>2, <1>3 DEF Subscribes
  <2>3. /\ Len(k.slot[p].subs) = Len(h.slot[p].subs) + 1 /\ Len(h.slot[p].subs) \in Nat
        /\ \A i \in 1..Len(h.slot[p].subs) : k.slot[p].subs[i] = h.slot[p].subs[i]
        /\ k.slot[p].subs[Len(h.slot[p].subs) + 1] = sub
        /\ \A i : i \in 1..Len(k.slot[p].subs)
                   <=> i \in 1..Len(h.slot[p].subs) \/ i = Len(h.slot[p].subs) + 1
    <3>1. h.slot[p].subs \in Seq(S) /\ k.slot[p].subs = Append(h.slot[p].subs, sub)
      BY <1>2, <2>1
    <3>2. Longer(k.slot[p].subs, h.slot[p].subs, sub)
      BY <3>1, Appended
    <3>. QED BY <3>2 DEF Longer
  <2>4. \A at : at \in Places(k) <=> at \in Places(h) \/ at = e
    <3>1. \A i : i \in 1..Len(k.slot[p].subs)
                   <=> i \in 1..Len(h.slot[p].subs) \/ i = Len(h.slot[p].subs) + 1
      BY <2>3, Zenon
    <3>2. SUFFICES ASSUME NEW at PROVE at \in Places(k) <=> at \in Places(h) \/ at = e
      OBVIOUS
    <3>3. ASSUME NEW q \in Made(k), NEW i \in 1..Len(k.slot[q].subs), at = <<q, i>>
          PROVE  \/ at = e
                 \/ \E r \in Made(h) : \E j \in 1..Len(h.slot[r].subs) : at = <<r, j>>
      <4>1. CASE q = p
        <5>1. i \in 1..Len(h.slot[p].subs) \/ i = Len(h.slot[p].subs) + 1
          BY <3>1, <3>3, <4>1
        <5>. QED BY <1>4, <3>3, <4>1, <5>1
      <4>2. CASE q # p
        BY <1>3, <2>2, <3>3, <4>2
      <4>. QED BY <4>1, <4>2
    <3>4. ASSUME NEW r \in Made(h), NEW j \in 1..Len(h.slot[r].subs), at = <<r, j>>
          PROVE  \E q \in Made(k) : \E i \in 1..Len(k.slot[q].subs) : at = <<q, i>>
      BY <1>3, <2>2, <3>1, <3>4
    <3>5. ASSUME at = e
          PROVE  \E q \in Made(k) : \E i \in 1..Len(k.slot[q].subs) : at = <<q, i>>
      <4>1. at = <<p, Len(h.slot[p].subs) + 1>>
        BY <1>4, <3>5
      <4>2. Len(h.slot[p].subs) + 1 \in 1..Len(k.slot[p].subs)
        BY <3>1
      <4>. QED BY <1>3, <4>1, <4>2
    <3> HIDE DEF e
    <3>6. at \in Places(h) <=> \/ \E i \in 1..Len(h.queue) : at = <<0, i>>
                               \/ \E q \in Made(h) : \E i \in 1..Len(h.slot[q].subs) :
                                    at = <<q, i>>
      BY PlaceCases
    <3>7. at \in Places(k) <=> \/ \E i \in 1..Len(k.queue) : at = <<0, i>>
                               \/ \E q \in Made(k) : \E i \in 1..Len(k.slot[q].subs) :
                                    at = <<q, i>>
      BY <1>2, PlaceCases
    <3>. QED BY <2>1, <3>3, <3>4, <3>5, <3>6, <3>7
  <2>5. e \notin Places(h)
    <3>1. e = <<p, Len(h.slot[p].subs) + 1>>
      BY <1>4
    <3>2. ASSUME NEW q \in Made(h), NEW i \in 1..Len(h.slot[q].subs), e = <<q, i>>
          PROVE  FALSE
      <4>1. p = q /\ Len(h.slot[p].subs) + 1 = i
        BY <3>1, <3>2
      <4>. QED BY <2>3, <3>2, <4>1
    <3>3. ASSUME NEW i \in 1..Len(h.queue), e = <<0, i>> PROVE FALSE
      BY <1>1, <3>1, <3>3
    <3>. QED BY <3>2, <3>3, PlaceCases
  <2>6. \A at \in Places(h) : SubAt(k, at) = SubAt(h, at)
    <3>1. SUFFICES ASSUME NEW at \in Places(h), at[1] # 0
                   PROVE SubAt(k, at) = SubAt(h, at)
      BY <2>1 DEF SubAt
    <3>2. PICK q \in Made(h) : \E i \in 1..Len(h.slot[q].subs) : at = <<q, i>>
      BY <3>1, PlaceCases
    <3>3. PICK i \in 1..Len(h.slot[q].subs) : at = <<q, i>>
      BY <3>2
    <3>4. at[1] = q /\ at[2] = i
      BY <3>3
    <3>5. k.slot[q].subs[i] = h.slot[q].subs[i]
      BY <2>2, <2>3
    <3>. QED BY <3>1, <3>4, <3>5 DEF SubAt
  <2>7. SubAt(k, e) = sub
    BY <1>1, <1>4, <2>3 DEF SubAt
  <2>8. Places(k) = Places(h) \cup {e}
    BY <2>4
  <2> HIDE DEF e
  <2>. QED BY <1>2, <2>5, <2>6, <2>7, <2>8, AddedPlace
<1>5. CASE ~ Pending(h, p)
  <2> DEFINE t == Task(sub, p, h.slot[p].state = "fulfilled")
  <2>1. /\ k.queue = Append(h.queue, t)
        /\ t \in Tasks(S)
        /\ t.sub = sub
        /\ t.src = p
    <3>1. (h.slot[p].state = "fulfilled") \in BOOLEAN
      OBVIOUS
    <3>2. t \in Tasks(S)
      BY <1>1, <3>1, TaskIn
    <3>3. k.queue = Append(h.queue, t)
      BY <1>2, <1>5 DEF Subscribes
    <3>4. t.sub = sub /\ t.src = p
      BY TaskFields
    <3>. QED BY <3>2, <3>3, <3>4
  <2> HIDE DEF t
  <2>2. \A q \in Made(h) : k.slot[q] = h.slot[q]
    BY <1>2, <1>3, <1>5 DEF Subscribes
  <2>3. Queues(h, k, t)
    BY <1>2, <2>1, <2>2 DEF Queues, Subscribes
  <2>. QED BY <1>2, <2>1, <2>3, QueuePlaces
<1>. QED BY <1>4, <1>5

-----------------------------------------------------------------------------
(* Taking the head of the queue. *)

(* k is h without the first microtask t. *)
Takes(h, k, t) ==
  /\ k.made = h.made /\ k.slot = h.slot
  /\ Len(h.queue) = Len(k.queue) + 1
  /\ h.queue[1] = t
  /\ \A i \in 1..Len(k.queue) : k.queue[i] = h.queue[i + 1]

(* What the loop does before it runs the head of the queue. *)
LEMMA TakeFacts ==
  ASSUME NEW S, NEW V, NEW h \in Heaps(S, V), h.queue # <<>>,
         NEW k, k = [h EXCEPT !.queue = Tail(@)]
  PROVE  /\ k \in Heaps(S, V)
         /\ Head(h.queue) \in Tasks(S)
         /\ Takes(h, k, Head(h.queue))
<1>1. h.queue \in Seq(Tasks(S))
  BY HeapFields
<1>2. /\ Tail(h.queue) \in Seq(Tasks(S)) /\ Head(h.queue) \in Tasks(S)
      /\ Len(Tail(h.queue)) = Len(h.queue) - 1
      /\ \A i \in 1..Len(Tail(h.queue)) : Tail(h.queue)[i] = h.queue[i + 1]
  BY <1>1, HeadTailProperties
<1>3. Head(h.queue) = h.queue[1] /\ Len(h.queue) \in Nat
  BY <1>1
<1>4. k = [h EXCEPT !.queue = Tail(h.queue)]
  OBVIOUS
<1>5. /\ k \in Heaps(S, V) /\ k.made = h.made /\ k.slot = h.slot
      /\ k.queue = Tail(h.queue)
  BY <1>2, <1>4, HeapFields DEF Heaps
<1>. QED BY <1>2, <1>3, <1>5 DEF Takes

(* Taking it removes one place, the head's, and the others move up. *)
LEMMA TakePlaces ==
  ASSUME NEW S, NEW V, NEW h \in Heaps(S, V), NEW k \in Heaps(S, V), NEW t, Takes(h, k, t)
  PROVE  OneMore(k, h, t.sub)
<1> DEFINE f == [a \in Places(k) |-> IF a[1] = 0 THEN <<0, a[2] + 1>> ELSE a]
           e == <<0, 1>>
<1>1. /\ Len(k.queue) \in Nat /\ Len(h.queue) = Len(k.queue) + 1 /\ Len(h.queue) \in Nat
      /\ Made(k) = Made(h) /\ k.slot = h.slot /\ h.queue[1] = t
      /\ \A i \in 1..Len(k.queue) : k.queue[i] = h.queue[i + 1]
      /\ \A q \in Made(h) : q # 0
  BY HeapFields, LenProperties DEF Takes, Made
<1>2. InQueue(h, 1)
  BY <1>1, QueuePlace
<1>3. ASSUME NEW i \in 1..Len(k.queue)
      PROVE  /\ <<0, i>> \in Places(k) /\ f[<<0, i>>] = <<0, i + 1>>
             /\ <<0, i + 1>> \in Places(h) /\ <<0, i + 1>> # e
             /\ SubAt(h, <<0, i + 1>>) = SubAt(k, <<0, i>>)
  <2>1. i + 1 \in 1..Len(h.queue) /\ i + 1 # 1
    BY <1>1
  <2>2. InQueue(k, i) /\ InQueue(h, i + 1)
    BY <2>1, QueuePlace
  <2>3. <<0, i>>[1] = 0 /\ <<0, i>>[2] = i /\ <<0, i + 1>> # <<0, 1>>
    BY <2>1
  <2>. QED BY <1>1, <2>2, <2>3 DEF InQueue
<1>4. ASSUME NEW q \in Made(k), NEW i \in 1..Len(k.slot[q].subs)
      PROVE  /\ <<q, i>> \in Places(k) /\ f[<<q, i>>] = <<q, i>>
             /\ <<q, i>> \in Places(h) /\ <<q, i>> # e
             /\ SubAt(h, <<q, i>>) = SubAt(k, <<q, i>>)
  <2>1. q \in Made(h) /\ i \in 1..Len(h.slot[q].subs) /\ q # 0
    BY <1>1
  <2>2. InList(k, q, i) /\ InList(h, q, i)
    BY <2>1, ListPlace
  <2>3. <<q, i>>[1] # 0 /\ <<q, i>> # <<0, 1>>
    BY <2>1
  <2>. QED BY <1>1, <2>2, <2>3 DEF InList
<1>5. \A a \in Places(k) :
        \/ \E i \in 1..Len(k.queue) : a = <<0, i>>
        \/ \E q \in Made(k) : \E i \in 1..Len(k.slot[q].subs) : a = <<q, i>>
  BY PlaceCases
<1>6. ASSUME NEW c \in Places(h), c # e
      PROVE  \/ \E i \in 1..Len(k.queue) : c = <<0, i + 1>>
             \/ \E q \in Made(k) : \E i \in 1..Len(k.slot[q].subs) : c = <<q, i>>
  <2>1. ASSUME NEW i \in 1..Len(h.queue), c = <<0, i>>
        PROVE  \E j \in 1..Len(k.queue) : c = <<0, j + 1>>
    <3>1. i # 1
      BY <1>6, <2>1
    <3>2. i - 1 \in 1..Len(k.queue) /\ (i - 1) + 1 = i
      BY <1>1, <3>1
    <3>. QED BY <2>1, <3>2
  <2>2. \/ \E i \in 1..Len(h.queue) : c = <<0, i>>
        \/ \E q \in Made(h) : \E i \in 1..Len(h.slot[q].subs) : c = <<q, i>>
    BY PlaceCases
  <2>. QED BY <1>1, <2>1, <2>2
<1> HIDE DEF f
<1>7. ASSUME NEW a \in Places(k)
      PROVE  /\ f[a] \in Places(h) \ {e}
             /\ SubAt(h, f[a]) = SubAt(k, a)
  <2>1. CASE \E i \in 1..Len(k.queue) : a = <<0, i>>
    <3>1. PICK i \in 1..Len(k.queue) : a = <<0, i>>
      BY <2>1
    <3>2. /\ f[a] = <<0, i + 1>> /\ <<0, i + 1>> \in Places(h) /\ <<0, i + 1>> # e
          /\ SubAt(h, <<0, i + 1>>) = SubAt(k, a)
      BY <1>3, <3>1
    <3>. QED BY <3>2
  <2>2. CASE \E q \in Made(k) : \E i \in 1..Len(k.slot[q].subs) : a = <<q, i>>
    <3>1. PICK q \in Made(k) : \E i \in 1..Len(k.slot[q].subs) : a = <<q, i>>
      BY <2>2
    <3>2. PICK i \in 1..Len(k.slot[q].subs) : a = <<q, i>>
      BY <3>1
    <3>3. /\ f[a] = a /\ a \in Places(h) /\ a # e
          /\ SubAt(h, a) = SubAt(k, a)
      BY <1>4, <3>2
    <3>. QED BY <3>3
  <2>. QED BY <1>5, <2>1, <2>2
<1>8. f \in [Places(k) -> Places(h) \ {e}]
  <2>1. f = [a \in Places(k) |-> f[a]]
    BY DEF f
  <2>. QED BY <1>7, <2>1
<1>9. ASSUME NEW c \in Places(h), c # e
      PROVE  \E a \in Places(k) : f[a] = c
  <2>1. CASE \E i \in 1..Len(k.queue) : c = <<0, i + 1>>
    BY <1>3, <2>1
  <2>2. CASE \E q \in Made(k) : \E i \in 1..Len(k.slot[q].subs) : c = <<q, i>>
    <3>1. PICK q \in Made(k) : \E i \in 1..Len(k.slot[q].subs) : c = <<q, i>>
      BY <2>2
    <3>2. PICK i \in 1..Len(k.slot[q].subs) : c = <<q, i>>
      BY <3>1
    <3>3. c \in Places(k) /\ f[c] = c
      BY <1>4, <3>2
    <3>. QED BY <3>3
  <2>. QED BY <1>6, <1>9, <2>1, <2>2
<1>10. ASSUME NEW a \in Places(k), NEW b \in Places(k), f[a] = f[b]
       PROVE  a = b
  <2>1. ASSUME NEW x \in Places(k)
        PROVE  /\ x[1] = 0 => (\E i \in 1..Len(k.queue) : x = <<0, i>> /\ f[x] = <<0, i + 1>>)
               /\ x[1] # 0 => f[x] = x
    <3>1. CASE \E i \in 1..Len(k.queue) : x = <<0, i>>
      <4>1. PICK i \in 1..Len(k.queue) : x = <<0, i>>
        BY <3>1
      <4>2. f[x] = <<0, i + 1>>
        BY <1>3, <4>1
      <4>3. x[1] = 0
        BY <4>1
      <4>. QED BY <4>1, <4>2, <4>3
    <3>2. CASE \E q \in Made(k) : \E i \in 1..Len(k.slot[q].subs) : x = <<q, i>>
      <4>1. PICK q \in Made(k) : \E i \in 1..Len(k.slot[q].subs) : x = <<q, i>>
        BY <3>2
      <4>2. PICK i \in 1..Len(k.slot[q].subs) : x = <<q, i>>
        BY <4>1
      <4>3. f[x] = x
        BY <1>4, <4>2
      <4>4. x[1] = q /\ q # 0
        BY <1>1, <4>2
      <4>. QED BY <4>3, <4>4
    <3>. QED BY <1>5, <3>1, <3>2
  <2>2. CASE a[1] = 0 /\ b[1] = 0
    <3>1. PICK i \in 1..Len(k.queue) : a = <<0, i>> /\ f[a] = <<0, i + 1>>
      BY <2>1, <2>2
    <3>2. PICK j \in 1..Len(k.queue) : b = <<0, j>> /\ f[b] = <<0, j + 1>>
      BY <2>1, <2>2
    <3>3. <<0, i + 1>>[2] = <<0, j + 1>>[2]
      BY <1>10, <3>1, <3>2
    <3>4. i = j
      BY <3>3
    <3>. QED BY <3>1, <3>2, <3>4
  <2>3. ASSUME NEW x \in Places(k), NEW y \in Places(k), x[1] = 0, y[1] # 0
        PROVE  f[x] # f[y]
    <3>1. PICK i \in 1..Len(k.queue) : f[x] = <<0, i + 1>>
      BY <2>1, <2>3
    <3>2. <<0, i + 1>>[1] = 0
      OBVIOUS
    <3>. QED BY <2>1, <2>3, <3>1, <3>2
  <2>4. CASE a[1] # 0 /\ b[1] # 0
    BY <1>10, <2>1, <2>4
  <2>. QED BY <1>10, <2>2, <2>3, <2>4
<1>11. ASSUME NEW K
       PROVE  Count(h, K) = Count(k, K) + IF t.sub \in K THEN 1 ELSE 0
  <2>1. Corresponds(k, h, {e}, f)
    BY <1>7, <1>8, <1>9, <1>10 DEF Corresponds
  <2>2. Cardinality(PlacesIn(h, K) \ {e}) = Count(k, K)
    BY <2>1, MovedCount
  <2>3. IsFiniteSet(PlacesIn(h, K)) /\ Count(h, K) \in Nat
    BY CountFacts
  <2>4. Cardinality(PlacesIn(h, K) \ {e})
          = IF e \in PlacesIn(h, K) THEN Count(h, K) - 1 ELSE Count(h, K)
    BY <2>3, FS_RemoveElement DEF Count
  <2>5. e \in PlacesIn(h, K) <=> t.sub \in K
    BY <1>1, <1>2 DEF PlacesIn, InQueue
  <2>. QED BY <2>2, <2>3, <2>4, <2>5
<1>. QED BY <1>11 DEF OneMore

-----------------------------------------------------------------------------
(* Making a promise. *)

(* k is h with a new promise q that is like FreshSlot but for by. *)
Makes(h, k, q, by) ==
  /\ q = h.made + 1 /\ k.made = q /\ q \in Proms /\ q \notin Made(h)
  /\ k.queue = h.queue
  /\ Made(k) = Made(h) \cup {q}
  /\ k.slot[q] = [FreshSlot EXCEPT !.by = by]
  /\ \A p \in Proms : p # q => k.slot[p] = h.slot[p]

(* What has not been made is as EmptyHeap has it. *)
Unmade(h) == \A p \in Proms : p \notin Made(h) => h.slot[p] = FreshSlot

(* A slot whose maker changed. *)
LEMMA SlotWithBy ==
  ASSUME NEW S, NEW V, NEW s \in Slots(S, V), NEW by \in Origins
  PROVE  [s EXCEPT !.by = by] \in Slots(S, V)
<1>1. s = [state |-> s.state, value |-> s.value, subs |-> s.subs, handled |-> s.handled,
           by |-> s.by, from |-> s.from, items |-> s.items, results |-> s.results,
           left |-> s.left]
  BY DEF Slots
<1>. QED BY <1>1 DEF Slots

(* What newPromise does. *)
LEMMA NewFacts ==
  ASSUME NEW S, NEW V, NoVal \in V, NEW h \in Heaps(S, V), Unmade(h), h.made < MaxProms,
         NEW by \in Origins, NEW k, k = NewPromise(h, by)
  PROVE  /\ k \in Heaps(S, V) /\ Unmade(k)
         /\ Newest(k) = k.made
         /\ Makes(h, k, k.made, by)
         /\ SameSubs(h, k)
<1> DEFINE q == h.made + 1
<1>1. h.made \in Nat /\ MaxProms \in Nat
  BY MaxPromsAssumption, HeapFields
<1>2. q \in Proms /\ q \notin Made(h)
  BY <1>1 DEF Proms, Made
<1>3. h.slot[q] = FreshSlot
  BY <1>2 DEF Unmade
<1>4. [FreshSlot EXCEPT !.by = by] \in Slots(S, V)
  <2>1. <<>> \in Seq(S) /\ <<>> \in Seq(V) /\ <<>> \in Seq(Proms \cup V)
    BY EmptySeq
  <2>2. 0 \in 0..MaxProms
    BY <1>1
  <2>3. FreshSlot \in Slots(S, V)
    BY <2>1, <2>2 DEF Slots, FreshSlot, States, Origins
  <2> HIDE DEF FreshSlot
  <2>. QED BY <2>3, SlotWithBy
<1>5. h = [made |-> h.made, slot |-> h.slot, queue |-> h.queue]
  BY DEF Heaps
<1>6. /\ k.made = q /\ k.queue = h.queue
      /\ k.slot = [h.slot EXCEPT ![q] = [FreshSlot EXCEPT !.by = by]]
      /\ k = [made |-> k.made, slot |-> k.slot, queue |-> k.queue]
  BY <1>3, <1>5, HeapFields DEF NewPromise
<1>7. q \in 0..MaxProms
  BY <1>1
<1>8. k \in Heaps(S, V)
  BY <1>4, <1>6, <1>7, HeapFields DEF Heaps
<1>9. k.slot[q] = [FreshSlot EXCEPT !.by = by] /\ \A p \in Proms : p # q => k.slot[p] = h.slot[p]
  BY <1>2, <1>6, HeapFields
<1>10. Made(k) = Made(h) \cup {q}
  BY <1>1, <1>6 DEF Made
<1>11. Makes(h, k, k.made, by)
  BY <1>2, <1>6, <1>9, <1>10 DEF Makes
<1>12. Unmade(k)
  BY <1>9, <1>10 DEF Unmade
<1>13. SameSubs(h, k)
  <2>1. Made(h) \subseteq Proms
    BY HeapFields
  <2>2. k.slot[q].subs = <<>>
    BY <1>9 DEF FreshSlot
  <2>. QED BY <1>2, <1>6, <1>9, <1>10, <2>1, <2>2 DEF SameSubs
<1>. QED BY <1>8, <1>11, <1>12, <1>13 DEF Newest

-----------------------------------------------------------------------------
(* Subscribers on their way. *)

(* F is the set of the subscribers taken from the queue and not answered yet, or
   about to be subscribed; the subscribers of K there, and in h or there. *)
Held(F, K) == Cardinality(F \cap K)

Total(h, F, K) == Count(h, K) + Held(F, K)

(* A subscriber of F counts for one. *)
LEMMA HeldFacts ==
  ASSUME NEW F, IsFiniteSet(F), NEW K
  PROVE  /\ Held(F, K) \in Nat
         /\ Held(F, K) = 0 <=> F \cap K = {}
         /\ Held({}, K) = 0
<1>1. IsFiniteSet(F \cap K) /\ Held(F, K) \in Nat
  BY FS_Subset, FS_CardinalityType DEF Held
<1>2. Held(F, K) = 0 <=> F \cap K = {}
  BY <1>1, FS_EmptySet DEF Held
<1>3. {} \cap K = {} /\ Held({}, K) = 0
  BY FS_EmptySet DEF Held
<1>. QED BY <1>1, <1>2, <1>3

(* One subscriber more. *)
LEMMA HeldOneMore ==
  ASSUME NEW F, IsFiniteSet(F), NEW s, s \notin F, NEW K
  PROVE  /\ IsFiniteSet(F \cup {s})
         /\ Held(F \cup {s}, K) = Held(F, K) + IF s \in K THEN 1 ELSE 0
<1>1. IsFiniteSet(F \cap K) /\ Held(F, K) \in Nat
  BY FS_Subset, FS_CardinalityType DEF Held
<1>2. IsFiniteSet(F \cup {s})
  BY FS_AddElement
<1>3. CASE s \in K
  <2>1. (F \cup {s}) \cap K = (F \cap K) \cup {s} /\ s \notin F \cap K
    BY <1>3
  <2>2. Held(F \cup {s}, K) = Held(F, K) + 1
    BY <1>1, <2>1, FS_AddElement DEF Held
  <2>. QED BY <1>2, <1>3, <2>2
<1>4. CASE s \notin K
  <2>1. (F \cup {s}) \cap K = F \cap K
    BY <1>4
  <2>2. Held(F \cup {s}, K) = Held(F, K)
    BY <2>1 DEF Held
  <2>. QED BY <1>1, <1>2, <1>4, <2>2
<1>. QED BY <1>3, <1>4

(* Totals are numbers; one that is zero leaves nobody anywhere. *)
LEMMA TotalFacts ==
  ASSUME NEW S, NEW V, NEW h \in Heaps(S, V), NEW F, IsFiniteSet(F), NEW K
  PROVE  /\ Total(h, F, K) \in Nat
         /\ Total(h, F, K) = 0 <=> Count(h, K) = 0 /\ F \cap K = {}
         /\ Total(h, {}, K) = Count(h, K)
         /\ Held(F, K) \in Nat
         /\ Count(h, K) \in Nat
<1>1. Count(h, K) \in Nat
  BY CountFacts
<1>2. Held(F, K) \in Nat /\ (Held(F, K) = 0 <=> F \cap K = {}) /\ Held({}, K) = 0
  BY HeldFacts
<1>. QED BY <1>1, <1>2 DEF Total

(* One subscriber alone. *)
LEMMA HeldAlone ==
  ASSUME NEW s, NEW K
  PROVE  Held({s}, K) = IF s \in K THEN 1 ELSE 0
<1>1. CASE s \in K
  <2>1. {s} \cap K = {s}
    BY <1>1
  <2>. QED BY <1>1, <2>1, FS_Singleton DEF Held
<1>2. CASE s \notin K
  <2>1. {s} \cap K = {}
    BY <1>2
  <2>. QED BY <1>2, <2>1, FS_EmptySet DEF Held
<1>. QED BY <1>1, <1>2

(* A subscriber on its way is counted. *)
LEMMA TotalAlone ==
  ASSUME NEW S, NEW V, NEW h \in Heaps(S, V), NEW s, NEW K, s \in K
  PROVE  Total(h, {s}, K) \in Nat \ {0}
<1>1. Held({s}, K) = 1
  BY HeldAlone
<1>2. Count(h, K) \in Nat
  BY CountFacts
<1>. QED BY <1>1, <1>2 DEF Total

(* A sequence has finitely many positions. *)
LEMMA FiniteDomain ==
  ASSUME NEW S, NEW l \in Seq(S)
  PROVE  IsFiniteSet(DOMAIN l)
<1>1. DOMAIN l = 1..Len(l) /\ Len(l) \in Nat
  BY LenProperties
<1>. QED BY <1>1, FS_Interval

(* A slot whose flag changed. *)
LEMMA SlotWithHandled ==
  ASSUME NEW S, NEW V, NEW s \in Slots(S, V), NEW b \in BOOLEAN
  PROVE  [s EXCEPT !.handled = b] \in Slots(S, V)
<1>1. s = [state |-> s.state, value |-> s.value, subs |-> s.subs, handled |-> s.handled,
           by |-> s.by, from |-> s.from, items |-> s.items, results |-> s.results,
           left |-> s.left]
  BY DEF Slots
<1>. QED BY <1>1 DEF Slots

(* The same for the promise it was made from. *)
LEMMA SlotWithFrom ==
  ASSUME NEW S, NEW V, NEW s \in Slots(S, V), NEW p \in 0..MaxProms
  PROVE  [s EXCEPT !.from = p] \in Slots(S, V)
<1>1. s = [state |-> s.state, value |-> s.value, subs |-> s.subs, handled |-> s.handled,
           by |-> s.by, from |-> s.from, items |-> s.items, results |-> s.results,
           left |-> s.left]
  BY DEF Slots
<1>. QED BY <1>1 DEF Slots

(* One subscriber more, with a name for the set. *)
LEMMA HeldWith ==
  ASSUME NEW F, IsFiniteSet(F), NEW s, s \notin F, NEW G, G = F \cup {s}
  PROVE  /\ IsFiniteSet(G)
         /\ \A K : Held(G, K) = Held(F, K) + IF s \in K THEN 1 ELSE 0
BY HeldOneMore

(* Sets of one. *)
LEMMA SingletonCount ==
  ASSUME NEW x
  PROVE  Cardinality({x}) = 1 /\ IsFiniteSet({x})
BY FS_Singleton

(* Sets of two. *)
LEMMA PairCount ==
  ASSUME NEW x, NEW y, x # y
  PROVE  Cardinality({x, y}) = 2 /\ IsFiniteSet({x, y})
<1>1. Cardinality({x}) = 1 /\ IsFiniteSet({x}) /\ {x, y} = {x} \cup {y}
  BY SingletonCount
<1>. QED BY <1>1, FS_AddElement

(* A slot with what Promise.all keeps there. *)
LEMMA SlotWithItems ==
  ASSUME NEW S, NEW V, NEW s \in Slots(S, V),
         NEW items \in Seq(Proms \cup V), NEW r \in Seq(V), NEW n \in Int
  PROVE  [s EXCEPT !.items = items, !.results = r, !.left = n] \in Slots(S, V)
BY DEF Slots

(* k is h with that in the slot of p. *)
PutsItems(h, k, p, items, r, n) ==
  /\ k.made = h.made /\ k.queue = h.queue /\ Made(k) = Made(h)
  /\ k.slot[p] = [h.slot[p] EXCEPT !.items = items, !.results = r, !.left = n]
  /\ \A q \in Proms : q # p => k.slot[q] = h.slot[q]

(* It is put there at once. *)
LEMMA HeapPutItems ==
  ASSUME NEW S, NEW V, NEW h \in Heaps(S, V), NEW p \in Proms,
         NEW items \in Seq(Proms \cup V), NEW r \in Seq(V), NEW n \in Int,
         NEW k, k = [h EXCEPT !.slot[p].items = items, !.slot[p].results = r,
                              !.slot[p].left = n]
  PROVE  /\ k \in Heaps(S, V)
         /\ PutsItems(h, k, p, items, r, n)
<1> DEFINE s == [h.slot[p] EXCEPT !.items = items, !.results = r, !.left = n]
<1>1. k = [h EXCEPT !.slot[p] = s]
  BY HeapFields DEF Heaps
<1>2. s \in Slots(S, V)
  BY HeapFields, SlotWithItems
<1> HIDE DEF s
<1> DEFINE j == [h EXCEPT !.slot[p] = s]
<1>3. j \in Heaps(S, V)
  BY <1>2, HeapWithSlot
<1>4. j.made = h.made /\ j.queue = h.queue
  BY <1>2, HeapWithSlot
<1>5. j.slot = [h.slot EXCEPT ![p] = s]
  BY <1>2, HeapWithSlot
<1>6. k = j
  BY <1>1
<1> HIDE DEF j
<1>7. h.slot \in [Proms -> Slots(S, V)]
  BY HeapFields
<1>8. /\ j.slot[p] = s /\ Made(j) = Made(h)
      /\ \A q \in Proms : q # p => j.slot[q] = h.slot[q]
  BY <1>4, <1>5, <1>7 DEF Made
<1>. QED BY <1>3, <1>4, <1>6, <1>8 DEF s, PutsItems

(* k is h with the value v of item i of p, and one item less to wait for. *)
Collected(S, V, h, k, p, i, v) ==
  /\ k \in Heaps(S, V)
  /\ k.made = h.made /\ k.queue = h.queue /\ Made(k) = Made(h)
  /\ k.slot[p] = [h.slot[p] EXCEPT !.results = [@ EXCEPT ![i] = v], !.left = @ - 1]
  /\ \A q \in Proms : q # p => k.slot[q] = h.slot[q]

(* A slot with it. *)
LEMMA SlotCollected ==
  ASSUME NEW S, NEW V, NEW s \in Slots(S, V), NEW i \in 1..Len(s.results), NEW v \in V
  PROVE  [s EXCEPT !.results = [@ EXCEPT ![i] = v], !.left = @ - 1] \in Slots(S, V)
<1>1. s.results \in Seq(V) /\ s.left - 1 \in Int
  BY DEF Slots
<1>2. [s.results EXCEPT ![i] = v] \in Seq(V)
  BY <1>1, ExceptSeq
<1>. QED BY <1>1, <1>2 DEF Slots

(* What Promise.all's reaction does before it looks at what is left. *)
LEMMA HeapCollect ==
  ASSUME NEW S, NEW V, NEW h \in Heaps(S, V), NEW p \in Proms,
         NEW i \in 1..Len(h.slot[p].results), NEW v \in V,
         NEW k, k = [h EXCEPT !.slot[p].results[i] = v, !.slot[p].left = @ - 1]
  PROVE  Collected(S, V, h, k, p, i, v)
<1> DEFINE s == [h.slot[p] EXCEPT !.results = [@ EXCEPT ![i] = v], !.left = @ - 1]
<1>1. k = [h EXCEPT !.slot[p] = s]
  BY HeapFields DEF Heaps
<1>2. s \in Slots(S, V)
  BY HeapFields, SlotCollected
<1> HIDE DEF s
<1> DEFINE j == [h EXCEPT !.slot[p] = s]
<1>3. j \in Heaps(S, V)
  BY <1>2, HeapWithSlot
<1>4. j.made = h.made /\ j.queue = h.queue
  BY <1>2, HeapWithSlot
<1>5. j.slot = [h.slot EXCEPT ![p] = s]
  BY <1>2, HeapWithSlot
<1>6. k = j
  BY <1>1
<1> HIDE DEF j
<1>7. h.slot \in [Proms -> Slots(S, V)]
  BY HeapFields
<1>8. /\ j.slot[p] = s /\ Made(j) = Made(h)
      /\ \A q \in Proms : q # p => j.slot[q] = h.slot[q]
  BY <1>4, <1>5, <1>7 DEF Made
<1>. QED BY <1>3, <1>4, <1>6, <1>8 DEF s, Collected
=============================================================================
