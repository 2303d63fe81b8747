------------------------------ MODULE PromiseProofs ------------------------------
(***************************************************************************)
(* Theorems about Promise, for every number of promises and every set of   *)
(* values, features and bounds.                                            *)
(*                                                                         *)
(* The invariant is about a heap and the subscribers on their way: those   *)
(* in F have left the queue and are not answered yet (the callback that    *)
(* runs), or an operation is about to subscribe them.  Counting those in   *)
(* the lists, in the queue and in F together, a promise of then() or       *)
(* finally() has one subscriber until it settles and none after, and each  *)
(* item of a Promise.all has one until it arrives.  Each lemma Adding,     *)
(* Settling, Subscribing, Taking, Collecting says that one step of         *)
(* PromiseHeap keeps that; the operations of Promise are sequences of them.*)
(***************************************************************************)
EXTENDS Promise, PromiseHeapProofs

(* The values of promises that are not promises themselves. *)
Values == Vals \cup {Array, NoVal}

To(p) == {s \in SubRecord : s.target = p}

AllSub(p, i) == Sub("all", p, FALSE, FALSE, i)

ForItem(p, i) == {AllSub(p, i)}

(* The reactions then() and finally() attach. *)
Chained == {"then", "finally"}

(* Subscriber s is one the code makes: what its target is, and, for
   Promise.all, which item it waits for. *)
SubFits(h, s) ==
  /\ s \in SubRecord
  /\ s.kind = "task" => s = Sub("task", 0, TRUE, TRUE, 0)
  /\ s.kind # "task" => s.target \in Made(h)
  /\ s.kind \in Chained => h.slot[s.target].by = s.kind
  /\ s.kind = "adopt" => /\ h.slot[s.target].by \in {"ctor", "then", "race"}
                         /\ s = Adopt(s.target)
  /\ s.kind = "all" => /\ h.slot[s.target].by = "all"
                       /\ s.index \in DOMAIN h.slot[s.target].items
                       /\ s = AllSub(s.target, s.index)

(* q is the promise Promise.all subscribed to for item x. *)
ItemSource(h, x, q) ==
  IF x \in Proms THEN q = x ELSE h.slot[q].state = "fulfilled" /\ h.slot[q].value = x

(* Subscriber s was attached to q. *)
SrcFits(h, s, q) ==
  s.kind # "task" =>
    /\ q \in Made(h)
    /\ s.kind = "finally" => q = h.slot[s.target].from
    /\ s.kind = "all" => ItemSource(h, h.slot[s.target].items[s.index], q)

(* Microtask t is for the side its source settled on. *)
SideFits(h, t) ==
  t.sub.kind # "task" => h.slot[t.src].state = IF t.ok THEN "fulfilled" ELSE "rejected"

TaskFits(h, t) == SubFits(h, t.sub) /\ SrcFits(h, t.sub, t.src) /\ SideFits(h, t)

(* Item i of the Promise.all promise p arrived. *)
Delivered(h, p, i) ==
  LET x == h.slot[p].items[i]
  IN IF x \in Proms
     THEN h.slot[x].state = "fulfilled" /\ h.slot[p].results[i] = h.slot[x].value
     ELSE h.slot[p].results[i] = x

Waiting(h, F, p) ==
  {i \in DOMAIN h.slot[p].items : Total(h, F, ForItem(p, i)) # 0}

AllFits(h, F, p) ==
  LET s == h.slot[p]
      W == Waiting(h, F, p)
  IN /\ Len(s.items) <= 2 /\ Len(s.results) = Len(s.items)
     /\ \A i \in DOMAIN s.items : /\ s.items[i] \in Vals \cup Made(h)
                                  /\ Total(h, F, ForItem(p, i)) <= 1
     /\ Cardinality(W) <= s.left /\ s.left <= Len(s.items)
     /\ s.state = "pending" => s.left = Cardinality(W)
     /\ s.state = "fulfilled" => W = {}
     /\ s.state # "rejected" => \A i \in DOMAIN s.items \ W : Delivered(h, p, i)
     /\ s.state = "rejected" => \E i \in DOMAIN s.items :
                                  /\ s.items[i] \in Proms
                                  /\ h.slot[s.items[i]].state = "rejected"

FinallyFits(h, p) ==
  LET s == h.slot[p]
      o == h.slot[s.from]
  IN /\ s.from \in Made(h)
     /\ s.state = "fulfilled" => o.state = "fulfilled" /\ o.value = s.value
     /\ s.state = "rejected" => o.state # "pending"

(* What the invariant says of promise p.  F holds the subscribers on their way,
   X the Promise.all promise that has collected its last item, if there is one. *)
PromiseInv(h, F, X, p) ==
  /\ h.slot[p].by \in Makers
  /\ h.slot[p].by # "all" => h.slot[p].left = 0
  /\ h.slot[p].by \in Chained =>
       Total(h, F, To(p)) = IF Pending(h, p) THEN 1 ELSE 0
  /\ h.slot[p].by = "all" => /\ AllFits(h, F, p)
                             /\ Pending(h, p) /\ p \notin X => h.slot[p].left > 0
  /\ h.slot[p].by = "finally" => FinallyFits(h, p)

FlightInv(h, F) == IsFiniteSet(F) /\ \A s \in F : SubFits(h, s)

QueueInv(h) == \A i \in 1..Len(h.queue) : TaskFits(h, h.queue[i])

ListInv(h, p) ==
  /\ ~ Pending(h, p) => h.slot[p].subs = <<>>
  /\ \A i \in 1..Len(h.slot[p].subs) : /\ SubFits(h, h.slot[p].subs[i])
                                        /\ SrcFits(h, h.slot[p].subs[i], p)

(* Reactions of one promise are in the order of the promises they settle. *)
QueueOrder(h) ==
  \A i, j \in 1..Len(h.queue) :
    LET t == h.queue[i]
        u == h.queue[j]
    IN i < j /\ t.src = u.src /\ t.sub.kind \in Chained /\ u.sub.kind \in Chained
         => t.sub.target < u.sub.target

ListOrder(h, p) ==
  \A i, j \in 1..Len(h.slot[p].subs) :
    LET s == h.slot[p].subs[i]
        r == h.slot[p].subs[j]
    IN i < j /\ s.kind \in Chained /\ r.kind \in Chained => s.target < r.target

HeapInv(h, F, X) ==
  /\ h \in Heaps(SubRecord, Values) /\ Unmade(h)
  /\ FlightInv(h, F)
  /\ QueueInv(h) /\ QueueOrder(h)
  /\ \A p \in Made(h) : ListInv(h, p) /\ ListOrder(h, p) /\ PromiseInv(h, F, X, p)

InFlight == IF task = NoTask THEN {} ELSE {task.sub}

LoopInv ==
  /\ phase \in {"program", "callback", "drain", "host", "idle"}
  /\ task \in TaskRecord \cup {NoTask}
  /\ (phase = "callback") <=> task # NoTask
  /\ task # NoTask => CallsJS(task) /\ TaskFits(heap, task)

Inv == LoopInv /\ HeapInv(heap, InFlight, {})

-----------------------------------------------------------------------------
(* What no step changes. *)

(* The promises of h are in k, made by the same and settled as they were. *)
Keeps(h, k) ==
  /\ Made(h) \subseteq Made(k)
  /\ \A p \in Made(h) : /\ k.slot[p].by = h.slot[p].by
                        /\ k.slot[p].from = h.slot[p].from
                        /\ k.slot[p].items = h.slot[p].items
  /\ \A p \in Made(h) : ~ Pending(h, p) => /\ k.slot[p].state = h.slot[p].state
                                           /\ k.slot[p].value = h.slot[p].value

(* The counts and fields that PromiseInv looks at for promise p. *)
Unmoved(h, F, k, G, p) ==
  /\ k.slot[p].state = h.slot[p].state
  /\ k.slot[p].value = h.slot[p].value
  /\ k.slot[p].results = h.slot[p].results
  /\ k.slot[p].left = h.slot[p].left
  /\ h.slot[p].by \in Chained => Total(k, G, To(p)) = Total(h, F, To(p))
  /\ h.slot[p].by = "all" =>
       \A i \in DOMAIN h.slot[p].items :
         Total(k, G, ForItem(p, i)) = Total(h, F, ForItem(p, i))

(* Steps compose. *)
LEMMA KeepsTransitive ==
  ASSUME NEW h, NEW j, NEW k, Keeps(h, j), Keeps(j, k)
  PROVE  Keeps(h, k)
BY DEF Keeps, Pending

(* A subscriber that fits still does later. *)
LEMMA FitsKept ==
  ASSUME NEW h, NEW k, Keeps(h, k), NEW s, SubFits(h, s)
  PROVE  /\ SubFits(k, s)
         /\ \A q : SrcFits(h, s, q) => SrcFits(k, s, q)
<1>1. s.kind # "task" => /\ s.target \in Made(h) /\ s.target \in Made(k)
                         /\ k.slot[s.target].by = h.slot[s.target].by
                         /\ k.slot[s.target].from = h.slot[s.target].from
                         /\ k.slot[s.target].items = h.slot[s.target].items
  BY DEF SubFits, Keeps
<1>2. SubFits(k, s)
  <2>1. s.kind \in Chained \/ s.kind = "adopt" \/ s.kind = "all" => s.kind # "task"
    BY DEF Chained
  <2>. QED BY <1>1, <2>1 DEF SubFits
<1>3. ASSUME NEW q, SrcFits(h, s, q) PROVE SrcFits(k, s, q)
  <2>1. SUFFICES ASSUME s.kind # "task" PROVE SrcFits(k, s, q)
    BY DEF SrcFits
  <2>2. q \in Made(h) /\ q \in Made(k)
    BY <1>3, <2>1 DEF SrcFits, Keeps
  <2>3. ASSUME NEW x, ItemSource(h, x, q) PROVE ItemSource(k, x, q)
    BY <2>2, <2>3 DEF ItemSource, Keeps, Pending
  <2>. QED BY <1>1, <1>3, <2>1, <2>2, <2>3 DEF SrcFits
<1>. QED BY <1>2, <1>3

(* So does a microtask. *)
LEMMA TaskKept ==
  ASSUME NEW h, NEW k, Keeps(h, k), NEW t, TaskFits(h, t)
  PROVE  TaskFits(k, t)
<1>1. SubFits(k, t.sub) /\ SrcFits(k, t.sub, t.src)
  BY FitsKept DEF TaskFits
<1>2. SideFits(k, t)
  <2>1. SUFFICES ASSUME t.sub.kind # "task"
                 PROVE  k.slot[t.src].state = IF t.ok THEN "fulfilled" ELSE "rejected"
    BY DEF SideFits
  <2>2. t.src \in Made(h) /\ h.slot[t.src].state = IF t.ok THEN "fulfilled" ELSE "rejected"
    BY <2>1 DEF TaskFits, SrcFits, SideFits
  <2>3. ~ Pending(h, t.src)
    BY <2>2 DEF Pending
  <2>. QED BY <2>2, <2>3 DEF Keeps
<1>. QED BY <1>1, <1>2 DEF TaskFits

(* What a Promise.all has collected stays collected. *)
LEMMA AllKept ==
  ASSUME NEW h, NEW F, NEW k, NEW G, NEW p \in Made(h), Keeps(h, k),
         Unmoved(h, F, k, G, p), h.slot[p].by = "all", AllFits(h, F, p)
  PROVE  AllFits(k, G, p)
<1>1. /\ k.slot[p].items = h.slot[p].items /\ k.slot[p].results = h.slot[p].results
      /\ k.slot[p].state = h.slot[p].state /\ k.slot[p].left = h.slot[p].left
  BY DEF Keeps, Unmoved
<1>2. Waiting(k, G, p) = Waiting(h, F, p)
  BY <1>1 DEF Waiting, Unmoved
<1>3. \A i \in DOMAIN h.slot[p].items : Delivered(h, p, i) => Delivered(k, p, i)
  <2>1. SUFFICES ASSUME NEW i \in DOMAIN h.slot[p].items, Delivered(h, p, i)
                 PROVE  Delivered(k, p, i)
    OBVIOUS
  <2> DEFINE x == h.slot[p].items[i]
  <2>2. CASE x \in Proms
    <3>1. x \in Made(h)
      BY <2>2, ValsAssumption DEF AllFits
    <3>2. h.slot[x].state = "fulfilled" /\ h.slot[p].results[i] = h.slot[x].value
      BY <2>1, <2>2 DEF Delivered
    <3>3. k.slot[x].state = "fulfilled" /\ k.slot[p].results[i] = k.slot[x].value
      BY <1>1, <3>1, <3>2 DEF Keeps, Pending
    <3>. QED BY <1>1, <2>2, <3>3 DEF Delivered
  <2>3. CASE x \notin Proms
    BY <1>1, <2>1, <2>3 DEF Delivered
  <2>. QED BY <2>2, <2>3
<1>4. ASSUME NEW x \in Made(h), h.slot[x].state = "rejected"
      PROVE  k.slot[x].state = "rejected"
  BY <1>4 DEF Keeps, Pending
<1>5. \A i \in DOMAIN h.slot[p].items : h.slot[p].items[i] \in Proms => h.slot[p].items[i] \in Made(h)
  BY ValsAssumption DEF AllFits
<1>6. Vals \cup Made(h) \subseteq Vals \cup Made(k)
  BY DEF Keeps
<1> HIDE DEF Keeps
<1>. QED BY <1>1, <1>2, <1>3, <1>4, <1>5, <1>6 DEF AllFits, Unmoved

(* What PromiseInv says of a promise that did not move. *)
LEMMA PromiseKept ==
  ASSUME NEW h, NEW F, NEW k, NEW G, NEW X, NEW Y, NEW p \in Made(h), Keeps(h, k),
         Unmoved(h, F, k, G, p), p \in X => p \in Y, PromiseInv(h, F, X, p)
  PROVE  PromiseInv(k, G, Y, p)
<1>1. /\ k.slot[p].by = h.slot[p].by /\ k.slot[p].from = h.slot[p].from
      /\ k.slot[p].state = h.slot[p].state /\ k.slot[p].left = h.slot[p].left
      /\ k.slot[p].value = h.slot[p].value
      /\ Pending(k, p) <=> Pending(h, p)
  BY DEF Keeps, Unmoved, Pending
<1>2. k.slot[p].by \in Chained => Total(k, G, To(p)) = IF Pending(k, p) THEN 1 ELSE 0
  BY <1>1 DEF PromiseInv, Unmoved
<1>3. k.slot[p].by = "all" => /\ AllFits(k, G, p)
                              /\ Pending(k, p) /\ p \notin Y => k.slot[p].left > 0
  BY <1>1, AllKept DEF PromiseInv
<1>4. ASSUME k.slot[p].by = "finally" PROVE FinallyFits(k, p)
  <2>1. FinallyFits(h, p) /\ h.slot[p].from \in Made(h)
    BY <1>1, <1>4 DEF PromiseInv, FinallyFits
  <2>2. ~ Pending(h, h.slot[p].from) =>
          /\ k.slot[h.slot[p].from].state = h.slot[h.slot[p].from].state
          /\ k.slot[h.slot[p].from].value = h.slot[h.slot[p].from].value
    BY <2>1 DEF Keeps
  <2>3. h.slot[p].from \in Made(k)
    BY <2>1 DEF Keeps
  <2>. QED BY <1>1, <2>1, <2>2, <2>3 DEF FinallyFits, Pending
<1>. QED BY <1>1, <1>2, <1>3, <1>4 DEF PromiseInv

(* What HeapInv says, part by part. *)
LEMMA HeapParts ==
  ASSUME NEW h, NEW F, NEW X, HeapInv(h, F, X)
  PROVE  /\ h \in Heaps(SubRecord, Values) /\ Unmade(h)
         /\ FlightInv(h, F) /\ IsFiniteSet(F)
         /\ QueueInv(h) /\ QueueOrder(h)
         /\ \A p \in Made(h) : ListInv(h, p) /\ ListOrder(h, p) /\ PromiseInv(h, F, X, p)
         /\ Made(h) \subseteq Proms
<1>1. h \in Heaps(SubRecord, Values)
  BY DEF HeapInv
<1>. QED BY <1>1, HeapFields DEF HeapInv, FlightInv

(* What is in the queue when it does not change. *)
LEMMA QueueKept ==
  ASSUME NEW h, NEW k, Keeps(h, k), k.queue = h.queue, QueueInv(h), QueueOrder(h)
  PROVE  QueueInv(k) /\ QueueOrder(k)
BY TaskKept DEF QueueInv, QueueOrder

(* What is in a list that does not change, and is empty if it must be. *)
LEMMA ListKept ==
  ASSUME NEW h, NEW k, Keeps(h, k), NEW p, k.slot[p].subs = h.slot[p].subs,
         ~ Pending(k, p) => h.slot[p].subs = <<>>, ListInv(h, p), ListOrder(h, p)
  PROVE  ListInv(k, p) /\ ListOrder(k, p)
BY FitsKept DEF ListInv, ListOrder

(* Subscribers F and G count the same for promise p. *)
SameHeld(F, G, p) ==
  /\ Held(G, To(p)) = Held(F, To(p))
  /\ \A i : Held(G, ForItem(p, i)) = Held(F, ForItem(p, i))

(* k is h with a new promise q, which nobody has subscribed to. *)
Adds(h, k, q) ==
  /\ k \in Heaps(SubRecord, Values) /\ Unmade(k)
  /\ Made(k) = Made(h) \cup {q} /\ q \in Proms /\ q \notin Made(h)
  /\ k.queue = h.queue
  /\ \A p \in Made(h) : k.slot[p] = h.slot[p]
  /\ k.slot[q].subs = <<>> /\ k.slot[q].state = "pending"

(* A new promise, with what it will be subscribed to. *)
LEMMA Adding ==
  ASSUME NEW h, NEW F, NEW X, HeapInv(h, F, X), NEW k, NEW q, Adds(h, k, q),
         NEW G, FlightInv(k, G), \A p \in Made(h) : SameHeld(F, G, p),
         NEW Y, X \subseteq Y, PromiseInv(k, G, Y, q)
  PROVE  HeapInv(k, G, Y) /\ Keeps(h, k)
<1>1. Keeps(h, k)
  BY DEF Keeps, Adds
<1>2. SameCounts(h, k)
  <2>1. SameSubs(h, k)
    BY DEF SameSubs, Adds
  <2>. QED BY <2>1, HeapParts, SamePlaces DEF Adds
<1>3. QueueInv(k) /\ QueueOrder(k)
  BY <1>1, HeapParts, QueueKept DEF Adds
<1>4. ASSUME NEW p \in Made(h) PROVE ListInv(k, p) /\ ListOrder(k, p)
  <2>1. /\ k.slot[p].subs = h.slot[p].subs
        /\ ~ Pending(k, p) => h.slot[p].subs = <<>>
    BY HeapParts DEF Adds, Pending, ListInv
  <2>. QED BY <1>1, <2>1, HeapParts, ListKept
<1>5. ListInv(k, q) /\ ListOrder(k, q)
  <2>1. Pending(k, q) /\ Len(k.slot[q].subs) = 0
    BY EmptySeq DEF Adds, Pending
  <2>2. ASSUME NEW i \in 1..Len(k.slot[q].subs) PROVE FALSE
    BY <2>1
  <2>. QED BY <2>1, <2>2 DEF ListInv, ListOrder
<1>6. ASSUME NEW p \in Made(h) PROVE PromiseInv(k, G, Y, p)
  <2>1. k.slot[p] = h.slot[p]
    BY DEF Adds
  <2>2. /\ Total(k, G, To(p)) = Total(h, F, To(p))
        /\ \A i : Total(k, G, ForItem(p, i)) = Total(h, F, ForItem(p, i))
    BY <1>2 DEF Total, SameCounts, SameHeld
  <2>3. Unmoved(h, F, k, G, p)
    BY <2>1, <2>2 DEF Unmoved
  <2>4. PromiseInv(h, F, X, p)
    BY HeapParts
  <2>. QED BY <1>1, <2>3, <2>4, PromiseKept
<1>. QED BY <1>1, <1>3, <1>4, <1>5, <1>6 DEF HeapInv, Adds

(* Settling pending promise p: of those on their way, only subscribers of p
   are answered. *)
LEMMA Settling ==
  ASSUME NEW h, NEW F, NEW X, HeapInv(h, F, X), NEW p \in Made(h), Pending(h, p),
         NEW state \in {"fulfilled", "rejected"}, NEW v \in Values,
         NEW k \in Heaps(SubRecord, Values), Settles(h, k, p, state, v),
         NEW G, FlightInv(h, G), \A q \in Made(h) : q # p => SameHeld(F, G, q),
         NEW Y, X \ {p} \subseteq Y, PromiseInv(k, G, Y, p)
  PROVE  HeapInv(k, G, Y) /\ Keeps(h, k) /\ SameCounts(h, k)
<1> DEFINE n == Len(h.queue)
           m == Len(h.slot[p].subs)
<1>1. /\ Made(k) = Made(h) /\ p \in Proms
      /\ \A q \in Made(h) : q # p => k.slot[q] = h.slot[q]
      /\ k.slot[p].by = h.slot[p].by /\ k.slot[p].from = h.slot[p].from
      /\ k.slot[p].items = h.slot[p].items /\ k.slot[p].subs = <<>>
      /\ k.slot[p].state = state
  <2>1. p \in Proms /\ h.slot[p] \in Slots(SubRecord, Values)
    BY HeapParts, HeapFields
  <2>. QED BY <2>1, HeapParts DEF Settles, Made, Slots
<1>2. Keeps(h, k)
  BY <1>1 DEF Keeps
<1>3. SameCounts(h, k)
  BY HeapParts, SettlePlaces DEF States
<1>4. /\ n \in Nat /\ m \in Nat /\ Len(k.queue) = n + m
      /\ \A i \in 1..n : k.queue[i] = h.queue[i]
      /\ \A i \in 1..m : /\ k.queue[n + i].sub = h.slot[p].subs[i]
                         /\ k.queue[n + i].src = p
                         /\ k.queue[n + i].ok = (state = "fulfilled")
  <2>1. \A i \in 1..m : k.queue[n + i] = Task(h.slot[p].subs[i], p, state = "fulfilled")
    BY DEF Settles
  <2>2. \A i \in 1..m : /\ k.queue[n + i].sub = h.slot[p].subs[i]
                         /\ k.queue[n + i].src = p
                         /\ k.queue[n + i].ok = (state = "fulfilled")
    BY <2>1, TaskFields
  <2>. QED BY <1>1, <2>2, HeapParts, HeapFields, LenProperties DEF Settles
<1> HIDE DEF n, m
<1>5. \A i \in 1..n : TaskFits(k, k.queue[i])
  BY <1>2, <1>4, HeapParts, TaskKept DEF QueueInv, n
<1>6. ASSUME NEW i \in 1..m PROVE TaskFits(k, k.queue[n + i])
  <2>1. SubFits(h, h.slot[p].subs[i]) /\ SrcFits(h, h.slot[p].subs[i], p)
    BY HeapParts DEF ListInv, m
  <2>2. SubFits(k, h.slot[p].subs[i]) /\ SrcFits(k, h.slot[p].subs[i], p)
    BY <1>2, <2>1, FitsKept
  <2>3. SideFits(k, k.queue[n + i])
    BY <1>1, <1>4 DEF SideFits
  <2>. QED BY <1>4, <2>2, <2>3 DEF TaskFits
<1>7. \A i \in 1..Len(k.queue) : i \in 1..n \/ (i - n \in 1..m /\ i = n + (i - n))
  BY <1>4
<1>8. QueueInv(k)
  BY <1>5, <1>6, <1>7 DEF QueueInv
<1>9. QueueOrder(k)
  <2>1. ASSUME NEW i \in 1..n, h.queue[i].sub.kind \in Chained PROVE h.queue[i].src # p
    <3>1. TaskFits(h, h.queue[i])
      BY HeapParts DEF QueueInv, n
    <3>. QED BY <2>1, <3>1 DEF TaskFits, SideFits, Chained, Pending
  <2>2. SUFFICES ASSUME NEW i \in 1..Len(k.queue), NEW j \in 1..Len(k.queue), i < j,
                        k.queue[i].src = k.queue[j].src,
                        k.queue[i].sub.kind \in Chained, k.queue[j].sub.kind \in Chained
                 PROVE  k.queue[i].sub.target < k.queue[j].sub.target
    BY DEF QueueOrder
  <2>3. CASE i \in 1..n /\ j \in 1..n
    <3>1. k.queue[i] = h.queue[i] /\ k.queue[j] = h.queue[j]
      BY <1>4, <2>3
    <3>2. i \in 1..Len(h.queue) /\ j \in 1..Len(h.queue) /\ QueueOrder(h)
      BY <2>3, HeapParts DEF n
    <3>. QED BY <2>2, <3>1, <3>2 DEF QueueOrder
  <2>4. CASE i \in 1..n /\ j - n \in 1..m
    <3>1. k.queue[j].src = p
      <4>1. k.queue[n + (j - n)].src = p
        BY <1>4, <2>4
      <4>2. n + (j - n) = j
        BY <1>4, <2>4
      <4>. QED BY <4>1, <4>2
    <3>. QED BY <1>4, <2>1, <2>2, <2>4, <3>1
  <2>5. CASE i - n \in 1..m /\ j - n \in 1..m
    <3>1. /\ k.queue[i].sub = h.slot[p].subs[i - n] /\ k.queue[j].sub = h.slot[p].subs[j - n]
          /\ i - n < j - n
      BY <1>4, <1>7, <2>2, <2>5
    <3>2. ListOrder(h, p)
      BY HeapParts
    <3>. QED BY <2>2, <2>5, <3>1, <3>2 DEF ListOrder, m
  <2>. QED BY <1>4, <1>7, <2>2, <2>3, <2>4, <2>5
<1>10. ASSUME NEW q \in Made(h) PROVE ListInv(k, q) /\ ListOrder(k, q)
  <2>1. CASE q = p
    <3>1. Len(k.slot[p].subs) = 0
      BY <1>1, EmptySeq
    <3>2. ASSUME NEW i \in 1..Len(k.slot[p].subs) PROVE FALSE
      BY <3>1
    <3>. QED BY <1>1, <2>1, <3>2 DEF ListInv, ListOrder
  <2>2. CASE q # p
    <3>1. /\ k.slot[q].subs = h.slot[q].subs
          /\ ~ Pending(k, q) => h.slot[q].subs = <<>>
      BY <1>1, <2>2, HeapParts DEF Pending, ListInv
    <3>. QED BY <1>2, <3>1, HeapParts, ListKept
  <2>. QED BY <2>1, <2>2
<1>11. ASSUME NEW q \in Made(h), q # p PROVE PromiseInv(k, G, Y, q)
  <2>1. k.slot[q] = h.slot[q] /\ SameHeld(F, G, q)
    BY <1>1, <1>11
  <2>2. /\ Total(k, G, To(q)) = Total(h, F, To(q))
        /\ \A i : Total(k, G, ForItem(q, i)) = Total(h, F, ForItem(q, i))
    BY <1>3, <2>1 DEF Total, SameCounts, SameHeld
  <2>3. Unmoved(h, F, k, G, q)
    BY <2>1, <2>2 DEF Unmoved
  <2>4. PromiseInv(h, F, X, q) /\ (q \in X => q \in Y)
    BY <1>11, HeapParts
  <2>. QED BY <1>2, <2>3, <2>4, PromiseKept
<1>12. FlightInv(k, G)
  BY <1>2, FitsKept DEF FlightInv
<1>13. Unmade(k)
  <2>1. \A q \in Proms : q # p => k.slot[q] = h.slot[q]
    BY DEF Settles
  <2>. QED BY <1>1, <2>1, HeapParts DEF Unmade
<1>. QED BY <1>1, <1>2, <1>3, <1>8, <1>9, <1>10, <1>11, <1>12, <1>13 DEF HeapInv

(* Every reaction in the queue, or in the list of q, that then() or finally()
   attached settles an older promise than sub does. *)
Newer(h, q, sub) ==
  /\ \A i \in 1..Len(h.queue) :
       h.queue[i].sub.kind \in Chained => h.queue[i].sub.target < sub.target
  /\ \A i \in 1..Len(h.slot[q].subs) :
       h.slot[q].subs[i].kind \in Chained => h.slot[q].subs[i].target < sub.target

(* Subscribers F count for promise p as G with sub. *)
Moves(h, F, G, sub, p) ==
  /\ h.slot[p].by \in Chained =>
       Held(F, To(p)) = Held(G, To(p)) + IF sub \in To(p) THEN 1 ELSE 0
  /\ h.slot[p].by = "all" =>
       \A i : Held(F, ForItem(p, i)) = Held(G, ForItem(p, i))
                                          + IF sub \in ForItem(p, i) THEN 1 ELSE 0

(* Subscribing: sub is no longer on its way. *)
LEMMA Subscribing ==
  ASSUME NEW h, NEW F, NEW X, HeapInv(h, F, X), NEW q \in Made(h),
         NEW sub, SubFits(h, sub), SrcFits(h, sub, q), sub.kind \in Chained => Newer(h, q, sub),
         NEW k \in Heaps(SubRecord, Values), Subscribes(h, k, q, sub),
         NEW G, FlightInv(h, G), \A p \in Made(h) : Moves(h, F, G, sub, p)
  PROVE  HeapInv(k, G, X) /\ Keeps(h, k)
<1> DEFINE n == Len(h.queue)
           m == Len(h.slot[q].subs)
           t == Task(sub, q, h.slot[q].state = "fulfilled")
<1>1. /\ Made(k) = Made(h) /\ q \in Proms
      /\ \A p \in Proms : p # q => k.slot[p] = h.slot[p]
      /\ \A p \in Made(h) : p # q => k.slot[p] = h.slot[p]
      /\ h.slot[q] \in Slots(SubRecord, Values) /\ h.slot[q].subs \in Seq(SubRecord)
      /\ h.queue \in Seq(Tasks(SubRecord)) /\ sub \in SubRecord
  BY HeapParts, HeapFields DEF Subscribes, Made, SubFits
<1>2. /\ k.slot[q].by = h.slot[q].by /\ k.slot[q].from = h.slot[q].from
      /\ k.slot[q].items = h.slot[q].items /\ k.slot[q].state = h.slot[q].state
      /\ k.slot[q].value = h.slot[q].value /\ k.slot[q].results = h.slot[q].results
      /\ k.slot[q].left = h.slot[q].left
      /\ k.slot[q].subs = IF Pending(h, q) THEN Append(h.slot[q].subs, sub)
                                           ELSE h.slot[q].subs
  BY <1>1 DEF Subscribes, Slots
<1>3. k.queue = IF Pending(h, q) THEN h.queue ELSE Append(h.queue, t)
  BY DEF Subscribes
<1>4. Keeps(h, k)
  BY <1>1, <1>2 DEF Keeps
<1>5. OneMore(h, k, sub)
  BY <1>1, HeapParts, SubscribePlaces
<1>6. SubFits(k, sub) /\ SrcFits(k, sub, q)
  BY <1>4, FitsKept
<1>7. QueueInv(k) /\ QueueOrder(k)
  <2>1. CASE Pending(h, q)
    BY <1>3, <1>4, <2>1, HeapParts, QueueKept
  <2>2. CASE ~ Pending(h, q)
    <3>1. t.sub = sub /\ t.src = q /\ t.ok = (h.slot[q].state = "fulfilled")
      BY TaskFields
    <3>2. t \in Tasks(SubRecord)
      BY <1>1, TaskIn
    <3> HIDE DEF t
    <3>3. /\ Len(k.queue) = n + 1 /\ n \in Nat
          /\ \A i \in 1..n : k.queue[i] = h.queue[i]
          /\ k.queue[n + 1] = t
      BY <1>1, <1>3, <2>2, <3>2, AppendProperties
    <3>4. \A i \in 1..Len(k.queue) : i \in 1..n \/ i = n + 1
      BY <3>3
    <3>5. TaskFits(k, t)
      <4>1. h.slot[q].state \in States /\ h.slot[q].state # "pending"
        BY <1>1, <2>2 DEF Slots, Pending
      <4>2. SideFits(k, t)
        BY <1>2, <3>1, <4>1 DEF SideFits, States
      <4>. QED BY <1>6, <3>1, <4>2 DEF TaskFits
    <3>6. QueueInv(k)
      BY <1>4, <3>3, <3>4, <3>5, HeapParts, TaskKept DEF QueueInv
    <3>7. SUFFICES ASSUME NEW i \in 1..Len(k.queue), NEW j \in 1..Len(k.queue), i < j,
                          k.queue[i].src = k.queue[j].src,
                          k.queue[i].sub.kind \in Chained, k.queue[j].sub.kind \in Chained
                   PROVE  k.queue[i].sub.target < k.queue[j].sub.target
      BY <3>6 DEF QueueOrder
    <3>8. CASE i \in 1..n /\ j \in 1..n
      BY <3>3, <3>7, <3>8, HeapParts DEF QueueOrder
    <3>9. CASE i \in 1..n /\ j = n + 1
      BY <3>1, <3>3, <3>7, <3>9 DEF Newer
    <3>. QED BY <3>3, <3>4, <3>7, <3>8, <3>9
  <2>. QED BY <2>1, <2>2
<1>8. ASSUME NEW p \in Made(h) PROVE ListInv(k, p) /\ ListOrder(k, p)
  <2>1. Pending(k, p) <=> Pending(h, p)
    BY <1>1, <1>2 DEF Pending
  <2>2. CASE p # q \/ ~ Pending(h, q)
    <3>1. k.slot[p].subs = h.slot[p].subs
      BY <1>1, <1>2, <2>2
    <3>2. ~ Pending(k, p) => h.slot[p].subs = <<>>
      BY <2>1, HeapParts DEF ListInv
    <3>. QED BY <1>4, <3>1, <3>2, HeapParts, ListKept
  <2>3. CASE p = q /\ Pending(h, q)
    <3>1. /\ Len(k.slot[q].subs) = m + 1 /\ m \in Nat
          /\ \A i \in 1..m : k.slot[q].subs[i] = h.slot[q].subs[i]
          /\ k.slot[q].subs[m + 1] = sub
          /\ \A i : i \in 1..Len(k.slot[q].subs) <=> i \in 1..m \/ i = m + 1
      <4>1. k.slot[q].subs = Append(h.slot[q].subs, sub)
        BY <1>2, <2>3
      <4>2. h.slot[q].subs \in Seq(SubRecord) /\ sub \in SubRecord
        BY <1>1
      <4>3. Longer(k.slot[q].subs, h.slot[q].subs, sub)
        BY <4>1, <4>2, Appended
      <4>. QED BY <4>3 DEF Longer, m
    <3>2. ListInv(h, q) /\ ListOrder(h, q)
      BY HeapParts
    <3>3. ListInv(k, q)
      BY <1>4, <1>6, <2>1, <2>3, <3>1, <3>2, FitsKept DEF ListInv
    <3>4. SUFFICES ASSUME NEW i \in 1..Len(k.slot[q].subs), NEW j \in 1..Len(k.slot[q].subs),
                          i < j, k.slot[q].subs[i].kind \in Chained,
                          k.slot[q].subs[j].kind \in Chained
                   PROVE  k.slot[q].subs[i].target < k.slot[q].subs[j].target
      BY <2>3, <3>3 DEF ListOrder
    <3>5. CASE i \in 1..m /\ j \in 1..m
      BY <3>1, <3>2, <3>4, <3>5 DEF ListOrder
    <3>6. CASE i \in 1..m /\ j = m + 1
      BY <3>1, <3>4, <3>6 DEF Newer
    <3>. QED BY <3>1, <3>4, <3>5, <3>6
  <2>. QED BY <2>2, <2>3
<1>9. ASSUME NEW p \in Made(h) PROVE PromiseInv(k, G, X, p)
  <2>1. /\ h.slot[p].by \in Chained => Total(k, G, To(p)) = Total(h, F, To(p))
        /\ h.slot[p].by = "all" =>
             \A i : Total(k, G, ForItem(p, i)) = Total(h, F, ForItem(p, i))
    <3>1. Moves(h, F, G, sub, p)
      OBVIOUS
    <3>2. \A K : /\ Count(h, K) \in Nat /\ Held(G, K) \in Nat
                 /\ Count(k, K) = Count(h, K) + IF sub \in K THEN 1 ELSE 0
      BY <1>5, HeapParts, CountFacts, HeldFacts DEF OneMore, FlightInv
    <3>3. ASSUME NEW K, Held(F, K) = Held(G, K) + IF sub \in K THEN 1 ELSE 0
          PROVE  Total(k, G, K) = Total(h, F, K)
      BY <3>2, <3>3 DEF Total
    <3>. QED BY <3>1, <3>3 DEF Moves
  <2>2. Unmoved(h, F, k, G, p)
    BY <1>1, <1>2, <2>1 DEF Unmoved
  <2>. QED BY <1>4, <2>2, HeapParts, PromiseKept
<1>10. FlightInv(k, G)
  BY <1>4, FitsKept DEF FlightInv
<1>11. Unmade(k)
  BY <1>1, HeapParts DEF Unmade
<1>. QED BY <1>1, <1>4, <1>7, <1>8, <1>9, <1>10, <1>11 DEF HeapInv

(* Taking the head of the queue puts its subscriber on its way. *)
LEMMA Taking ==
  ASSUME NEW h, NEW X, HeapInv(h, {}, X), NEW t, NEW k \in Heaps(SubRecord, Values),
         Takes(h, k, t)
  PROVE  HeapInv(k, {t.sub}, X) /\ TaskFits(k, t) /\ Keeps(h, k)
<1> DEFINE n == Len(k.queue)
<1>1. /\ k.made = h.made /\ k.slot = h.slot /\ Made(k) = Made(h)
      /\ Len(h.queue) = n + 1 /\ n \in Nat
      /\ h.queue[1] = t
      /\ \A i \in 1..n : k.queue[i] = h.queue[i + 1]
  BY HeapFields, LenProperties DEF Takes, Made
<1> HIDE DEF n
<1>2. Keeps(h, k)
  BY <1>1 DEF Keeps
<1>3. OneMore(k, h, t.sub)
  BY HeapParts, TakePlaces
<1>4. 1 \in 1..Len(h.queue) /\ \A i \in 1..n : i + 1 \in 1..Len(h.queue)
  BY <1>1
<1>5. TaskFits(h, t)
  BY <1>1, <1>4, HeapParts DEF QueueInv
<1>6. TaskFits(k, t)
  BY <1>2, <1>5, TaskKept
<1>7. QueueInv(k)
  <2>1. \A i \in 1..n : TaskFits(h, h.queue[i + 1])
    BY <1>4, HeapParts DEF QueueInv
  <2>. QED BY <1>1, <1>2, <2>1, TaskKept DEF QueueInv, n
<1>8. QueueOrder(k)
  <2>1. SUFFICES ASSUME NEW i \in 1..n, NEW j \in 1..n, i < j,
                        k.queue[i].src = k.queue[j].src,
                        k.queue[i].sub.kind \in Chained, k.queue[j].sub.kind \in Chained
                 PROVE  k.queue[i].sub.target < k.queue[j].sub.target
    BY DEF QueueOrder, n
  <2>2. i + 1 < j + 1 /\ k.queue[i] = h.queue[i + 1] /\ k.queue[j] = h.queue[j + 1]
    BY <1>1, <2>1
  <2>3. QueueOrder(h)
    BY HeapParts
  <2>. QED BY <1>4, <2>1, <2>2, <2>3 DEF QueueOrder
<1>9. ASSUME NEW p \in Made(h)
      PROVE  ListInv(k, p) /\ ListOrder(k, p) /\ PromiseInv(k, {t.sub}, X, p)
  <2>1. ListInv(h, p) /\ ListOrder(h, p) /\ PromiseInv(h, {}, X, p)
    BY HeapParts
  <2>2. ListInv(k, p) /\ ListOrder(k, p)
    <3>1. k.slot[p].subs = h.slot[p].subs /\ (~ Pending(k, p) => h.slot[p].subs = <<>>)
      BY <1>1, <2>1 DEF ListInv, Pending
    <3>. QED BY <1>2, <2>1, <3>1, ListKept
  <2>3. ASSUME NEW K PROVE Total(k, {t.sub}, K) = Total(h, {}, K)
    <3>2. Held({}, K) = 0
      BY FS_EmptySet, HeldFacts
    <3>3. Count(h, K) = Count(k, K) + IF t.sub \in K THEN 1 ELSE 0
      BY <1>3 DEF OneMore
    <3>4. Count(k, K) \in Nat /\ Count(h, K) \in Nat
      BY HeapParts, CountFacts
    <3>5. Held({t.sub}, K) = IF t.sub \in K THEN 1 ELSE 0
      BY HeldAlone
    <3>. QED BY <3>2, <3>3, <3>4, <3>5 DEF Total
  <2>4. Unmoved(h, {}, k, {t.sub}, p)
    BY <1>1, <2>3 DEF Unmoved
  <2>. QED BY <1>2, <2>1, <2>2, <2>4, PromiseKept
<1>10. FlightInv(k, {t.sub})
  BY <1>6, FS_Singleton DEF FlightInv, TaskFits
<1>11. Unmade(k)
  BY <1>1, HeapParts DEF Unmade
<1>. QED BY <1>1, <1>2, <1>6, <1>7, <1>8, <1>9, <1>10, <1>11 DEF HeapInv

(* k is h but for the flags that say a rejection is handled. *)
Marks(h, k) ==
  /\ k \in Heaps(SubRecord, Values) /\ Unmade(k)
  /\ k.made = h.made /\ k.queue = h.queue
  /\ \A p \in Made(h) : k.slot[p] = [h.slot[p] EXCEPT !.handled = k.slot[p].handled]

(* The flags play no part. *)
LEMMA Marking ==
  ASSUME NEW h, NEW F, NEW X, HeapInv(h, F, X), NEW k, Marks(h, k)
  PROVE  HeapInv(k, F, X) /\ Keeps(h, k)
<1>1. /\ Made(k) = Made(h) /\ k.queue = h.queue
      /\ k \in Heaps(SubRecord, Values) /\ h \in Heaps(SubRecord, Values)
  BY HeapParts DEF Marks, Made
<1>2. ASSUME NEW p \in Made(h)
      PROVE  /\ k.slot[p].state = h.slot[p].state /\ k.slot[p].value = h.slot[p].value
             /\ k.slot[p].subs = h.slot[p].subs /\ k.slot[p].by = h.slot[p].by
             /\ k.slot[p].from = h.slot[p].from /\ k.slot[p].items = h.slot[p].items
             /\ k.slot[p].results = h.slot[p].results /\ k.slot[p].left = h.slot[p].left
  <2>1. h.slot[p] \in Slots(SubRecord, Values)
    BY HeapParts, HeapFields
  <2>2. k.slot[p] = [h.slot[p] EXCEPT !.handled = k.slot[p].handled]
    BY DEF Marks
  <2>. QED BY <2>1, <2>2 DEF Slots
<1>3. Keeps(h, k)
  BY <1>1, <1>2 DEF Keeps
<1>4. SameCounts(h, k)
  <2>1. SameSubs(h, k)
    BY <1>1, <1>2 DEF SameSubs
  <2>. QED BY <1>1, <2>1, SamePlaces
<1>5. QueueInv(k) /\ QueueOrder(k)
  BY <1>1, <1>3, HeapParts, QueueKept
<1>6. ASSUME NEW p \in Made(h) PROVE ListInv(k, p) /\ ListOrder(k, p)
  <2>1. /\ k.slot[p].subs = h.slot[p].subs
        /\ ~ Pending(k, p) => h.slot[p].subs = <<>>
    BY <1>2, HeapParts DEF Pending, ListInv
  <2>. QED BY <1>3, <2>1, HeapParts, ListKept
<1>7. ASSUME NEW p \in Made(h) PROVE PromiseInv(k, F, X, p)
  <2>1. \A K : Total(k, F, K) = Total(h, F, K)
    BY <1>4 DEF Total, SameCounts
  <2>2. Unmoved(h, F, k, F, p)
    BY <1>2, <2>1 DEF Unmoved
  <2>. QED BY <1>3, <2>2, HeapParts, PromiseKept
<1>8. FlightInv(k, F)
  BY <1>3, HeapParts, FitsKept DEF FlightInv
<1>. QED BY <1>1, <1>3, <1>5, <1>6, <1>7, <1>8 DEF HeapInv, Marks

(* A queueMicrotask callback answers nobody. *)
LEMMA Dropping ==
  ASSUME NEW h, NEW s, NEW X, HeapInv(h, {s}, X), s.kind = "task"
  PROVE  HeapInv(h, {}, X)
<1>1. ASSUME NEW K, s \notin K PROVE Total(h, {}, K) = Total(h, {s}, K)
  <2>1. {} \cap K = {s} \cap K
    BY <1>1
  <2>. QED BY <2>1 DEF Total, Held
<1>2. SubFits(h, s) /\ s.target = 0
  BY HeapParts DEF FlightInv, SubFits, Sub
<1>3. ASSUME NEW p \in Made(h) PROVE PromiseInv(h, {}, X, p)
  <2>1. s \notin To(p)
    BY <1>2 DEF To, Made
  <2>2. \A i : s \notin ForItem(p, i)
    BY DEF ForItem, AllSub, Sub
  <2>3. Unmoved(h, {s}, h, {}, p)
    BY <1>1, <2>1, <2>2 DEF Unmoved
  <2>4. Keeps(h, h)
    BY DEF Keeps
  <2>. QED BY <2>3, <2>4, HeapParts, PromiseKept
<1>4. FlightInv(h, {})
  BY FS_EmptySet DEF FlightInv
<1>. QED BY <1>3, <1>4, HeapParts DEF HeapInv

(* k is h after item i of the Promise.all promise p arrived with value v. *)
Collects(h, k, p, i, v) ==
  /\ k \in Heaps(SubRecord, Values) /\ Unmade(k)
  /\ k.made = h.made /\ k.queue = h.queue
  /\ \A r \in Made(h) : r # p => k.slot[r] = h.slot[r]
  /\ k.slot[p] = [h.slot[p] EXCEPT !.results = k.slot[p].results, !.left = k.slot[p].left]
  /\ k.slot[p].left = h.slot[p].left - 1
  /\ Len(k.slot[p].results) = Len(h.slot[p].results)
  /\ \A j \in 1..Len(h.slot[p].results) :
       k.slot[p].results[j] = IF j = i THEN v ELSE h.slot[p].results[j]

(* One item arrived, perhaps the last. *)
LEMMA Collecting ==
  ASSUME NEW h, NEW s, HeapInv(h, {s}, {}), s.kind = "all", NEW q, SrcFits(h, s, q),
         h.slot[q].state = "fulfilled",
         NEW k, Collects(h, k, s.target, s.index, h.slot[q].value)
  PROVE  HeapInv(k, {}, {s.target}) /\ Keeps(h, k)
<1> DEFINE p == s.target
           i == s.index
           v == h.slot[q].value
<1>1. /\ SubFits(h, s) /\ p \in Made(h) /\ p \in Proms /\ h.slot[p].by = "all"
      /\ i \in DOMAIN h.slot[p].items /\ s = AllSub(p, i)
      /\ h.slot[p] \in Slots(SubRecord, Values)
      /\ q \in Made(h) /\ ItemSource(h, h.slot[p].items[i], q)
  BY HeapParts, HeapFields DEF FlightInv, SubFits, SrcFits
<1>2. /\ Made(k) = Made(h) /\ k.queue = h.queue
      /\ k \in Heaps(SubRecord, Values) /\ h \in Heaps(SubRecord, Values)
  BY HeapParts DEF Collects, Made
<1>3. ASSUME NEW r \in Made(h)
      PROVE  /\ k.slot[r].state = h.slot[r].state /\ k.slot[r].value = h.slot[r].value
             /\ k.slot[r].subs = h.slot[r].subs /\ k.slot[r].by = h.slot[r].by
             /\ k.slot[r].from = h.slot[r].from /\ k.slot[r].items = h.slot[r].items
             /\ r # p => k.slot[r].results = h.slot[r].results /\ k.slot[r].left = h.slot[r].left
  <2>1. h.slot[r] \in Slots(SubRecord, Values)
    BY HeapParts, HeapFields
  <2>2. CASE r = p
    <3>1. k.slot[p] = [h.slot[p] EXCEPT !.results = k.slot[p].results, !.left = k.slot[p].left]
      BY DEF Collects
    <3>. QED BY <2>1, <2>2, <3>1 DEF Slots
  <2>3. CASE r # p
    BY <2>3 DEF Collects
  <2>. QED BY <2>2, <2>3
<1>4. Keeps(h, k)
  BY <1>2, <1>3 DEF Keeps
<1>5. SameCounts(h, k)
  <2>1. SameSubs(h, k)
    BY <1>2, <1>3 DEF SameSubs
  <2>. QED BY <1>2, <2>1, SamePlaces
<1>6. QueueInv(k) /\ QueueOrder(k)
  BY <1>2, <1>4, HeapParts, QueueKept
<1>7. ASSUME NEW r \in Made(h) PROVE ListInv(k, r) /\ ListOrder(k, r)
  <2>1. /\ k.slot[r].subs = h.slot[r].subs
        /\ ~ Pending(k, r) => h.slot[r].subs = <<>>
    BY <1>3, HeapParts DEF Pending, ListInv
  <2>. QED BY <1>4, <2>1, HeapParts, ListKept
<1>8. ASSUME NEW K
      PROVE  /\ Total(h, {s}, K) \in Nat
             /\ s \in K => Total(k, {}, K) = Total(h, {s}, K) - 1
             /\ s \notin K => Total(k, {}, K) = Total(h, {s}, K)
  <2>1. Held({s}, K) = IF s \in K THEN 1 ELSE 0
    BY HeldAlone
  <2>2. Held({}, K) = 0
    BY FS_EmptySet, HeldFacts
  <2>3. Count(k, K) = Count(h, K) /\ Count(h, K) \in Nat
    BY <1>2, <1>5, CountFacts DEF SameCounts
  <2>4. CASE s \in K
    BY <2>1, <2>2, <2>3, <2>4 DEF Total
  <2>5. CASE s \notin K
    BY <2>1, <2>2, <2>3, <2>5 DEF Total
  <2>. QED BY <2>4, <2>5
<1>9. ASSUME NEW r \in Made(h), r # p PROVE PromiseInv(k, {}, {p}, r)
  <2>1. s \notin To(r) /\ \A j : s \notin ForItem(r, j)
    BY <1>9 DEF To, ForItem, AllSub, Sub
  <2>2. /\ Total(k, {}, To(r)) = Total(h, {s}, To(r))
        /\ \A j : Total(k, {}, ForItem(r, j)) = Total(h, {s}, ForItem(r, j))
    BY <1>8, <2>1
  <2>4. Unmoved(h, {s}, k, {}, r)
    BY <1>3, <1>9, <2>2 DEF Unmoved
  <2>. QED BY <1>4, <2>4, HeapParts, PromiseKept
<1>10. PromiseInv(k, {}, {p}, p)
  <2> DEFINE items == h.slot[p].items
             W == Waiting(h, {s}, p)
             U == Waiting(k, {}, p)
  <2>1. AllFits(h, {s}, p) /\ PromiseInv(h, {s}, {}, p)
    BY <1>1, HeapParts DEF PromiseInv
  <2>2. /\ items \in Seq(Proms \cup Values) /\ DOMAIN items = 1..Len(items) /\ Len(items) \in Nat
        /\ Len(h.slot[p].results) = Len(items) /\ h.slot[p].left \in Int
    BY <1>1, <2>1, LenProperties DEF Slots, AllFits
  <2>3. ASSUME NEW j
        PROVE  /\ Total(h, {s}, ForItem(p, j)) \in Nat
               /\ j # i => Total(k, {}, ForItem(p, j)) = Total(h, {s}, ForItem(p, j))
               /\ Total(k, {}, ForItem(p, i)) = Total(h, {s}, ForItem(p, i)) - 1
    <3>1. j # i => s \notin ForItem(p, j)
      BY <1>1 DEF ForItem, AllSub, Sub
    <3>2. s \in ForItem(p, i)
      BY <1>1 DEF ForItem
    <3>3. /\ Total(h, {s}, ForItem(p, j)) \in Nat
          /\ j # i => Total(k, {}, ForItem(p, j)) = Total(h, {s}, ForItem(p, j))
      BY <1>8, <3>1
    <3>4. Total(k, {}, ForItem(p, i)) = Total(h, {s}, ForItem(p, i)) - 1
      BY <1>8, <3>2
    <3>. QED BY <3>3, <3>4
  <2>4. /\ Total(h, {s}, ForItem(p, i)) = 1 /\ Total(k, {}, ForItem(p, i)) = 0
    <3>0. s \in ForItem(p, i)
      BY <1>1 DEF ForItem
    <3>1. Total(h, {s}, ForItem(p, i)) \in Nat \ {0}
      BY <1>2, <3>0, TotalAlone
    <3>2. Total(h, {s}, ForItem(p, i)) <= 1
      BY <1>1, <2>1 DEF AllFits
    <3>. QED BY <2>3, <3>1, <3>2
  <2>5. i \in W /\ U = W \ {i} /\ W \subseteq DOMAIN items
    <3>1. i \in W /\ W \subseteq DOMAIN items
      BY <1>1, <2>4 DEF Waiting
    <3>2. U = {j \in DOMAIN items : Total(k, {}, ForItem(p, j)) # 0}
      BY <1>1, <1>3 DEF Waiting
    <3>3. W = {j \in DOMAIN items : Total(h, {s}, ForItem(p, j)) # 0}
      BY DEF Waiting
    <3>4. \A j \in DOMAIN items : Total(k, {}, ForItem(p, j)) # 0
                                   <=> Total(h, {s}, ForItem(p, j)) # 0 /\ j # i
      BY <2>3, <2>4
    <3> HIDE DEF W, U, items, p, i
    <3>. QED BY <3>1, <3>2, <3>3, <3>4
  <2>6. /\ Cardinality(U) = Cardinality(W) - 1 /\ Cardinality(W) \in Nat
    <3>1. IsFiniteSet(DOMAIN items)
      BY <2>2, FiniteDomain
    <3>2. IsFiniteSet(W)
      BY <2>5, <3>1, FS_Subset
    <3> HIDE DEF W, U
    <3>. QED BY <2>5, <3>2, FS_RemoveElement, FS_CardinalityType
  <2>7. /\ Len(k.slot[p].results) = Len(items) /\ k.slot[p].left = h.slot[p].left - 1
        /\ \A j \in 1..Len(items) :
             k.slot[p].results[j] = IF j = i THEN v ELSE h.slot[p].results[j]
    BY <2>2 DEF Collects
  <2>8. \A j \in DOMAIN items : /\ items[j] \in Vals \cup Made(k)
                                /\ Total(k, {}, ForItem(p, j)) <= 1
    <3>1. SUFFICES ASSUME NEW j \in DOMAIN items
                   PROVE  /\ items[j] \in Vals \cup Made(k)
                          /\ Total(k, {}, ForItem(p, j)) <= 1
      OBVIOUS
    <3>2. /\ items[j] \in Vals \cup Made(h)
          /\ Total(h, {s}, ForItem(p, j)) <= 1
      BY <2>1 DEF AllFits
    <3>3. Total(k, {}, ForItem(p, j)) <= 1
      BY <2>3, <2>4, <3>2
    <3>. QED BY <1>2, <3>2, <3>3
  <2>9. Delivered(k, p, i)
    <3>1. k.slot[p].results[i] = v
      BY <1>1, <2>2, <2>7
    <3>2. k.slot[p].items = items
      BY <1>1, <1>3
    <3>3. k.slot[q].state = "fulfilled" /\ k.slot[q].value = v
      BY <1>1, <1>3
    <3>. QED BY <1>1, <3>1, <3>2, <3>3 DEF Delivered, ItemSource
  <2>10. ASSUME NEW j \in DOMAIN items, j # i, Delivered(h, p, j) PROVE Delivered(k, p, j)
    <3>1. k.slot[p].items = items /\ k.slot[p].results[j] = h.slot[p].results[j]
      BY <1>1, <1>3, <2>2, <2>7, <2>10
    <3>2. items[j] \in Proms => items[j] \in Made(h)
      BY <2>1, ValsAssumption DEF AllFits
    <3>3. CASE items[j] \in Proms
      <4>1. /\ h.slot[items[j]].state = "fulfilled"
            /\ h.slot[p].results[j] = h.slot[items[j]].value
        BY <2>10, <3>3 DEF Delivered
      <4>2. /\ k.slot[items[j]].state = "fulfilled"
            /\ k.slot[items[j]].value = h.slot[items[j]].value
        BY <1>3, <3>2, <3>3, <4>1
      <4>. QED BY <3>1, <3>3, <4>1, <4>2 DEF Delivered
    <3>4. CASE items[j] \notin Proms
      BY <2>10, <3>1, <3>4 DEF Delivered
    <3>. QED BY <3>3, <3>4
  <2>11. AllFits(k, {}, p)
    <3>1. /\ k.slot[p].items = items /\ k.slot[p].state = h.slot[p].state
      BY <1>1, <1>3
    <3>2. h.slot[p].state # "rejected" => \A j \in DOMAIN items \ U : Delivered(k, p, j)
      BY <2>1, <2>5, <2>9, <2>10 DEF AllFits
    <3>3. Cardinality(U) <= k.slot[p].left /\ k.slot[p].left <= Len(items)
      <4>1. /\ Cardinality(W) <= h.slot[p].left /\ h.slot[p].left <= Len(items)
            /\ h.slot[p].left \in Int /\ Len(items) \in Nat
        BY <2>1, <2>2 DEF AllFits
      <4> HIDE DEF W, U, items, p
      <4>. QED BY <2>6, <2>7, <4>1
    <3>4. h.slot[p].state = "pending" => k.slot[p].left = Cardinality(U)
      BY <2>1, <2>2, <2>6, <2>7 DEF AllFits
    <3>5. h.slot[p].state = "fulfilled" => U = {}
      BY <2>1, <2>5 DEF AllFits
    <3>6. h.slot[p].state = "rejected" => \E j \in DOMAIN items :
                                            /\ items[j] \in Proms
                                            /\ k.slot[items[j]].state = "rejected"
      BY <1>3, <2>1, ValsAssumption DEF AllFits
    <3>7. Len(items) <= 2
      BY <2>1 DEF AllFits
    <3> HIDE DEF items, W, p
    <3>. QED BY <2>7, <2>8, <3>1, <3>2, <3>3, <3>4, <3>5, <3>6, <3>7 DEF AllFits
  <2>. QED BY <1>1, <1>3, <2>1, <2>11 DEF PromiseInv, Chained
<1>11. FlightInv(k, {})
  BY FS_EmptySet DEF FlightInv
<1>. QED BY <1>2, <1>4, <1>6, <1>7, <1>9, <1>10, <1>11 DEF HeapInv, Collects

-----------------------------------------------------------------------------
(* The functions of PromiseHeap keep HeapInv. *)

(* What is in a list or in the queue fits. *)
LEMMA PlacesFit ==
  ASSUME NEW h, NEW F, NEW X, HeapInv(h, F, X), NEW at \in Places(h)
  PROVE  SubFits(h, SubAt(h, at))
<1>1. CASE \E i \in 1..Len(h.queue) : at = <<0, i>>
  BY <1>1, HeapParts DEF QueueInv, TaskFits, SubAt
<1>2. CASE \E p \in Made(h) : \E i \in 1..Len(h.slot[p].subs) : at = <<p, i>>
  <2>1. PICK p \in Made(h) : \E i \in 1..Len(h.slot[p].subs) : at = <<p, i>>
    BY <1>2
  <2>2. p # 0
    BY DEF Made
  <2>. QED BY <2>1, <2>2, HeapParts DEF ListInv, SubAt
<1>. QED BY <1>1, <1>2, HeapParts, PlaceCases

(* Nobody has subscribed for a promise that is not made. *)
LEMMA Unclaimed ==
  ASSUME NEW h, NEW F, NEW X, HeapInv(h, F, X), NEW q, q \notin Made(h), q # 0
  PROVE  /\ Total(h, F, To(q)) = 0
         /\ \A i : Total(h, F, ForItem(q, i)) = 0
<1>1. ASSUME NEW s, SubFits(h, s) PROVE s.target # q
  BY <1>1 DEF SubFits, Sub
<1>2. ASSUME NEW at \in Places(h) PROVE SubFits(h, SubAt(h, at))
  BY PlacesFit
<1>3. ASSUME NEW K, \A s \in K : s.target = q PROVE Total(h, F, K) = 0
  <2>1. \A at \in Places(h) : SubAt(h, at) \notin K
    BY <1>1, <1>2, <1>3
  <2>2. Count(h, K) = 0
    BY <2>1, HeapParts, CountFacts
  <2>3. F \cap K = {}
    BY <1>1, <1>3, HeapParts DEF FlightInv
  <2>. QED BY <2>2, <2>3, HeapParts, TotalFacts
<1>4. /\ \A s \in To(q) : s.target = q
      /\ \A i : \A s \in ForItem(q, i) : s.target = q
  BY DEF To, ForItem, AllSub, Sub
<1>. QED BY <1>3, <1>4

(* A new promise that is made neither by then() or finally() nor by
   Promise.all. *)
LEMMA NewPlain ==
  ASSUME NEW h, NEW F, NEW X, HeapInv(h, F, X), h.made < MaxProms,
         NEW by \in {"ctor", "static", "item", "race"}, NEW k, k = NewPromise(h, by)
  PROVE  /\ HeapInv(k, F, X) /\ Keeps(h, k)
         /\ Newest(k) = k.made /\ k.made = h.made + 1 /\ k.made \in Made(k)
         /\ k.made \in Proms /\ Pending(k, k.made) /\ k.slot[k.made].by = by
<1> DEFINE q == k.made
<1>1. NoVal \in Values /\ by \in Origins /\ by \in Makers
  BY DEF Values, Origins, Makers
<1>2. k \in Heaps(SubRecord, Values) /\ Unmade(k) /\ Makes(h, k, q, by) /\ Newest(k) = k.made
  BY <1>1, HeapParts, NewFacts
<1>3. k.slot[q] = [FreshSlot EXCEPT !.by = by] /\ q = h.made + 1 /\ q \in Proms
  BY <1>2 DEF Makes
<1>4. /\ k.slot[q].by = by /\ k.slot[q].left = 0 /\ k.slot[q].subs = <<>>
      /\ k.slot[q].state = "pending"
  BY <1>3 DEF FreshSlot
<1>5. Adds(h, k, q)
  <2>1. Made(h) \subseteq Proms
    BY HeapParts
  <2>. QED BY <1>2, <1>4, <2>1 DEF Adds, Makes
<1>6. PromiseInv(k, F, X, q)
  BY <1>1, <1>4 DEF PromiseInv, Chained
<1>7. \A p \in Made(h) : SameHeld(F, F, p)
  BY DEF SameHeld
<1>8. Keeps(h, k)
  BY <1>5 DEF Adds, Keeps
<1>9. FlightInv(k, F)
  BY <1>8, HeapParts, FitsKept DEF FlightInv
<1>10. HeapInv(k, F, X)
  BY <1>5, <1>6, <1>7, <1>9, Adding
<1>11. q \in Made(k)
  BY <1>5 DEF Adds
<1>. QED BY <1>2, <1>3, <1>4, <1>8, <1>10, <1>11 DEF Pending

(* What settling leaves of promise p, and that it leaves nothing else. *)
Settled(h, k, p, state, v) ==
  /\ k.slot[p].by = h.slot[p].by /\ k.slot[p].from = h.slot[p].from
  /\ k.slot[p].items = h.slot[p].items /\ k.slot[p].results = h.slot[p].results
  /\ k.slot[p].left = h.slot[p].left
  /\ \A q \in Made(h) : q # p => k.slot[q] = h.slot[q]
  /\ Made(k) = Made(h) /\ k.made = h.made
  /\ IF Pending(h, p) THEN k.slot[p].state = state /\ k.slot[p].value = v
                      ELSE k = h
  /\ SameCounts(h, k)

(* What Settle does, then. *)
LEMMA SettledSlot ==
  ASSUME NEW h \in Heaps(SubRecord, Values), NEW p \in Made(h),
         NEW state \in {"fulfilled", "rejected"}, NEW v \in Values,
         NEW k, k = Settle(h, p, state, v)
  PROVE  Settled(h, k, p, state, v)
<1>1. CASE Pending(h, p)
  <2>1. p \in Proms /\ Made(h) \subseteq Proms /\ h.slot[p] \in Slots(SubRecord, Values)
    BY HeapFields
  <2>2. k \in Heaps(SubRecord, Values) /\ Settles(h, k, p, state, v)
    BY <1>1, <2>1, SettleFacts DEF States
  <2>3. SameCounts(h, k)
    BY <2>2, SettlePlaces DEF States
  <2>4. k.slot[p] = [h.slot[p] EXCEPT !.state = state, !.value = v, !.subs = <<>>]
    BY <2>2 DEF Settles
  <2>5. /\ k.slot[p].by = h.slot[p].by /\ k.slot[p].from = h.slot[p].from
        /\ k.slot[p].items = h.slot[p].items /\ k.slot[p].results = h.slot[p].results
        /\ k.slot[p].left = h.slot[p].left
        /\ k.slot[p].state = state /\ k.slot[p].value = v
    BY <2>1, <2>4 DEF Slots
  <2>6. \A q \in Made(h) : q # p => k.slot[q] = h.slot[q]
    BY <2>1, <2>2 DEF Settles
  <2>7. Made(k) = Made(h) /\ k.made = h.made
    BY <2>2 DEF Settles, Made
  <2>. QED BY <1>1, <2>3, <2>5, <2>6, <2>7 DEF Settled
<1>2. CASE ~ Pending(h, p)
  <2>1. k = h
    BY <1>2 DEF Settle, Pending
  <2>. QED BY <1>2, <2>1 DEF Settled, SameCounts
<1>. QED BY <1>1, <1>2

(* Settling, whether or not the promise is pending. *)
LEMMA SettleInv ==
  ASSUME NEW h, NEW F, NEW X, HeapInv(h, F, X), NEW p \in Made(h),
         NEW state \in {"fulfilled", "rejected"}, NEW v \in Values,
         NEW k, k = Settle(h, p, state, v),
         NEW G, FlightInv(h, G), \A q \in Made(h) : q # p => SameHeld(F, G, q),
         NEW Y, X \ {p} \subseteq Y, PromiseInv(k, G, Y, p)
  PROVE  HeapInv(k, G, Y) /\ Keeps(h, k)
<1>1. CASE Pending(h, p)
  <2>1. p \in Proms
    BY HeapParts
  <2>2. k \in Heaps(SubRecord, Values) /\ Settles(h, k, p, state, v)
    BY <1>1, <2>1, HeapParts, SettleFacts DEF States
  <2>. QED BY <1>1, <2>2, Settling
<1>2. CASE ~ Pending(h, p)
  <2>1. k = h
    BY <1>2 DEF Settle, Pending
  <2>2. Keeps(h, h)
    BY DEF Keeps
  <2>3. ASSUME NEW q \in Made(h), q # p PROVE PromiseInv(h, G, Y, q)
    <3>1. SameHeld(F, G, q) /\ PromiseInv(h, F, X, q) /\ (q \in X => q \in Y)
      BY <2>3, HeapParts
    <3>2. Unmoved(h, F, h, G, q)
      BY <3>1 DEF Unmoved, SameHeld, Total
    <3>. QED BY <2>2, <3>1, <3>2, PromiseKept
  <2>. QED BY <2>1, <2>2, <2>3, HeapParts DEF HeapInv
<1>. QED BY <1>1, <1>2

(* Settling a promise that is nobody's to answer. *)
LEMMA SettlePlain ==
  ASSUME NEW h, NEW F, NEW X, HeapInv(h, F, X), NEW p \in Made(h),
         h.slot[p].by \in {"ctor", "static", "item"},
         NEW state \in {"fulfilled", "rejected"}, NEW v \in Values,
         NEW k, k = Settle(h, p, state, v)
  PROVE  HeapInv(k, F, X) /\ Keeps(h, k)
<1>1. Settled(h, k, p, state, v)
  BY HeapParts, SettledSlot
<1>2. PromiseInv(h, F, X, p)
  BY HeapParts
<1>3. PromiseInv(k, F, X, p)
  BY <1>1, <1>2 DEF PromiseInv, Settled, Chained
<1>4. \A q \in Made(h) : q # p => SameHeld(F, F, q)
  BY DEF SameHeld
<1>. QED BY <1>3, <1>4, HeapParts, SettleInv

(* Subscribing, as ThenOnSettled does it. *)
LEMMA SubscribeInv ==
  ASSUME NEW h, NEW F, NEW X, HeapInv(h, F, X), NEW q \in Made(h),
         NEW sub, SubFits(h, sub), SrcFits(h, sub, q), sub.kind \in Chained => Newer(h, q, sub),
         NEW k, k = ThenOnSettled(h, q, sub),
         NEW G, FlightInv(h, G), \A p \in Made(h) : Moves(h, F, G, sub, p)
  PROVE  HeapInv(k, G, X) /\ Keeps(h, k) /\ Made(k) = Made(h) /\ k.made = h.made
<1>1. q \in Proms /\ sub \in SubRecord
  BY HeapParts DEF SubFits
<1>2. k \in Heaps(SubRecord, Values) /\ Subscribes(h, k, q, sub)
  BY <1>1, HeapParts, SubscribeFacts
<1>3. Made(k) = Made(h) /\ k.made = h.made
  BY <1>2 DEF Subscribes, Made
<1>. QED BY <1>2, <1>3, Subscribing

(* The subscriber that a promise resolved with another leaves there. *)
LEMMA AdoptFits ==
  ASSUME NEW h, NEW p \in Made(h), Made(h) \subseteq Proms,
         h.slot[p].by \in {"ctor", "then", "race"}
  PROVE  /\ SubFits(h, Adopt(p))
         /\ \A q \in Made(h) : SrcFits(h, Adopt(p), q)
         /\ Adopt(p).kind = "adopt" /\ Adopt(p).target = p
         /\ \A q : Adopt(p) \in To(q) <=> q = p
         /\ \A q, i : Adopt(p) \notin ForItem(q, i)
<1>1. /\ Adopt(p).kind = "adopt" /\ Adopt(p).target = p /\ Adopt(p) \in SubRecord
      /\ Adopt(Adopt(p).target) = Adopt(p)
  BY DEF Adopt, Sub, SubRecord
<1>2. SubFits(h, Adopt(p))
  BY <1>1 DEF SubFits, Chained
<1>3. \A q \in Made(h) : SrcFits(h, Adopt(p), q)
  BY <1>1 DEF SrcFits
<1>4. \A q, i : Adopt(p) \notin ForItem(q, i)
  BY DEF ForItem, AllSub, Adopt, Sub
<1>5. \A q : Adopt(p) \in To(q) <=> q = p
  BY <1>1 DEF To
<1>. QED BY <1>1, <1>2, <1>3, <1>4, <1>5

(* p, made by new Promise or Promise.race, waits for q. *)
LEMMA AdoptInv ==
  ASSUME NEW h, NEW F, NEW X, HeapInv(h, F, X), NEW p \in Made(h), NEW q \in Made(h),
         h.slot[p].by \in {"ctor", "race"}, NEW k, k = ThenOnSettled(h, q, Adopt(p))
  PROVE  HeapInv(k, F, X) /\ Keeps(h, k) /\ Made(k) = Made(h)
<1>1. /\ SubFits(h, Adopt(p)) /\ SrcFits(h, Adopt(p), q)
      /\ Adopt(p).kind = "adopt"
      /\ \A r : Adopt(p) \in To(r) <=> r = p
      /\ \A r, i : Adopt(p) \notin ForItem(r, i)
  BY HeapParts, AdoptFits
<1>2. IsFiniteSet(F) /\ FlightInv(h, F)
  BY HeapParts
<1>3. ASSUME NEW r \in Made(h) PROVE Moves(h, F, F, Adopt(p), r)
  <2>1. h.slot[r].by \in Chained => Adopt(p) \notin To(r)
    BY <1>1 DEF Chained
  <2>2. \A K : Held(F, K) \in Nat
    BY <1>2, HeldFacts
  <2>3. ASSUME NEW K, Adopt(p) \notin K
        PROVE  Held(F, K) = Held(F, K) + IF Adopt(p) \in K THEN 1 ELSE 0
    BY <2>2, <2>3
  <2>. QED BY <1>1, <2>1, <2>3 DEF Moves
<1>4. ~ (Adopt(p).kind \in Chained)
  BY <1>1 DEF Chained
<1>. QED BY <1>1, <1>2, <1>3, <1>4, SubscribeInv

(* Calling the resolve function of a promise of new Promise. *)
LEMMA ResolveInv ==
  ASSUME NEW h, NEW F, NEW X, HeapInv(h, F, X), NEW p \in Made(h),
         h.slot[p].by \in {"ctor", "static", "item"}, NEW v \in Vals \cup Made(h),
         v \in Proms => h.slot[p].by = "ctor", NEW k, k = ResolvePromise(h, p, v)
  PROVE  HeapInv(k, F, X) /\ Keeps(h, k) /\ Made(k) = Made(h)
<1>1. CASE ~ Pending(h, p)
  BY <1>1 DEF ResolvePromise, Keeps
<1>2. CASE Pending(h, p) /\ v \in Proms
  <2>1. v \in Made(h)
    BY <1>2, ValsAssumption
  <2>2. k = ThenOnSettled(h, v, Adopt(p))
    BY <1>2 DEF ResolvePromise
  <2>. QED BY <1>2, <2>1, <2>2, AdoptInv
<1>3. CASE Pending(h, p) /\ v \notin Proms
  <2>1. v \in Values /\ k = Settle(h, p, "fulfilled", v)
    BY <1>3, HeapParts DEF ResolvePromise, Values
  <2>2. Made(k) = Made(h)
    BY <2>1, HeapParts, SettledSlot DEF Settled
  <2>. QED BY <2>1, <2>2, SettlePlain
<1>. QED BY <1>1, <1>2, <1>3

(* Calling the reject function of one. *)
LEMMA RejectInv ==
  ASSUME NEW h, NEW F, NEW X, HeapInv(h, F, X), NEW p \in Made(h),
         h.slot[p].by \in {"ctor", "static"}, NEW v \in Vals,
         NEW k, k = RejectPromise(h, p, v)
  PROVE  HeapInv(k, F, X) /\ Keeps(h, k)
BY SettlePlain DEF RejectPromise, Values

(* queueMicrotask. *)
LEMMA QueueMicrotaskInv ==
  ASSUME NEW h, NEW F, NEW X, HeapInv(h, F, X), NEW k, k = QueueMicrotask(h)
  PROVE  HeapInv(k, F, X) /\ Keeps(h, k)
<1> DEFINE s == Sub("task", 0, TRUE, TRUE, 0)
           t == Task(s, 0, TRUE)
           n == Len(h.queue)
<1>1. s \in SubRecord /\ s.kind = "task" /\ s.target = 0
  BY DEF Sub, SubRecord
<1>2. t.sub = s /\ t.src = 0
  BY DEF Task
<1>3. t \in Tasks(SubRecord)
  <2>1. 0 \in 0..MaxProms
    BY MaxPromsAssumption
  <2>. QED BY <1>1, <2>1 DEF Task, Tasks
<1>4. SubFits(h, s) /\ TaskFits(h, t)
  <2>1. SubFits(h, s)
    BY <1>1 DEF SubFits, Chained
  <2>. QED BY <1>1, <1>2, <2>1 DEF TaskFits, SrcFits, SideFits
<1> HIDE DEF t
<1>5. k = [h EXCEPT !.queue = Append(h.queue, t)]
  BY DEF QueueMicrotask, t
<1> HIDE DEF s
<1>6. Append(h.queue, t) \in Seq(Tasks(SubRecord))
  BY <1>3, HeapParts, HeapFields, AppendProperties
<1>7. /\ k \in Heaps(SubRecord, Values) /\ k.made = h.made /\ k.slot = h.slot
      /\ k.queue = Append(h.queue, t) /\ Made(k) = Made(h)
  <2> DEFINE l == Append(h.queue, t)
  <2>1. l \in Seq(Tasks(SubRecord)) /\ k = [h EXCEPT !.queue = l]
    BY <1>5, <1>6
  <2> HIDE DEF l
  <2>2. /\ k \in Heaps(SubRecord, Values) /\ k.made = h.made /\ k.slot = h.slot
        /\ k.queue = l
    BY <2>1, HeapParts, HeapWithQueue
  <2>. QED BY <2>2 DEF l, Made
<1>8. /\ Len(k.queue) = n + 1 /\ n \in Nat
      /\ \A i \in 1..n : k.queue[i] = h.queue[i]
      /\ k.queue[n + 1] = t
  BY <1>3, <1>7, HeapParts, HeapFields, AppendProperties
<1>9. Keeps(h, k)
  BY <1>7 DEF Keeps
<1>10. OneMore(h, k, s)
  <2>1. Queues(h, k, t)
    BY <1>7 DEF Queues
  <2>. QED BY <1>2, <1>3, <1>7, <2>1, HeapParts, QueuePlaces
<1>11. \A i \in 1..Len(k.queue) : i \in 1..n \/ i = n + 1
  BY <1>8
<1>12. QueueInv(k)
  BY <1>4, <1>8, <1>9, <1>11, HeapParts, TaskKept DEF QueueInv
<1>13. QueueOrder(k)
  <2>1. SUFFICES ASSUME NEW i \in 1..Len(k.queue), NEW j \in 1..Len(k.queue), i < j,
                        k.queue[i].src = k.queue[j].src,
                        k.queue[i].sub.kind \in Chained, k.queue[j].sub.kind \in Chained
                 PROVE  k.queue[i].sub.target < k.queue[j].sub.target
    BY DEF QueueOrder
  <2>2. i \in 1..n /\ j \in 1..n
    BY <1>1, <1>2, <1>8, <1>11, <2>1 DEF Chained
  <2>. QED BY <1>8, <2>1, <2>2, HeapParts DEF QueueOrder
<1>14. ASSUME NEW p \in Made(h) PROVE ListInv(k, p) /\ ListOrder(k, p)
  BY <1>7, <1>9, HeapParts, ListKept DEF ListInv, Pending
<1>15. ASSUME NEW p \in Made(h) PROVE PromiseInv(k, F, X, p)
  <2>1. s \notin To(p) /\ \A i : s \notin ForItem(p, i)
    BY <1>1 DEF To, ForItem, AllSub, Sub, Made
  <2>2. ASSUME NEW K, s \notin K PROVE Total(k, F, K) = Total(h, F, K)
    <3>1. Count(k, K) = Count(h, K) + 0 /\ Count(h, K) \in Nat
      BY <1>10, <2>2, HeapParts, CountFacts DEF OneMore
    <3>. QED BY <3>1 DEF Total
  <2>3. Unmoved(h, F, k, F, p)
    BY <1>7, <2>1, <2>2 DEF Unmoved
  <2>. QED BY <1>9, <2>3, HeapParts, PromiseKept
<1>16. FlightInv(k, F)
  BY <1>9, HeapParts, FitsKept DEF FlightInv
<1>. QED BY <1>7, <1>9, <1>12, <1>13, <1>14, <1>15, <1>16, HeapParts DEF HeapInv, Unmade

(* A promise that then() or finally() makes comes with its subscriber. *)
LEMMA DerivedInv ==
  ASSUME NEW h, NEW F, NEW X, HeapInv(h, F, X), NEW k, NEW q, Adds(h, k, q),
         q = h.made + 1, NEW p \in Made(h), NEW s \in SubRecord, s.target = q,
         s.kind \in Chained, k.slot[q].by = s.kind, k.slot[q].from = p, k.slot[q].left = 0,
         NEW j, j = ThenOnSettled(k, p, s)
  PROVE  HeapInv(j, F, X) /\ Keeps(h, j)
<1>1. /\ Made(k) = Made(h) \cup {q} /\ q \notin Made(h) /\ q \in Proms /\ q # 0
      /\ p \in Made(k) /\ IsFiniteSet(F)
      /\ s.kind # "task" /\ s.kind # "all" /\ s.kind # "adopt"
  BY HeapParts DEF Adds, Proms, Chained
<1>2. Keeps(h, k)
  BY DEF Adds, Keeps
<1>3. SubFits(k, s) /\ SrcFits(k, s, p)
  BY <1>1 DEF SubFits, SrcFits
<1>4. s \notin F
  <2>1. ~ SubFits(h, s)
    BY <1>1 DEF SubFits
  <2>. QED BY <2>1, HeapParts DEF FlightInv
<1>5. FlightInv(k, F)
  BY <1>2, HeapParts, FitsKept DEF FlightInv
<1>6. FlightInv(k, F \cup {s})
  BY <1>1, <1>3, <1>4, <1>5, HeldOneMore DEF FlightInv
<1>7. ASSUME NEW K
      PROVE  Held(F \cup {s}, K) = Held(F, K) + IF s \in K THEN 1 ELSE 0
  <2>1. IsFiniteSet(F)
    BY <1>1
  <2>. QED BY <1>4, <2>1, HeldOneMore, Zenon
<1>8. ASSUME NEW r PROVE Moves(k, F \cup {s}, F, s, r)
  BY <1>7 DEF Moves
<1>9. ASSUME NEW r \in Made(h) PROVE SameHeld(F, F \cup {s}, r)
  <2>1. r # q
    BY <1>1
  <2>2. s \notin To(r) /\ \A i : s \notin ForItem(r, i)
    BY <1>1, <2>1 DEF To, ForItem, AllSub, Sub
  <2>3. ASSUME NEW K, s \notin K PROVE Held(F \cup {s}, K) = Held(F, K)
    <3>1. Held(F, K) \in Nat
      BY <1>1, HeldFacts
    <3>2. Held(F \cup {s}, K) = Held(F, K) + 0
      BY <1>7, <2>3
    <3>. QED BY <3>1, <3>2
  <2>. QED BY <2>2, <2>3 DEF SameHeld
<1>10. Total(k, F \cup {s}, To(q)) = 1
  <2>1. SameCounts(h, k)
    <3>1. SameSubs(h, k)
      BY DEF SameSubs, Adds
    <3>. QED BY <3>1, HeapParts, SamePlaces DEF Adds
  <2>2. Total(h, F, To(q)) = 0
    BY <1>1, Unclaimed
  <2>3. Count(h, To(q)) = 0 /\ Held(F, To(q)) = 0
    <3>1. Count(h, To(q)) \in Nat /\ Held(F, To(q)) \in Nat
      BY <1>1, HeapParts, TotalFacts
    <3>. QED BY <2>2, <3>1 DEF Total
  <2>4. s \in To(q)
    BY DEF To
  <2>5. Held(F \cup {s}, To(q)) = 1
    <3> DEFINE K == To(q)
    <3>. HIDE DEF K
    <3>1. Held(F \cup {s}, K) = Held(F, K) + IF s \in K THEN 1 ELSE 0
      BY <1>7
    <3>2. Held(F, K) = 0 /\ s \in K
      BY <2>3, <2>4 DEF K
    <3>3. Held(F \cup {s}, K) = 1
      BY <3>1, <3>2
    <3>. QED BY <3>3 DEF K
  <2>. QED BY <2>1, <2>3, <2>5 DEF Total, SameCounts
<1>11. PromiseInv(k, F \cup {s}, X, q)
  <2>1. Pending(k, q) /\ k.slot[q].by \in Makers
    BY DEF Adds, Pending, Chained, Makers
  <2>2. FinallyFits(k, q)
    BY <1>1, <2>1 DEF FinallyFits, Pending
  <2>. QED BY <1>1, <1>10, <2>1, <2>2 DEF PromiseInv
<1>12. HeapInv(k, F \cup {s}, X)
  BY <1>6, <1>9, <1>11, Adding
<1>13. Newer(k, p, s)
  <2>1. ASSUME NEW r, SubFits(h, r), r.kind \in Chained PROVE r.target < s.target
    <3>1. r.target \in 1..h.made /\ h.made \in Nat
      BY <2>1, HeapParts, HeapFields, MaxPromsAssumption DEF SubFits, Chained, Made
    <3>. QED BY <3>1
  <2>2. k.queue = h.queue /\ k.slot[p] = h.slot[p]
    BY DEF Adds
  <2>3. \A i \in 1..Len(h.queue) : SubFits(h, h.queue[i].sub)
    BY HeapParts DEF QueueInv, TaskFits
  <2>4. \A i \in 1..Len(h.slot[p].subs) : SubFits(h, h.slot[p].subs[i])
    BY HeapParts DEF ListInv
  <2>. QED BY <2>1, <2>2, <2>3, <2>4 DEF Newer
<1>14. HeapInv(j, F, X) /\ Keeps(k, j)
  BY <1>1, <1>3, <1>5, <1>8, <1>12, <1>13, SubscribeInv
<1>. QED BY <1>2, <1>14, KeepsTransitive

(* then(), catch() and finally(). *)
LEMMA ThenInv ==
  ASSUME NEW h, NEW F, NEW X, HeapInv(h, F, X), h.made < MaxProms, NEW p \in Made(h),
         NEW kind \in Chained, NEW f \in BOOLEAN, NEW r \in BOOLEAN,
         NEW k, k = PromiseThen(h, p, kind, f, r)
  PROVE  HeapInv(k, F, X) /\ Keeps(h, k)
<1> DEFINE b == h.slot[p].handled \/ (kind = "finally" \/ r)
           s1 == [h.slot[p] EXCEPT !.handled = b]
           h1 == [h EXCEPT !.slot[p] = s1]
           h2 == NewPromise(h1, kind)
           q == Newest(h2)
           h3 == [h2 EXCEPT !.slot[q].from = p]
           s == Sub(kind, q, f, r, 0)
<1>1. p \in Proms /\ h.slot[p] \in Slots(SubRecord, Values)
  BY HeapParts, HeapFields
<1>2. s1 \in Slots(SubRecord, Values)
  <2>1. b \in BOOLEAN
    OBVIOUS
  <2> HIDE DEF b
  <2>. QED BY <1>1, <2>1, SlotWithHandled
<1>3. h1 = [h EXCEPT !.slot[p].handled = @ \/ (kind = "finally" \/ r)]
  BY <1>1, HeapParts, HeapFields
<1>4. k = ThenOnSettled(h3, p, s)
  BY <1>3 DEF PromiseThen
<1>5. Marks(h, h1) /\ h1.made = h.made /\ Made(h1) = Made(h)
  <2> HIDE DEF s1
  <2>1. /\ h1 \in Heaps(SubRecord, Values) /\ h1.made = h.made /\ h1.queue = h.queue
        /\ h1.slot = [h.slot EXCEPT ![p] = s1]
    BY <1>1, <1>2, HeapParts, HeapWithSlot
  <2>2. /\ h1.slot[p] = s1 /\ Made(h1) = Made(h)
        /\ \A x \in Proms : x # p => h1.slot[x] = h.slot[x]
    BY <1>1, <2>1, HeapParts, HeapFields DEF Made
  <2> HIDE DEF h1
  <2>3. Unmade(h1)
    BY <2>2, HeapParts DEF Unmade
  <2>4. ASSUME NEW x \in Made(h)
        PROVE  h1.slot[x] = [h.slot[x] EXCEPT !.handled = h1.slot[x].handled]
    <3>1. h.slot[x] \in Slots(SubRecord, Values) /\ x \in Proms
      BY HeapParts, HeapFields
    <3>2. CASE x = p
      <4>1. s1.handled = b
        BY <1>1 DEF s1, Slots
      <4>. QED BY <2>2, <3>2, <4>1 DEF s1
    <3>3. CASE x # p
      BY <2>2, <3>1, <3>3 DEF Slots
    <3>. QED BY <3>2, <3>3
  <2>. QED BY <2>1, <2>2, <2>3, <2>4 DEF Marks
<1>6. HeapInv(h1, F, X) /\ Keeps(h, h1)
  BY <1>5, Marking
<1> HIDE DEF h1
<1>7. /\ h2 \in Heaps(SubRecord, Values) /\ Unmade(h2)
      /\ q = h2.made /\ Makes(h1, h2, q, kind)
  <2>1. NoVal \in Values /\ kind \in Origins
    BY DEF Values, Origins, Chained
  <2>. QED BY <1>5, <1>6, <2>1, HeapParts, NewFacts
<1>8. /\ q = h1.made + 1 /\ q \in Proms /\ q \notin Made(h1) /\ Made(h2) = Made(h1) \cup {q}
      /\ h2.queue = h1.queue /\ \A x \in Proms : x # q => h2.slot[x] = h1.slot[x]
      /\ h2.slot[q] = [FreshSlot EXCEPT !.by = kind]
      /\ h2.slot[q] \in Slots(SubRecord, Values)
  BY <1>7, HeapFields DEF Makes
<1>8a. h3 = [h2 EXCEPT !.slot[q] = [h2.slot[q] EXCEPT !.from = p]]
  BY <1>7, <1>8, HeapFields
<1> HIDE DEF h2, q, h3
<1> DEFINE s3 == [h2.slot[q] EXCEPT !.from = p]
<1>9. s3 \in Slots(SubRecord, Values)
  <2>1. p \in 0..MaxProms
    BY <1>1, MaxPromsAssumption DEF Proms
  <2>. QED BY <1>8, <2>1, SlotWithFrom
<1>10. /\ s3.by = kind /\ s3.from = p /\ s3.left = 0 /\ s3.subs = <<>>
       /\ s3.state = "pending"
  BY <1>8 DEF FreshSlot
<1> HIDE DEF s3
<1>11. /\ h3 \in Heaps(SubRecord, Values) /\ h3.made = h2.made /\ h3.queue = h2.queue
       /\ h3.slot = [h2.slot EXCEPT ![q] = s3]
  <2>1. h3 = [h2 EXCEPT !.slot[q] = s3]
    BY <1>8a DEF s3
  <2> DEFINE j == [h2 EXCEPT !.slot[q] = s3]
  <2>2. /\ j \in Heaps(SubRecord, Values) /\ j.made = h2.made /\ j.queue = h2.queue
        /\ j.slot = [h2.slot EXCEPT ![q] = s3]
    <3>1. h2 \in Heaps(SubRecord, Values) /\ q \in Proms
      BY <1>7, <1>8
    <3>2. s3 \in Slots(SubRecord, Values)
      BY <1>9
    <3>3. j \in Heaps(SubRecord, Values)
      BY <3>1, <3>2, HeapWithSlot
    <3>4. j.made = h2.made /\ j.queue = h2.queue
      BY <3>1, <3>2, HeapWithSlot
    <3>5. j.slot = [h2.slot EXCEPT ![q] = s3]
      BY <3>1, <3>2, HeapWithSlot
    <3>. QED BY <3>3, <3>4, <3>5
  <2>3. h3 = j
    BY <2>1
  <2> HIDE DEF j
  <2>. QED BY <2>2, <2>3
<1>12. /\ h3.slot[q] = s3 /\ Made(h3) = Made(h2)
       /\ \A x \in Proms : x # q => h3.slot[x] = h2.slot[x]
  <2>1. q \in Proms /\ DOMAIN h2.slot = Proms
    BY <1>7, <1>8, HeapFields
  <2>. QED BY <1>11, <2>1 DEF Made
<1>13. Adds(h1, h3, q)
  <2>1. Unmade(h3)
    BY <1>7, <1>8, <1>12 DEF Unmade
  <2>2. \A x \in Made(h1) : h3.slot[x] = h1.slot[x]
    BY <1>6, <1>8, <1>12, HeapParts
  <2>. QED BY <1>8, <1>10, <1>11, <1>12, <2>1, <2>2 DEF Adds
<1>14. s \in SubRecord /\ s.target = q /\ s.kind = kind
  BY <1>8 DEF Sub, SubRecord, Chained
<1> HIDE DEF s
<1>15. HeapInv(k, F, X) /\ Keeps(h1, k)
  <2>1. h3.slot[q].by = kind /\ h3.slot[q].from = p /\ h3.slot[q].left = 0 /\ p \in Made(h1)
    BY <1>5, <1>10, <1>12
  <2>. QED BY <1>4, <1>6, <1>8, <1>13, <1>14, <2>1, DerivedInv
<1>. QED BY <1>6, <1>15, KeepsTransitive

-----------------------------------------------------------------------------
(* Promise.all and Promise.race. *)

(* The subscribers of their items: F has the one for Promise.all, and those of
   Promise.race are not counted. *)
Carried(h, F, G, sub) ==
  \/ sub.kind = "all" /\ sub \notin G /\ F = G \cup {sub}
  \/ sub.kind = "adopt" /\ h.slot[sub.target].by = "race" /\ F = G

(* Subscribing one moves it as Subscribing wants. *)
LEMMA CarriedMoves ==
  ASSUME NEW h, NEW F, NEW G, NEW sub, IsFiniteSet(G), SubFits(h, sub),
         Carried(h, F, G, sub), NEW p
  PROVE  Moves(h, F, G, sub, p)
<1>1. CASE sub.kind = "all" /\ sub \notin G /\ F = G \cup {sub}
  <2>1. ASSUME NEW K
        PROVE  Held(F, K) = Held(G, K) + IF sub \in K THEN 1 ELSE 0
    BY <1>1, HeldOneMore
  <2>. QED BY <2>1 DEF Moves
<1>2. CASE sub.kind = "adopt" /\ h.slot[sub.target].by = "race" /\ F = G
  <2>1. ASSUME NEW K, sub \notin K
        PROVE  Held(F, K) = Held(G, K) + IF sub \in K THEN 1 ELSE 0
    BY <1>2, <2>1, HeldFacts
  <2>2. \A i : sub \notin ForItem(p, i)
    BY <1>2 DEF ForItem, AllSub, Sub
  <2>3. h.slot[p].by \in Chained => sub \notin To(p)
    BY <1>2 DEF To, Chained
  <2>. QED BY <2>1, <2>2, <2>3 DEF Moves
<1>. QED BY <1>1, <1>2 DEF Carried

(* The loop body for one item. *)
LEMMA ItemInv ==
  ASSUME NEW h, NEW F, NEW X, HeapInv(h, F, X), NEW x \in Vals \cup Made(h),
         x \notin Proms => h.made < MaxProms,
         NEW sub, SubFits(h, sub),
         sub.kind = "all" => h.slot[sub.target].items[sub.index] = x,
         NEW G, FlightInv(h, G), Carried(h, F, G, sub),
         NEW k, k = SubscribeItem(h, x, sub)
  PROVE  /\ HeapInv(k, G, X) /\ Keeps(h, k)
         /\ k.made = IF x \in Proms THEN h.made ELSE h.made + 1
<1>1. sub.kind \in {"all", "adopt"} /\ sub.target \in Made(h)
  BY DEF Carried, SubFits
<1>2. ASSUME NEW j, Keeps(h, j)
      PROVE  /\ SubFits(j, sub) /\ FlightInv(j, G) /\ Carried(j, F, G, sub)
             /\ sub.kind = "all" => j.slot[sub.target].items[sub.index] = x
  <2>1. SubFits(j, sub) /\ FlightInv(j, G)
    BY <1>2, FitsKept DEF FlightInv
  <2>. QED BY <1>1, <1>2, <2>1 DEF Keeps, Carried
<1>3. ASSUME NEW j, Keeps(h, j), HeapInv(j, F, X), NEW q \in Made(j), ItemSource(j, x, q),
             k = ThenOnSettled(j, q, sub)
      PROVE  HeapInv(k, G, X) /\ Keeps(h, k) /\ k.made = j.made
  <2>1. \A p \in Made(j) : Moves(j, F, G, sub, p)
    BY <1>2, <1>3, CarriedMoves DEF FlightInv
  <2>2. SrcFits(j, sub, q)
    BY <1>1, <1>2, <1>3 DEF SrcFits
  <2>3. ~ (sub.kind \in Chained)
    BY <1>1 DEF Chained
  <2>4. HeapInv(k, G, X) /\ Keeps(j, k) /\ k.made = j.made
    BY <1>2, <1>3, <2>1, <2>2, <2>3, SubscribeInv
  <2>. QED BY <1>3, <2>4, KeepsTransitive
<1>4. CASE x \in Proms
  <2>1. x \in Made(h) /\ ItemSource(h, x, x) /\ Keeps(h, h)
    BY <1>4, ValsAssumption DEF ItemSource, Keeps
  <2>2. k = ThenOnSettled(h, x, sub)
    BY <1>4 DEF SubscribeItem
  <2>. QED BY <1>3, <1>4, <2>1, <2>2
<1>5. CASE x \notin Proms
  <2> DEFINE h1 == NewPromise(h, "item")
             q  == Newest(h1)
             h2 == ResolvePromise(h1, q, x)
  <2>1. k = ThenOnSettled(h2, q, sub)
    BY <1>5 DEF SubscribeItem
  <2>2. /\ HeapInv(h1, F, X) /\ Keeps(h, h1) /\ q = h1.made /\ h1.made = h.made + 1
        /\ q \in Made(h1) /\ Pending(h1, q) /\ h1.slot[q].by = "item"
    BY <1>5, NewPlain
  <2> HIDE DEF h1, q
  <2>3. x \in Values /\ h2 = Settle(h1, q, "fulfilled", x)
    <3>1. x \in Vals
      BY <1>5, HeapParts
    <3>. QED BY <1>5, <2>2, <3>1 DEF ResolvePromise, Values
  <2> HIDE DEF h2
  <2>4. HeapInv(h2, F, X) /\ Keeps(h1, h2)
    BY <2>2, <2>3, SettlePlain
  <2>5. Settled(h1, h2, q, "fulfilled", x)
    BY <2>2, <2>3, HeapParts, SettledSlot
  <2>6. q \in Made(h2) /\ ItemSource(h2, x, q) /\ h2.made = h.made + 1
    BY <1>5, <2>2, <2>5 DEF Settled, ItemSource
  <2>7. Keeps(h, h2)
    BY <2>2, <2>4, KeepsTransitive
  <2>. QED BY <1>3, <1>5, <2>1, <2>4, <2>6, <2>7
<1>. QED BY <1>4, <1>5

(* The loop over no items and over two. *)
LEMMA NoItems ==
  ASSUME NEW h, NEW subs
  PROVE  SubscribeItems(h, <<>>, subs) = h
<1> DEFINE Step(f) == [i \in 0..0 |-> IF i = 0 THEN h ELSE SubscribeItem(f[i - 1], <<>>[i], subs[i])]
           g == [i \in 0..0 |-> h]
<1>1. SubscribeItems(h, <<>>, subs) = (CHOOSE f : f = Step(f))[0]
  BY DEF SubscribeItems
<1>2. g = Step(g)
  OBVIOUS
<1>3. (CHOOSE f : f = Step(f)) = Step(CHOOSE f : f = Step(f))
  <2> HIDE DEF Step, g
  <2>. QED BY <1>2
<1>. QED BY <1>1, <1>3

(* The loop over two. *)
LEMMA TwoItems ==
  ASSUME NEW h, NEW x, NEW y, NEW subs
  PROVE  SubscribeItems(h, <<x, y>>, subs)
           = SubscribeItem(SubscribeItem(h, x, subs[1]), y, subs[2])
<1> DEFINE Step(f) == [i \in 0..2 |-> IF i = 0 THEN h
                                      ELSE SubscribeItem(f[i - 1], <<x, y>>[i], subs[i])]
           h1 == SubscribeItem(h, x, subs[1])
           h2 == SubscribeItem(h1, y, subs[2])
           g == [i \in 0..2 |-> IF i = 0 THEN h ELSE IF i = 1 THEN h1 ELSE h2]
<1>1. SubscribeItems(h, <<x, y>>, subs) = (CHOOSE f : f = Step(f))[2]
  BY DEF SubscribeItems
<1>2. g = Step(g)
  <2>1. \A i \in 0..2 : i = 0 \/ i = 1 \/ i = 2
    OBVIOUS
  <2>2. Step(g)[0] = h /\ Step(g)[1] = h1 /\ Step(g)[2] = h2
    OBVIOUS
  <2>. QED BY <2>1, <2>2
<1>3. (CHOOSE f : f = Step(f)) = Step(CHOOSE f : f = Step(f))
  <2> HIDE DEF Step, g
  <2>. QED BY <1>2
<1> DEFINE a == CHOOSE f : f = Step(f)
<1>4. a[0] = h /\ a[1] = SubscribeItem(a[0], x, subs[1]) /\ a[2] = SubscribeItem(a[1], y, subs[2])
  <2>1. a = Step(a)
    BY <1>3
  <2> HIDE DEF a
  <2>. QED BY <2>1
<1>. QED BY <1>1, <1>4

(* k is h with a new Promise.all promise p that waits for items. *)
AllStarts(h, k, p, items) ==
  /\ Adds(h, k, p) /\ p = h.made + 1 /\ k.made = p
  /\ k.slot[p].by = "all" /\ k.slot[p].items = items
  /\ Len(k.slot[p].results) = Len(items) /\ k.slot[p].left = Len(items)

(* What promiseAll makes before its loop. *)
LEMMA AllMade ==
  ASSUME NEW h, NEW F, NEW X, HeapInv(h, F, X), h.made < MaxProms,
         NEW items \in Seq(Vals \cup Made(h)), NEW h1, h1 = NewPromise(h, "all"),
         NEW p, p = Newest(h1), NEW r \in Seq(Values), Len(r) = Len(items),
         NEW k \in Heaps(SubRecord, Values), PutsItems(h1, k, p, items, r, Len(items))
  PROVE  AllStarts(h, k, p, items)
<1>1. /\ h1 \in Heaps(SubRecord, Values) /\ Unmade(h1) /\ Makes(h, h1, p, "all")
      /\ p = h1.made
  <2>1. NoVal \in Values /\ "all" \in Origins
    BY DEF Values, Origins
  <2>. QED BY <2>1, HeapParts, NewFacts
<1>2. /\ p = h.made + 1 /\ p \in Proms /\ p \notin Made(h) /\ Made(h1) = Made(h) \cup {p}
      /\ h1.queue = h.queue /\ \A q \in Proms : q # p => h1.slot[q] = h.slot[q]
      /\ h1.slot[p] = [FreshSlot EXCEPT !.by = "all"] /\ h1.slot[p] \in Slots(SubRecord, Values)
  BY <1>1, HeapFields DEF Makes
<1> DEFINE n == Len(items)
<1>4. /\ k.made = h1.made /\ k.queue = h1.queue /\ Made(k) = Made(h1)
      /\ k.slot[p] = [h1.slot[p] EXCEPT !.items = items, !.results = r, !.left = n]
      /\ \A q \in Proms : q # p => k.slot[q] = h1.slot[q]
  BY DEF PutsItems
<1> HIDE DEF n
<1>5. /\ k.slot[p].by = "all" /\ k.slot[p].items = items /\ k.slot[p].results = r
      /\ k.slot[p].left = n /\ k.slot[p].subs = <<>> /\ k.slot[p].state = "pending"
  <2> DEFINE s == h1.slot[p]
  <2>1. s \in Slots(SubRecord, Values) /\ s.by = "all" /\ s.subs = <<>> /\ s.state = "pending"
    BY <1>2 DEF FreshSlot
  <2>2. k.slot[p] = [s EXCEPT !.items = items, !.results = r, !.left = n]
    BY <1>4
  <2> HIDE DEF s
  <2>. QED BY <2>1, <2>2 DEF Slots
<1>6. Unmade(k)
  BY <1>1, <1>2, <1>4 DEF Unmade
<1>7. Adds(h, k, p)
  BY <1>2, <1>4, <1>5, <1>6, HeapParts DEF Adds
<1>. QED BY <1>1, <1>2, <1>4, <1>5, <1>7 DEF AllStarts, n

(* Nobody waits for its items yet. *)
LEMMA AllUnclaimed ==
  ASSUME NEW h, NEW F, NEW X, HeapInv(h, F, X), NEW k, NEW p, Adds(h, k, p), NEW i
  PROVE  Count(k, ForItem(p, i)) = 0 /\ Held(F, ForItem(p, i)) = 0
<1>1. p \notin Made(h) /\ p # 0
  BY DEF Adds, Proms
<1>2. SameSubs(h, k)
  BY DEF SameSubs, Adds
<1>3. SameCounts(h, k)
  BY <1>2, HeapParts, SamePlaces DEF Adds
<1>4. Total(h, F, ForItem(p, i)) = 0
  BY <1>1, Unclaimed
<1>5. Count(h, ForItem(p, i)) \in Nat /\ Held(F, ForItem(p, i)) \in Nat
  BY HeapParts, TotalFacts
<1>. QED BY <1>3, <1>4, <1>5 DEF Total, SameCounts

(* Promise.all of nothing, before it is resolved. *)
LEMMA AllNone ==
  ASSUME NEW h, NEW F, NEW X, HeapInv(h, F, X), NEW k, NEW p, AllStarts(h, k, p, <<>>)
  PROVE  HeapInv(k, F, X \cup {p}) /\ Keeps(h, k)
<1>1. Adds(h, k, p) /\ k.slot[p].by = "all" /\ k.slot[p].items = <<>>
  BY DEF AllStarts
<1>2. Len(k.slot[p].results) = 0 /\ k.slot[p].left = 0 /\ k.slot[p].state = "pending"
  BY DEF AllStarts, Adds
<1>3. Waiting(k, F, p) = {}
  BY <1>1 DEF Waiting
<1>4. AllFits(k, F, p)
  BY <1>1, <1>2, <1>3, FS_EmptySet DEF AllFits
<1>5. PromiseInv(k, F, X \cup {p}, p)
  BY <1>1, <1>4 DEF PromiseInv, Makers, Chained
<1>6. Keeps(h, k)
  BY <1>1 DEF Adds, Keeps
<1>7. FlightInv(k, F)
  BY <1>6, HeapParts, FitsKept DEF FlightInv
<1>8. \A q \in Made(h) : SameHeld(F, F, q)
  BY DEF SameHeld
<1>. QED BY <1>1, <1>5, <1>7, <1>8, Adding

(* Promise.all of two items, with the subscribers its loop will leave. *)
LEMMA AllTwo ==
  ASSUME NEW h, NEW F, NEW X, HeapInv(h, F, X), NEW x \in Vals \cup Made(h),
         NEW y \in Vals \cup Made(h), NEW k, NEW p, AllStarts(h, k, p, <<x, y>>),
         NEW a, a = AllSub(p, 1), NEW b, b = AllSub(p, 2),
         NEW G, G = F \cup {b}, NEW H, H = G \cup {a}
  PROVE  /\ HeapInv(k, H, X) /\ Keeps(h, k)
         /\ FlightInv(k, G) /\ FlightInv(k, F) /\ SubFits(k, a) /\ SubFits(k, b)
         /\ a \notin G /\ b \notin F
<1> DEFINE items == <<x, y>>
<1>1. Adds(h, k, p) /\ k.slot[p].by = "all" /\ k.slot[p].items = items
  BY DEF AllStarts
<1>2. Len(items) = 2 /\ DOMAIN items = {1, 2} /\ items[1] = x /\ items[2] = y
  OBVIOUS
<1> HIDE DEF items
<1>3. /\ Len(k.slot[p].results) = 2 /\ k.slot[p].left = 2 /\ k.slot[p].state = "pending"
      /\ Made(k) = Made(h) \cup {p} /\ p \notin Made(h) /\ p \in Proms
  BY <1>2 DEF AllStarts, Adds, items
<1>4. /\ a.kind = "all" /\ a.target = p /\ a.index = 1 /\ a \in SubRecord
      /\ b.kind = "all" /\ b.target = p /\ b.index = 2 /\ b \in SubRecord
      /\ a # b
  BY <1>3 DEF AllSub, Sub, SubRecord
<1>5. SubFits(k, a) /\ SubFits(k, b)
  BY <1>1, <1>2, <1>3, <1>4 DEF SubFits, Chained
<1>6. \A s \in F : s.target # p
  BY <1>3, HeapParts DEF FlightInv, SubFits, Sub, Proms
<1>7. a \notin G /\ b \notin F /\ IsFiniteSet(F)
  BY <1>4, <1>6, HeapParts
<1>8. IsFiniteSet(G)
  BY <1>7, HeldWith
<1>9. ASSUME NEW K
      PROVE  Held(G, K) = Held(F, K) + IF b \in K THEN 1 ELSE 0
  BY <1>7, HeldWith
<1>10. IsFiniteSet(H)
  BY <1>7, <1>8, HeldWith
<1>11. ASSUME NEW K
       PROVE  Held(H, K) = Held(G, K) + IF a \in K THEN 1 ELSE 0
  BY <1>7, <1>8, HeldWith
<1>12. Keeps(h, k)
  BY <1>1 DEF Adds, Keeps
<1>13. FlightInv(k, F)
  BY <1>12, HeapParts, FitsKept DEF FlightInv
<1>14. FlightInv(k, G)
  BY <1>5, <1>8, <1>13 DEF FlightInv
<1>15. FlightInv(k, H)
  BY <1>5, <1>10, <1>14 DEF FlightInv
<1>16. ASSUME NEW q \in Made(h) PROVE SameHeld(F, H, q)
  <2>1. q # p
    BY <1>3
  <2>2. /\ a \notin To(q) /\ \A i : a \notin ForItem(q, i)
        /\ b \notin To(q) /\ \A i : b \notin ForItem(q, i)
    BY <1>4, <2>1 DEF To, ForItem, AllSub, Sub
  <2>3. ASSUME NEW K, a \notin K, b \notin K PROVE Held(H, K) = Held(F, K)
    <3>1. Held(F, K) \in Nat
      BY <1>7, HeldFacts
    <3>2. Held(G, K) = Held(F, K) + 0
      BY <1>9, <2>3
    <3>3. Held(H, K) = Held(G, K) + 0
      BY <1>11, <2>3
    <3>. QED BY <3>1, <3>2, <3>3
  <2>. QED BY <2>2, <2>3 DEF SameHeld
<1>17. ASSUME NEW i \in {1, 2} PROVE Total(k, H, ForItem(p, i)) = 1
  <2> DEFINE K == ForItem(p, i)
  <2>1. Count(k, K) = 0 /\ Held(F, K) = 0
    BY <1>1, AllUnclaimed
  <2>2. (a \in K <=> i = 1) /\ (b \in K <=> i = 2)
    BY DEF ForItem, AllSub, Sub
  <2> HIDE DEF K
  <2>3. CASE i = 1
    <3>1. Held(G, K) = 0
      BY <1>9, <2>1, <2>2, <2>3
    <3>2. Held(H, K) = 1
      BY <1>11, <2>2, <2>3, <3>1
    <3>. QED BY <2>1, <3>2 DEF Total, K
  <2>4. CASE i = 2
    <3>1. Held(G, K) = 1
      BY <1>9, <2>1, <2>2, <2>4
    <3>2. Held(H, K) = 1
      BY <1>11, <2>2, <2>4, <3>1
    <3>. QED BY <2>1, <3>2 DEF Total, K
  <2>. QED BY <2>3, <2>4
<1>18. Waiting(k, H, p) = {1, 2} /\ Cardinality({1, 2}) = 2
  <2>1. Waiting(k, H, p) = {1, 2}
    BY <1>1, <1>2, <1>17 DEF Waiting
  <2>2. Cardinality({1, 2}) = 2
    <3>1. 1 # 2
      OBVIOUS
    <3>. QED BY <3>1, PairCount, Zenon
  <2>. QED BY <2>1, <2>2
<1>19. AllFits(k, H, p)
  <2>1. \A i \in DOMAIN items : /\ items[i] \in Vals \cup Made(k)
                                /\ Total(k, H, ForItem(p, i)) <= 1
    BY <1>2, <1>3, <1>17
  <2>2. /\ Cardinality(Waiting(k, H, p)) = 2 /\ DOMAIN items \ Waiting(k, H, p) = {}
        /\ \A i \in DOMAIN items \ Waiting(k, H, p) : FALSE
    BY <1>2, <1>18
  <2>. QED BY <1>1, <1>2, <1>3, <1>18, <2>1, <2>2 DEF AllFits
<1>20. PromiseInv(k, H, X, p)
  BY <1>1, <1>3, <1>19 DEF PromiseInv, Makers, Chained
<1>21. HeapInv(k, H, X)
  BY <1>1, <1>15, <1>16, <1>20, Adding
<1>. QED BY <1>5, <1>7, <1>12, <1>13, <1>14, <1>21

(* How many promises two items need. *)
LEMMA PlainCount ==
  ASSUME NEW x, NEW y
  PROVE  Cardinality(Plain(<<x, y>>))
           = (IF x \in Proms THEN 0 ELSE 1) + (IF y \in Proms THEN 0 ELSE 1)
<1>1. \A i : i \in Plain(<<x, y>>) <=> (i = 1 /\ x \notin Proms) \/ (i = 2 /\ y \notin Proms)
  BY DEF Plain
<1>2. /\ Cardinality({}) = 0 /\ Cardinality({1}) = 1 /\ Cardinality({2}) = 1
  BY FS_EmptySet, SingletonCount
<1>3. Cardinality({1, 2}) = 2
  <2>1. 1 # 2
    OBVIOUS
  <2>. QED BY <2>1, PairCount, Zenon
<1>4. CASE x \in Proms /\ y \in Proms
  <2>1. Plain(<<x, y>>) = {}
    BY <1>1, <1>4
  <2>. QED BY <1>2, <1>4, <2>1
<1>5. CASE x \notin Proms /\ y \in Proms
  <2>1. Plain(<<x, y>>) = {1}
    BY <1>1, <1>5
  <2>. QED BY <1>2, <1>5, <2>1
<1>6. CASE x \in Proms /\ y \notin Proms
  <2>1. Plain(<<x, y>>) = {2}
    BY <1>1, <1>6
  <2>. QED BY <1>2, <1>6, <2>1
<1>7. CASE x \notin Proms /\ y \notin Proms
  <2>1. Plain(<<x, y>>) = {1, 2}
    BY <1>1, <1>7
  <2>. QED BY <1>3, <1>7, <2>1
<1>. QED BY <1>4, <1>5, <1>6, <1>7

(* What Promise.all and Promise.race are given. *)
Arrays(h) == {<<>>} \cup {<<x, y>> : x, y \in Vals \cup Made(h)}

(* There is room for the promises they make. *)
RoomFor(h, items) == h.made + (1 + Cardinality(Plain(items))) <= MaxProms

(* What that means for two items. *)
LEMMA RoomForTwo ==
  ASSUME NEW h, h.made \in Nat, NEW x, NEW y, RoomFor(h, <<x, y>>)
  PROVE  /\ h.made < MaxProms
         /\ x \notin Proms => h.made + 1 < MaxProms
         /\ y \notin Proms => h.made + 1 < MaxProms
         /\ x \notin Proms /\ y \notin Proms => h.made + 2 < MaxProms
<1>1. h.made + (1 + ((IF x \in Proms THEN 0 ELSE 1) + (IF y \in Proms THEN 0 ELSE 1)))
        <= MaxProms
  BY PlainCount DEF RoomFor
<1>. QED BY <1>1, MaxPromsAssumption

(* And for none. *)
LEMMA RoomForNone ==
  ASSUME NEW h, h.made \in Nat, RoomFor(h, <<>>)
  PROVE  h.made < MaxProms
<1>1. Plain(<<>>) = {}
  BY DEF Plain
<1>2. h.made + (1 + 0) <= MaxProms
  BY <1>1, FS_EmptySet DEF RoomFor
<1>. QED BY <1>2, MaxPromsAssumption

(* The two loop bodies, one after the other. *)
LEMMA TwoItemsInv ==
  ASSUME NEW h, NEW F, NEW X, HeapInv(h, F, X), NEW x \in Vals \cup Made(h),
         NEW y \in Vals \cup Made(h),
         x \notin Proms => h.made < MaxProms,
         y \notin Proms => h.made < MaxProms,
         x \notin Proms /\ y \notin Proms => h.made + 1 < MaxProms,
         NEW a, SubFits(h, a), a.kind = "all" => h.slot[a.target].items[a.index] = x,
         NEW b, SubFits(h, b), b.kind = "all" => h.slot[b.target].items[b.index] = y,
         NEW G, FlightInv(h, G), Carried(h, F, G, a),
         NEW H, FlightInv(h, H), Carried(h, G, H, b),
         NEW subs, subs[1] = a, subs[2] = b,
         NEW k, k = SubscribeItems(h, <<x, y>>, subs)
  PROVE  HeapInv(k, H, X) /\ Keeps(h, k)
<1> DEFINE h1 == SubscribeItem(h, x, a)
<1>1. k = SubscribeItem(h1, y, b)
  BY TwoItems
<1>2. /\ HeapInv(h1, G, X) /\ Keeps(h, h1)
      /\ h1.made = IF x \in Proms THEN h.made ELSE h.made + 1
  BY ItemInv
<1> HIDE DEF h1
<1>3. /\ b.kind \in {"all", "adopt"} /\ b.target \in Made(h)
  BY DEF Carried, SubFits
<1>4. SubFits(h1, b) /\ FlightInv(h1, H) /\ y \in Vals \cup Made(h1)
  BY <1>2, FitsKept DEF FlightInv, Keeps
<1>5. Carried(h1, G, H, b) /\ (b.kind = "all" => h1.slot[b.target].items[b.index] = y)
  BY <1>2, <1>3 DEF Carried, Keeps
<1>6. y \notin Proms => h1.made < MaxProms
  BY <1>2
<1>7. HeapInv(k, H, X) /\ Keeps(h1, k)
  BY <1>1, <1>2, <1>4, <1>5, <1>6, ItemInv
<1>. QED BY <1>2, <1>7, KeepsTransitive

(* Promise.all, of nothing and of two items. *)
LEMMA AllInv ==
  ASSUME NEW h, NEW F, NEW X, HeapInv(h, F, X), NEW items \in Arrays(h),
         RoomFor(h, items), NEW k, k = PromiseAll(h, items)
  PROVE  HeapInv(k, F, X) /\ Keeps(h, k)
<1> DEFINE h1 == NewPromise(h, "all")
           p == Newest(h1)
           r == [i \in DOMAIN items |-> NoVal]
           h2 == [h1 EXCEPT !.slot[p].items = items, !.slot[p].results = r,
                            !.slot[p].left = Len(items)]
           subs == [i \in DOMAIN items |-> Sub("all", p, FALSE, FALSE, i)]
<1>1. k = IF items = <<>> THEN ResolvePromise(h2, p, Array) ELSE SubscribeItems(h2, items, subs)
  BY DEF PromiseAll
<1>2. h.made \in Nat /\ h.made < MaxProms
  <2>1. h.made \in Nat
    BY HeapParts, HeapFields, MaxPromsAssumption
  <2>. QED BY <2>1, RoomForTwo, RoomForNone DEF Arrays
<1>3. /\ h1 \in Heaps(SubRecord, Values) /\ p \in Proms
      /\ h1 = NewPromise(h, "all") /\ p = Newest(h1)
  <2>1. NoVal \in Values /\ "all" \in Origins
    BY DEF Values, Origins
  <2>2. h1 \in Heaps(SubRecord, Values) /\ p = h1.made /\ Makes(h, h1, h1.made, "all")
    BY <1>2, <2>1, HeapParts, NewFacts
  <2>. QED BY <2>2 DEF Makes
<1>3a. h2 = [h1 EXCEPT !.slot[p].items = items, !.slot[p].results = r,
                       !.slot[p].left = Len(items)]
  OBVIOUS
<1> HIDE DEF h1, p, h2
<1>4. /\ items \in Seq(Proms \cup Values) /\ r \in Seq(Values) /\ Len(items) \in Int
      /\ Len(r) = Len(items) /\ items \in Seq(Vals \cup Made(h))
  <2>1. Vals \cup Made(h) \subseteq Proms \cup Values /\ NoVal \in Values
    BY HeapParts DEF Values
  <2>2. items \in Seq(Vals \cup Made(h))
    <3>1. CASE items = <<>>
      BY <3>1
    <3>2. ASSUME NEW x \in Vals \cup Made(h), NEW y \in Vals \cup Made(h), items = <<x, y>>
          PROVE  items \in Seq(Vals \cup Made(h))
      BY <3>2
    <3>. QED BY <3>1, <3>2 DEF Arrays
  <2>3. Len(items) \in Nat /\ DOMAIN items = 1..Len(items)
    BY <2>2
  <2>. QED BY <2>1, <2>2, <2>3
<1> HIDE DEF r
<1>5. h2 \in Heaps(SubRecord, Values) /\ PutsItems(h1, h2, p, items, r, Len(items))
  <2>1. h1 \in Heaps(SubRecord, Values) /\ p \in Proms
    BY <1>3
  <2>2. items \in Seq(Proms \cup Values) /\ r \in Seq(Values)
    BY <1>4
  <2> DEFINE n == Len(items)
  <2>3. n \in Int
    BY <1>4
  <2>4. h2 = [h1 EXCEPT !.slot[p].items = items, !.slot[p].results = r, !.slot[p].left = n]
    BY <1>3a
  <2> HIDE DEF n
  <2>5. h2 \in Heaps(SubRecord, Values)
    BY <2>1, <2>2, <2>3, <2>4, HeapPutItems
  <2>6. PutsItems(h1, h2, p, items, r, n)
    BY <2>1, <2>2, <2>3, <2>4, HeapPutItems
  <2>. QED BY <2>5, <2>6 DEF n
<1>6. AllStarts(h, h2, p, items)
  BY <1>2, <1>3, <1>4, <1>5, AllMade
<1>7. CASE items = <<>>
  <2>1. HeapInv(h2, F, X \cup {p}) /\ Keeps(h, h2)
    BY <1>6, <1>7, AllNone
  <2>2. /\ p \in Made(h2) /\ Pending(h2, p) /\ h2.slot[p].by = "all"
        /\ h2.slot[p].items = <<>> /\ Len(h2.slot[p].results) = 0 /\ h2.slot[p].left = 0
    BY <1>6, <1>7 DEF AllStarts, Adds, Pending
  <2>3. k = Settle(h2, p, "fulfilled", Array) /\ Array \in Values
    BY <1>1, <1>7, <2>2, ValsAssumption DEF ResolvePromise, Values
  <2>4. Settled(h2, k, p, "fulfilled", Array)
    BY <2>1, <2>2, <2>3, HeapParts, SettledSlot
  <2>5. /\ k.slot[p].by = "all" /\ k.slot[p].items = <<>> /\ Len(k.slot[p].results) = 0
        /\ k.slot[p].left = 0 /\ k.slot[p].state = "fulfilled"
    BY <2>2, <2>4 DEF Settled
  <2>6. Waiting(k, F, p) = {} /\ Cardinality({}) = 0
    BY <2>5, FS_EmptySet DEF Waiting
  <2>7. AllFits(k, F, p)
    BY <2>5, <2>6 DEF AllFits
  <2>8. PromiseInv(k, F, X, p)
    BY <2>5, <2>7 DEF PromiseInv, Makers, Chained, Pending
  <2>9. FlightInv(h2, F) /\ \A q \in Made(h2) : q # p => SameHeld(F, F, q)
    BY <2>1, HeapParts DEF SameHeld
  <2>10. (X \cup {p}) \ {p} \subseteq X
    OBVIOUS
  <2>11. HeapInv(k, F, X) /\ Keeps(h2, k)
    BY <2>1, <2>2, <2>3, <2>8, <2>9, <2>10, SettleInv
  <2>. QED BY <2>1, <2>11, KeepsTransitive
<1>8. ASSUME NEW x \in Vals \cup Made(h), NEW y \in Vals \cup Made(h), items = <<x, y>>
      PROVE  HeapInv(k, F, X) /\ Keeps(h, k)
  <2> DEFINE a == AllSub(p, 1)
             b == AllSub(p, 2)
             G == F \cup {b}
             H == G \cup {a}
  <2>1. /\ HeapInv(h2, H, X) /\ Keeps(h, h2)
        /\ FlightInv(h2, G) /\ FlightInv(h2, F) /\ SubFits(h2, a) /\ SubFits(h2, b)
        /\ a \notin G /\ b \notin F
    BY <1>6, <1>8, AllTwo
  <2>2. /\ a.kind = "all" /\ a.target = p /\ a.index = 1
        /\ b.kind = "all" /\ b.target = p /\ b.index = 2
    BY DEF AllSub, Sub
  <2>3. subs[1] = a /\ subs[2] = b
    BY <1>8 DEF AllSub
  <2>4. items # <<>>
    BY <1>8
  <2>5. k = SubscribeItems(h2, <<x, y>>, subs)
    BY <1>1, <1>8, <2>4
  <2>6. Carried(h2, H, G, a) /\ Carried(h2, G, F, b)
    BY <2>1, <2>2 DEF Carried
  <2> HIDE DEF a, b, G, H, subs
  <2>7. /\ x \in Vals \cup Made(h2) /\ y \in Vals \cup Made(h2) /\ h2.made = h.made + 1
        /\ h2.slot[p].items = <<x, y>>
    BY <1>6, <1>8, <2>1 DEF AllStarts, Keeps
  <2>8. /\ x \notin Proms => h2.made < MaxProms
        /\ y \notin Proms => h2.made < MaxProms
        /\ x \notin Proms /\ y \notin Proms => h2.made + 1 < MaxProms
    BY <1>2, <1>8, <2>7, RoomForTwo, MaxPromsAssumption
  <2>9. h2.slot[a.target].items[a.index] = x /\ h2.slot[b.target].items[b.index] = y
    BY <2>2, <2>7
  <2>10. HeapInv(k, F, X) /\ Keeps(h2, k)
    BY <2>1, <2>3, <2>5, <2>6, <2>7, <2>8, <2>9, TwoItemsInv
  <2>. QED BY <2>1, <2>10, KeepsTransitive
<1>. QED BY <1>7, <1>8 DEF Arrays

(* Promise.race; with no items it stays pending. *)
LEMMA RaceInv ==
  ASSUME NEW h, NEW F, NEW X, HeapInv(h, F, X), NEW items \in Arrays(h),
         RoomFor(h, items), NEW k, k = PromiseRace(h, items)
  PROVE  HeapInv(k, F, X) /\ Keeps(h, k)
<1> DEFINE h1 == NewPromise(h, "race")
           p == Newest(h1)
           subs == [i \in DOMAIN items |-> Adopt(p)]
<1>1. k = SubscribeItems(h1, items, subs)
  BY DEF PromiseRace
<1>2. h.made \in Nat /\ h.made < MaxProms
  <2>1. h.made \in Nat
    BY HeapParts, HeapFields, MaxPromsAssumption
  <2>. QED BY <2>1, RoomForTwo, RoomForNone DEF Arrays
<1>3. /\ HeapInv(h1, F, X) /\ Keeps(h, h1) /\ p = h1.made /\ h1.made = h.made + 1
      /\ p \in Made(h1) /\ h1.slot[p].by = "race"
  BY <1>2, NewPlain
<1> HIDE DEF h1, p
<1>4. CASE items = <<>>
  <2>1. k = h1
    BY <1>1, <1>4, NoItems
  <2>. QED BY <1>3, <2>1
<1>5. ASSUME NEW x \in Vals \cup Made(h), NEW y \in Vals \cup Made(h), items = <<x, y>>
      PROVE  HeapInv(k, F, X) /\ Keeps(h, k)
  <2> DEFINE a == Adopt(p)
  <2>1. SubFits(h1, a) /\ a.kind = "adopt" /\ a.target = p
    BY <1>3, HeapParts, AdoptFits
  <2>2. subs[1] = a /\ subs[2] = a
    BY <1>5
  <2> HIDE DEF a, subs
  <2>3. Carried(h1, F, F, a) /\ FlightInv(h1, F)
    BY <1>3, <2>1, HeapParts DEF Carried
  <2>4. x \in Vals \cup Made(h1) /\ y \in Vals \cup Made(h1)
    BY <1>3 DEF Keeps
  <2>5. /\ x \notin Proms => h1.made < MaxProms
        /\ y \notin Proms => h1.made < MaxProms
        /\ x \notin Proms /\ y \notin Proms => h1.made + 1 < MaxProms
    BY <1>2, <1>3, <1>5, RoomForTwo, MaxPromsAssumption
  <2>6. k = SubscribeItems(h1, <<x, y>>, subs)
    BY <1>1, <1>5
  <2>7. HeapInv(k, F, X) /\ Keeps(h1, k)
    BY <1>3, <2>1, <2>2, <2>3, <2>4, <2>5, <2>6, TwoItemsInv
  <2>. QED BY <1>3, <2>7, KeepsTransitive
<1>. QED BY <1>4, <1>5 DEF Arrays

(* ReportUnhandledRejections. *)
LEMMA ReportedInv ==
  ASSUME NEW h, NEW F, NEW X, HeapInv(h, F, X), NEW k, k = Reported(h)
  PROVE  HeapInv(k, F, X) /\ Keeps(h, k)
<1> DEFINE f == [p \in Proms |-> IF p \in Unhandled(h)
                                 THEN [h.slot[p] EXCEPT !.handled = TRUE] ELSE h.slot[p]]
<1>1. k = [h EXCEPT !.slot = f]
  BY DEF Reported
<1>2. /\ h \in Heaps(SubRecord, Values) /\ Made(h) \subseteq Proms
      /\ \A p \in Proms : h.slot[p] \in Slots(SubRecord, Values)
  BY HeapParts, HeapFields
<1>3. ASSUME NEW p \in Proms
      PROVE  /\ f[p] \in Slots(SubRecord, Values)
             /\ f[p] = [h.slot[p] EXCEPT !.handled = f[p].handled]
             /\ p \notin Made(h) => f[p] = h.slot[p]
  <2>1. CASE p \in Unhandled(h)
    <3>1. f[p] = [h.slot[p] EXCEPT !.handled = TRUE]
      BY <2>1
    <3> HIDE DEF f
    <3>2. f[p] \in Slots(SubRecord, Values) /\ f[p].handled = TRUE
      BY <1>2, <3>1 DEF Slots
    <3>. QED BY <2>1, <3>1, <3>2 DEF Unhandled
  <2>2. CASE p \notin Unhandled(h)
    <3>1. f[p] = h.slot[p]
      BY <2>2
    <3> HIDE DEF f
    <3>. QED BY <1>2, <3>1 DEF Slots
  <2>. QED BY <2>1, <2>2
<1>4. DOMAIN f = Proms /\ f = [p \in Proms |-> f[p]]
  OBVIOUS
<1> HIDE DEF f
<1>5. f \in [Proms -> Slots(SubRecord, Values)]
  BY <1>3, <1>4
<1>6. /\ k \in Heaps(SubRecord, Values) /\ k.made = h.made /\ k.queue = h.queue /\ k.slot = f
  BY <1>1, <1>2, <1>5 DEF Heaps
<1>7. Unmade(k)
  <2>1. Made(k) = Made(h)
    BY <1>6 DEF Made
  <2>2. Unmade(h)
    BY HeapParts
  <2>. QED BY <1>3, <1>6, <2>1, <2>2 DEF Unmade
<1>8. \A p \in Made(h) : k.slot[p] = [h.slot[p] EXCEPT !.handled = k.slot[p].handled]
  BY <1>2, <1>3, <1>6
<1>9. Marks(h, k)
  BY <1>6, <1>7, <1>8 DEF Marks
<1>. QED BY <1>9, Marking

-----------------------------------------------------------------------------
(* Microtasks: s is the subscriber that is answered. *)

(* Only s counts for its target. *)
LEMMA OnlyForTarget ==
  ASSUME NEW s, NEW q, q # s.target
  PROVE  SameHeld({s}, {}, q)
<1>1. s \notin To(q) /\ \A i : s \notin ForItem(q, i)
  BY DEF To, ForItem, AllSub, Sub
<1>2. ASSUME NEW K, s \notin K PROVE Held({}, K) = Held({s}, K)
  <2>1. Held({s}, K) = 0
    BY <1>2, HeldAlone
  <2>2. Held({}, K) = 0
    BY FS_EmptySet, HeldFacts
  <2>. QED BY <2>1, <2>2
<1>. QED BY <1>1, <1>2 DEF SameHeld

(* A promise of then() or finally() whose subscriber is on its way is pending,
   and has no other. *)
LEMMA StillPending ==
  ASSUME NEW h, NEW s, NEW X, HeapInv(h, {s}, X), s \in SubRecord,
         NEW p \in Made(h), p = s.target, h.slot[p].by \in Chained
  PROVE  Pending(h, p) /\ Count(h, To(p)) = 0
<1>1. s \in To(p)
  BY DEF To
<1>2. Total(h, {s}, To(p)) \in Nat \ {0}
  BY <1>1, HeapParts, TotalAlone
<1>3. Total(h, {s}, To(p)) = IF Pending(h, p) THEN 1 ELSE 0
  BY HeapParts DEF PromiseInv
<1>4. Held({s}, To(p)) = 1
  BY <1>1, HeldAlone
<1>5. Count(h, To(p)) \in Nat
  BY HeapParts, CountFacts
<1>. QED BY <1>2, <1>3, <1>4, <1>5 DEF Total

(* Reactions of then() and finally(), and a promise that waited for another:
   the target settles.  A finally() that fulfils does so as its source did. *)
LEMMA Answering ==
  ASSUME NEW h, NEW s, HeapInv(h, {s}, {}), SubFits(h, s), s.kind \in Chained \cup {"adopt"},
         NEW q, SrcFits(h, s, q), ~ Pending(h, q),
         NEW state \in {"fulfilled", "rejected"}, NEW v \in Values,
         s.kind = "finally" /\ state = "fulfilled"
           => h.slot[q].state = "fulfilled" /\ h.slot[q].value = v,
         NEW k, k = Settle(h, s.target, state, v)
  PROVE  HeapInv(k, {}, {}) /\ Keeps(h, k)
<1> DEFINE p == s.target
<1>1. /\ p \in Made(h) /\ s \in SubRecord /\ q \in Made(h)
      /\ h.slot[p].by \in {"ctor", "then", "race", "finally"}
      /\ s.kind = "finally" => h.slot[p].from = q
      /\ h.slot[p].by = "finally" => s.kind = "finally"
  BY DEF SubFits, SrcFits, Chained
<1>2. Settled(h, k, p, state, v)
  BY <1>1, HeapParts, SettledSlot
<1>3. /\ k.slot[p].by = h.slot[p].by /\ k.slot[p].from = h.slot[p].from
      /\ k.slot[p].left = h.slot[p].left /\ SameCounts(h, k) /\ Made(k) = Made(h)
  BY <1>2 DEF Settled
<1>4. PromiseInv(h, {s}, {}, p)
  BY <1>1, HeapParts
<1>5. h.slot[p].by \in Chained =>
        /\ Pending(h, p) /\ k.slot[p].state = state /\ k.slot[p].value = v
        /\ Total(k, {}, To(p)) = 0
  <2>1. SUFFICES ASSUME h.slot[p].by \in Chained
                 PROVE  /\ Pending(h, p) /\ k.slot[p].state = state /\ k.slot[p].value = v
                        /\ Total(k, {}, To(p)) = 0
    OBVIOUS
  <2>2. Pending(h, p) /\ Count(h, To(p)) = 0
    BY <1>1, <2>1, StillPending
  <2>3. Held({}, To(p)) = 0
    BY FS_EmptySet, HeldFacts
  <2>4. Total(k, {}, To(p)) = 0
    BY <1>3, <2>2, <2>3 DEF Total, SameCounts
  <2>. QED BY <1>2, <2>2, <2>4 DEF Settled
<1>6. h.slot[p].by = "finally" => FinallyFits(k, p)
  <2>1. SUFFICES ASSUME h.slot[p].by = "finally" PROVE FinallyFits(k, p)
    OBVIOUS
  <2>2. Pending(h, p) /\ k.slot[p].state = state /\ k.slot[p].value = v
    BY <1>5, <2>1 DEF Chained
  <2>3. q # p /\ k.slot[p].from = q
    BY <1>1, <1>3, <2>1, <2>2
  <2>4. k.slot[q] = h.slot[q]
    BY <1>1, <1>2, <2>3 DEF Settled
  <2>. QED BY <1>1, <1>3, <2>1, <2>2, <2>3, <2>4 DEF FinallyFits, Pending
<1>7. PromiseInv(k, {}, {}, p)
  BY <1>1, <1>3, <1>4, <1>5, <1>6 DEF PromiseInv, Pending
<1>8. \A r \in Made(h) : r # p => SameHeld({s}, {}, r)
  BY OnlyForTarget
<1>9. FlightInv(h, {}) /\ {} \ {p} \subseteq {}
  BY FS_EmptySet DEF FlightInv
<1> HIDE DEF p
<1>10. k = Settle(h, p, state, v)
  BY DEF p
<1>. QED BY <1>1, <1>7, <1>8, <1>9, <1>10, SettleInv

(* Without s, Promise.all waits for no more items. *)
LEMMA FewerWait ==
  ASSUME NEW h, NEW s, HeapInv(h, {s}, {}), NEW k, SameCounts(h, k), NEW p \in Made(h),
         k.slot[p].items = h.slot[p].items, h.slot[p].by = "all"
  PROVE  /\ Cardinality(Waiting(k, {}, p)) <= Cardinality(Waiting(h, {s}, p))
         /\ Cardinality(Waiting(k, {}, p)) \in Nat
         /\ Cardinality(Waiting(h, {s}, p)) \in Nat
         /\ \A i \in DOMAIN h.slot[p].items :
              Total(k, {}, ForItem(p, i)) <= Total(h, {s}, ForItem(p, i))
<1>1. ASSUME NEW K PROVE Total(k, {}, K) <= Total(h, {s}, K) /\ Total(k, {}, K) \in Nat
  <2>1. Count(k, K) = Count(h, K) /\ Count(h, K) \in Nat
    BY HeapParts, CountFacts DEF SameCounts
  <2>2. Held({}, K) = 0
    BY FS_EmptySet, HeldFacts
  <2>3. Held({s}, K) = IF s \in K THEN 1 ELSE 0
    BY HeldAlone
  <2>. QED BY <2>1, <2>2, <2>3 DEF Total
<1>2. ASSUME NEW i \in DOMAIN h.slot[p].items
      PROVE  Total(h, {s}, ForItem(p, i)) \in Nat
  BY HeapParts, TotalFacts, SingletonCount
<1>3. Waiting(k, {}, p) \subseteq Waiting(h, {s}, p)
  BY <1>1, <1>2 DEF Waiting
<1>4. IsFiniteSet(Waiting(h, {s}, p))
  <2>1. h.slot[p].items \in Seq(Proms \cup Values)
    BY HeapParts, HeapFields DEF Slots
  <2>2. IsFiniteSet(DOMAIN h.slot[p].items)
    BY <2>1, FiniteDomain
  <2>. QED BY <2>2, FS_Subset DEF Waiting
<1>. QED BY <1>1, <1>3, <1>4, FS_Subset, FS_CardinalityType

(* An item that s waits for is one of those. *)
LEMMA ItemWaits ==
  ASSUME NEW h, NEW s, HeapInv(h, {s}, {}), SubFits(h, s), s.kind = "all"
  PROVE  s.index \in Waiting(h, {s}, s.target)
<1>1. s = AllSub(s.target, s.index) /\ s.index \in DOMAIN h.slot[s.target].items
  BY DEF SubFits
<1>2. s \in ForItem(s.target, s.index)
  BY <1>1 DEF ForItem
<1>3. Total(h, {s}, ForItem(s.target, s.index)) \in Nat \ {0}
  BY <1>2, HeapParts, TotalAlone
<1>. QED BY <1>1, <1>3 DEF Waiting

(* An item of Promise.all was rejected. *)
LEMMA RejectingAll ==
  ASSUME NEW h, NEW s, HeapInv(h, {s}, {}), SubFits(h, s), s.kind = "all",
         NEW q, SrcFits(h, s, q), h.slot[q].state = "rejected", NEW v \in Values,
         NEW k, k = Settle(h, s.target, "rejected", v)
  PROVE  HeapInv(k, {}, {}) /\ Keeps(h, k)
<1> DEFINE p == s.target
           W == Waiting(h, {s}, p)
           i == s.index
           x == h.slot[p].items[i]
<1>1. /\ p \in Made(h) /\ h.slot[p].by = "all" /\ i \in DOMAIN h.slot[p].items
      /\ q \in Made(h) /\ ItemSource(h, x, q)
  BY DEF SubFits, SrcFits
<1>2. x \in Proms /\ x = q
  BY <1>1 DEF ItemSource
<1>3. Settled(h, k, p, "rejected", v)
  BY <1>1, HeapParts, SettledSlot
<1>4. /\ k.slot[p].by = "all" /\ k.slot[p].items = h.slot[p].items
      /\ k.slot[p].results = h.slot[p].results
      /\ k.slot[p].left = h.slot[p].left /\ SameCounts(h, k) /\ Made(k) = Made(h)
  BY <1>1, <1>3 DEF Settled
<1>5. AllFits(h, {s}, p)
  BY <1>1, HeapParts DEF PromiseInv
<1>6. i \in W
  BY ItemWaits
<1>7. k.slot[p].state = "rejected" /\ k.slot[x].state = "rejected"
  <2>1. CASE Pending(h, p)
    <3>1. x # p
      BY <1>2, <2>1 DEF Pending
    <3>2. k.slot[x] = h.slot[x]
      BY <1>1, <1>2, <1>3, <3>1 DEF Settled
    <3>. QED BY <1>2, <1>3, <2>1, <3>2 DEF Settled
  <2>2. CASE ~ Pending(h, p)
    <3>1. k = h
      BY <1>3, <2>2 DEF Settled
    <3>2. h.slot[p].state \in {"fulfilled", "rejected"}
      <4>1. h.slot[p].state \in States
        BY <1>1, HeapParts, HeapFields DEF Slots
      <4>. QED BY <2>2, <4>1 DEF States, Pending
    <3>3. h.slot[p].state # "fulfilled"
      BY <1>5, <1>6 DEF AllFits
    <3>. QED BY <1>2, <3>1, <3>2, <3>3
  <2>. QED BY <2>1, <2>2
<1>8. /\ Cardinality(Waiting(k, {}, p)) <= Cardinality(W)
      /\ Cardinality(Waiting(k, {}, p)) \in Nat /\ Cardinality(W) \in Nat
      /\ \A j \in DOMAIN h.slot[p].items :
           Total(k, {}, ForItem(p, j)) <= Total(h, {s}, ForItem(p, j))
  BY <1>1, <1>4, FewerWait
<1>9. /\ Len(k.slot[p].items) <= 2 /\ Len(k.slot[p].results) = Len(k.slot[p].items)
      /\ Cardinality(W) <= k.slot[p].left /\ k.slot[p].left <= Len(k.slot[p].items)
      /\ \A j \in DOMAIN h.slot[p].items : /\ h.slot[p].items[j] \in Vals \cup Made(h)
                                           /\ Total(h, {s}, ForItem(p, j)) <= 1
  BY <1>4, <1>5 DEF AllFits
<1>10. ASSUME NEW j \in DOMAIN h.slot[p].items PROVE Total(k, {}, ForItem(p, j)) <= 1
  <2>1. Total(k, {}, ForItem(p, j)) \in Nat /\ Total(h, {s}, ForItem(p, j)) \in Nat
    <3>1. Count(k, ForItem(p, j)) \in Nat
      BY <1>4, HeapParts, CountFacts DEF SameCounts
    <3>2. Held({}, ForItem(p, j)) = 0
      BY FS_EmptySet, HeldFacts
    <3>3. Total(h, {s}, ForItem(p, j)) \in Nat
      BY HeapParts, TotalFacts, SingletonCount
    <3>. QED BY <3>1, <3>2, <3>3 DEF Total
  <2>2. Total(k, {}, ForItem(p, j)) <= Total(h, {s}, ForItem(p, j))
    BY <1>8
  <2>3. Total(h, {s}, ForItem(p, j)) <= 1
    BY <1>9
  <2>. QED BY <2>1, <2>2, <2>3
<1>11. k.slot[p].left \in Int
  <2>1. h.slot[p].left \in Int
    BY <1>1, HeapParts, HeapFields DEF Slots
  <2>. QED BY <1>4, <2>1
<1> HIDE DEF p, W, i, x
<1>12. Cardinality(Waiting(k, {}, p)) <= k.slot[p].left
  BY <1>8, <1>9, <1>11
<1>13. \E j \in DOMAIN k.slot[p].items :
         k.slot[p].items[j] \in Proms /\ k.slot[k.slot[p].items[j]].state = "rejected"
  BY <1>1, <1>2, <1>4, <1>7 DEF x
<1>14. AllFits(k, {}, p)
  BY <1>4, <1>7, <1>9, <1>10, <1>12, <1>13 DEF AllFits
<1>15. PromiseInv(k, {}, {}, p)
  BY <1>4, <1>7, <1>14 DEF PromiseInv, Makers, Chained, Pending
<1>16. \A r \in Made(h) : r # p => SameHeld({s}, {}, r)
  BY OnlyForTarget DEF p
<1>17. FlightInv(h, {}) /\ {} \ {p} \subseteq {}
  BY FS_EmptySet DEF FlightInv
<1>18. k = Settle(h, p, "rejected", v)
  BY DEF p
<1>. QED BY <1>1, <1>15, <1>16, <1>17, <1>18, SettleInv

(* Nothing depends on a promise in X that has an item left or is settled. *)
LEMMA NoneCollected ==
  ASSUME NEW h, NEW p, HeapInv(h, {}, {p}), h.slot[p].by = "all",
         Pending(h, p) => h.slot[p].left > 0
  PROVE  HeapInv(h, {}, {})
<1>1. ASSUME NEW q \in Made(h) PROVE PromiseInv(h, {}, {}, q)
  <2>1. PromiseInv(h, {}, {p}, q)
    BY HeapParts
  <2>. QED BY <2>1 DEF PromiseInv
<1>. QED BY <1>1, HeapParts DEF HeapInv

(* Promise.all fulfils once it has every item. *)
LEMMA Fulfilling ==
  ASSUME NEW h, NEW p \in Made(h), HeapInv(h, {}, {p}), h.slot[p].by = "all",
         h.slot[p].left = 0, Pending(h, p), NEW k, k = Settle(h, p, "fulfilled", Array)
  PROVE  HeapInv(k, {}, {}) /\ Keeps(h, k)
<1> DEFINE W == Waiting(h, {}, p)
           s == h.slot[p]
<1>1. Array \in Values
  BY DEF Values
<1>2. Settled(h, k, p, "fulfilled", Array)
  BY <1>1, HeapParts, SettledSlot
<1>3. /\ k.slot[p].by = "all" /\ k.slot[p].items = s.items /\ k.slot[p].results = s.results
      /\ k.slot[p].left = 0 /\ k.slot[p].state = "fulfilled"
      /\ SameCounts(h, k) /\ Made(k) = Made(h)
      /\ \A q \in Made(h) : q # p => k.slot[q] = h.slot[q]
  BY <1>2 DEF Settled
<1>4. AllFits(h, {}, p)
  BY HeapParts DEF PromiseInv
<1>5. W = {}
  <2>1. s.items \in Seq(Proms \cup Values)
    BY HeapParts, HeapFields DEF Slots
  <2>2. IsFiniteSet(DOMAIN s.items)
    BY <2>1, FiniteDomain
  <2>3. IsFiniteSet(W)
    BY <2>2, FS_Subset DEF Waiting
  <2>4. Cardinality(W) <= 0 /\ Cardinality(W) \in Nat
    BY <1>4, <2>3, FS_CardinalityType DEF AllFits
  <2>. QED BY <2>3, <2>4, FS_EmptySet
<1>6. ASSUME NEW K PROVE Total(k, {}, K) = Total(h, {}, K)
  BY <1>3 DEF Total, SameCounts
<1>7. Waiting(k, {}, p) = {} /\ Cardinality({}) = 0
  BY <1>3, <1>5, <1>6, FS_EmptySet DEF Waiting
<1>8. ASSUME NEW i \in DOMAIN s.items PROVE Delivered(k, p, i)
  <2>1. Delivered(h, p, i)
    BY <1>4, <1>5 DEF AllFits, Pending
  <2>2. s.items[i] \in Vals \cup Made(h)
    BY <1>4 DEF AllFits
  <2>3. CASE s.items[i] \in Proms
    <3>1. s.items[i] \in Made(h)
      BY <2>2, <2>3, ValsAssumption
    <3>2. s.items[i] # p
      BY <2>1, <2>3 DEF Delivered, Pending
    <3>3. k.slot[s.items[i]] = h.slot[s.items[i]]
      BY <1>3, <3>1, <3>2
    <3>. QED BY <1>3, <2>1, <2>3, <3>3 DEF Delivered
  <2>4. CASE s.items[i] \notin Proms
    BY <1>3, <2>1, <2>4 DEF Delivered
  <2>. QED BY <2>3, <2>4
<1>9. /\ Len(s.items) <= 2 /\ Len(s.results) = Len(s.items) /\ 0 <= Len(s.items)
      /\ \A i \in DOMAIN s.items : /\ s.items[i] \in Vals \cup Made(h)
                                   /\ Total(h, {}, ForItem(p, i)) <= 1
  <2>1. s.items \in Seq(Proms \cup Values)
    BY HeapParts, HeapFields DEF Slots
  <2>2. 0 <= Len(s.items)
    BY <2>1
  <2>. QED BY <1>4, <2>2 DEF AllFits
<1>10. AllFits(k, {}, p)
  <2> DEFINE l == s.items
             n == k.slot[p]
  <2>1. \A i \in DOMAIN l : l[i] \in Vals \cup Made(k) /\ Total(k, {}, ForItem(p, i)) <= 1
    BY <1>3, <1>6, <1>9
  <2>2. \A i \in DOMAIN l : Delivered(k, p, i)
    BY <1>8
  <2>3. /\ n.items = l /\ Len(n.results) = Len(l) /\ Len(l) <= 2 /\ 0 <= Len(l)
        /\ n.left = 0 /\ n.state = "fulfilled"
    BY <1>3, <1>9
  <2> HIDE DEF l, n
  <2>4. n = k.slot[p]
    BY DEF n
  <2>5. \A i \in DOMAIN l \ Waiting(k, {}, p) : Delivered(k, p, i)
    BY <2>2
  <2>6. Cardinality(Waiting(k, {}, p)) = 0
    BY <1>7
  <2>. QED BY <1>7, <2>1, <2>3, <2>4, <2>5, <2>6 DEF AllFits
<1> HIDE DEF W, s
<1>11. PromiseInv(k, {}, {}, p)
  BY <1>3, <1>10 DEF PromiseInv, Makers, Chained, Pending
<1>12. \A r \in Made(h) : r # p => SameHeld({}, {}, r)
  BY DEF SameHeld
<1>13. FlightInv(h, {}) /\ {p} \ {p} \subseteq {}
  BY FS_EmptySet DEF FlightInv
<1>. QED BY <1>1, <1>11, <1>12, <1>13, SettleInv

(* An item of Promise.all was fulfilled. *)
LEMMA CollectInv ==
  ASSUME NEW h, NEW s, HeapInv(h, {s}, {}), SubFits(h, s), s.kind = "all",
         NEW q, SrcFits(h, s, q), h.slot[q].state = "fulfilled",
         NEW k, k = CollectItem(h, s.target, s.index, h.slot[q].value)
  PROVE  HeapInv(k, {}, {}) /\ Keeps(h, k)
<1> DEFINE p == s.target
           i == s.index
           v == h.slot[q].value
           h1 == [h EXCEPT !.slot[p].results[i] = v, !.slot[p].left = @ - 1]
<1>1. /\ p \in Made(h) /\ h.slot[p].by = "all" /\ i \in DOMAIN h.slot[p].items
      /\ q \in Made(h) /\ p \in Proms /\ q \in Proms
  BY HeapParts DEF SubFits, SrcFits
<1>2. k = IF h1.slot[p].left = 0 THEN ResolvePromise(h1, p, Array) ELSE h1
  BY DEF CollectItem
<1>3. /\ h.slot[p] \in Slots(SubRecord, Values) /\ h.slot[p].results \in Seq(Values)
      /\ h.slot[p].items \in Seq(Proms \cup Values) /\ h.slot[p].left \in Int
      /\ v \in Values
  <2>1. \A r \in Proms : h.slot[r] \in Slots(SubRecord, Values)
    BY HeapParts, HeapFields
  <2>. QED BY <1>1, <2>1 DEF Slots
<1>4. AllFits(h, {s}, p)
  BY <1>1, HeapParts DEF PromiseInv
<1>5. i \in 1..Len(h.slot[p].results)
  <2>1. Len(h.slot[p].results) = Len(h.slot[p].items)
    BY <1>4 DEF AllFits
  <2>. QED BY <1>1, <1>3, <2>1
<1>6. h1 = [h EXCEPT !.slot[p].results[i] = v, !.slot[p].left = @ - 1]
  OBVIOUS
<1> HIDE DEF h1, v, p, i
<1>7. h \in Heaps(SubRecord, Values)
  BY HeapParts
<1>8. Collected(SubRecord, Values, h, h1, p, i, v)
  BY <1>1, <1>3, <1>5, <1>6, <1>7, HeapCollect
<1>9. h1 \in Heaps(SubRecord, Values)
  BY <1>8 DEF Collected
<1>10. /\ h1.made = h.made /\ h1.queue = h.queue /\ Made(h1) = Made(h)
       /\ \A r \in Proms : r # p => h1.slot[r] = h.slot[r]
  BY <1>8 DEF Collected
<1>11. /\ h1.slot[p].results = [h.slot[p].results EXCEPT ![i] = v]
       /\ h1.slot[p].left = h.slot[p].left - 1 /\ h1.slot[p].by = "all"
       /\ h1.slot[p] = [h.slot[p] EXCEPT !.results = h1.slot[p].results,
                                         !.left = h1.slot[p].left]
  <2> DEFINE o == h.slot[p]
             n == h1.slot[p]
  <2>1. n = [o EXCEPT !.results = [@ EXCEPT ![i] = v], !.left = @ - 1]
    BY <1>8 DEF Collected
  <2>2. o \in Slots(SubRecord, Values) /\ o.by = "all"
    BY <1>1, <1>3
  <2> HIDE DEF o, n
  <2>3. /\ n.results = [o.results EXCEPT ![i] = v] /\ n.left = o.left - 1 /\ n.by = "all"
        /\ n = [o EXCEPT !.results = n.results, !.left = n.left]
    BY <2>1, <2>2 DEF Slots
  <2>. QED BY <2>3 DEF o, n
<1>12. Collects(h, h1, p, i, v)
  <2>1. Unmade(h1)
    BY <1>1, <1>10, HeapParts DEF Unmade
  <2>2. /\ Len(h1.slot[p].results) = Len(h.slot[p].results)
        /\ \A j \in 1..Len(h.slot[p].results) :
             h1.slot[p].results[j] = IF j = i THEN v ELSE h.slot[p].results[j]
    BY <1>3, <1>5, <1>11, ExceptSeq
  <2>3. \A r \in Made(h) : r # p => h1.slot[r] = h.slot[r]
    BY <1>10, HeapParts
  <2>. QED BY <1>9, <1>10, <1>11, <2>1, <2>2, <2>3 DEF Collects
<1>13. HeapInv(h1, {}, {p}) /\ Keeps(h, h1)
  BY <1>12, Collecting DEF p, i, v
<1>14. CASE h1.slot[p].left = 0 /\ Pending(h1, p)
  <2>1. k = Settle(h1, p, "fulfilled", Array)
    BY <1>2, <1>14, ValsAssumption DEF ResolvePromise
  <2>2. HeapInv(k, {}, {}) /\ Keeps(h1, k)
    BY <1>1, <1>10, <1>11, <1>13, <1>14, <2>1, Fulfilling
  <2>. QED BY <1>13, <2>2, KeepsTransitive
<1>15. CASE h1.slot[p].left = 0 /\ ~ Pending(h1, p)
  <2>1. k = h1
    BY <1>2, <1>15 DEF ResolvePromise
  <2>. QED BY <1>11, <1>13, <1>15, <2>1, NoneCollected
<1>16. CASE h1.slot[p].left # 0
  <2>1. k = h1
    BY <1>2, <1>16
  <2>2. AllFits(h1, {}, p)
    BY <1>1, <1>10, <1>11, <1>13, HeapParts DEF PromiseInv
  <2>3. h1.slot[p].items \in Seq(Proms \cup Values) /\ h1.slot[p].left \in Int
    BY <1>1, <1>9, HeapFields DEF Slots
  <2>4. IsFiniteSet(DOMAIN h1.slot[p].items)
    BY <2>3, FiniteDomain
  <2>5. Cardinality(Waiting(h1, {}, p)) \in Nat
    BY <2>4, FS_Subset, FS_CardinalityType DEF Waiting
  <2>6. h1.slot[p].left > 0
    BY <1>16, <2>2, <2>3, <2>5 DEF AllFits
  <2>. QED BY <1>11, <1>13, <2>1, <2>6, NoneCollected
<1>. QED BY <1>14, <1>15, <1>16

(* What a microtask is. *)
LEMMA TaskParts ==
  ASSUME NEW h, NEW X, NEW t, HeapInv(h, {t.sub}, X), TaskFits(h, t), t.sub.kind # "task"
  PROVE  /\ SubFits(h, t.sub) /\ SrcFits(h, t.sub, t.src)
         /\ t.sub \in SubRecord /\ t.sub.target \in Made(h) /\ t.src \in Made(h)
         /\ t.src \in Proms /\ h.slot[t.src].value \in Values
         /\ h.slot[t.src].state = (IF t.ok THEN "fulfilled" ELSE "rejected")
         /\ ~ Pending(h, t.src)
<1>1. /\ SubFits(h, t.sub) /\ SrcFits(h, t.sub, t.src)
      /\ h.slot[t.src].state = (IF t.ok THEN "fulfilled" ELSE "rejected")
  BY DEF TaskFits, SideFits
<1>2. t.sub \in SubRecord /\ t.sub.target \in Made(h) /\ t.src \in Made(h)
  BY <1>1 DEF SubFits, SrcFits
<1>3. t.src \in Proms /\ h.slot[t.src].value \in Values
  <2>1. t.src \in Proms
    BY <1>2, HeapParts
  <2>2. h.slot[t.src] \in Slots(SubRecord, Values)
    BY <2>1, HeapParts, HeapFields
  <2>. QED BY <2>1, <2>2 DEF Slots
<1>4. ~ Pending(h, t.src)
  BY <1>1 DEF Pending
<1>. QED BY <1>1, <1>2, <1>3, <1>4

(* A settlement is no promise. *)
LEMMA ResolvedPlainly ==
  ASSUME NEW h, NEW p, NEW v \in Values, NEW k, k = ResolvePromise(h, p, v)
  PROVE  k = Settle(h, p, "fulfilled", v)
<1>1. v \notin Proms
  BY ValsAssumption DEF Values
<1>. QED BY <1>1 DEF ResolvePromise, Settle, Pending

(* A microtask without a JS callback. *)
LEMMA PassOnInv ==
  ASSUME NEW h, NEW t, HeapInv(h, {t.sub}, {}), TaskFits(h, t), t.sub.kind # "task",
         NEW k, k = PassOn(h, t)
  PROVE  HeapInv(k, {}, {}) /\ Keeps(h, k)
<1> DEFINE s == t.sub
           q == t.src
           v == h.slot[q].value
<1>1. /\ SubFits(h, s) /\ SrcFits(h, s, q) /\ s \in SubRecord /\ v \in Values
      /\ h.slot[q].state = (IF t.ok THEN "fulfilled" ELSE "rejected")
      /\ ~ Pending(h, q)
  BY TaskParts
<1>2. s.kind \in {"then", "finally", "all", "adopt"}
  BY <1>1 DEF SubRecord
<1>3. HeapInv(h, {s}, {})
  OBVIOUS
<1>4. CASE ~ t.ok
  <2>1. k = Settle(h, s.target, "rejected", v)
    BY <1>4 DEF PassOn, RejectPromise
  <2>2. h.slot[q].state = "rejected"
    BY <1>1, <1>4
  <2> HIDE DEF s, q, v
  <2>3. CASE s.kind = "all"
    BY <1>1, <1>3, <2>1, <2>2, <2>3, RejectingAll
  <2>4. CASE s.kind # "all"
    BY <1>1, <1>2, <1>3, <2>1, <2>4, Answering DEF Chained
  <2>. QED BY <2>3, <2>4
<1>5. CASE t.ok /\ s.kind = "all"
  <2>1. k = CollectItem(h, s.target, s.index, v)
    BY <1>5 DEF PassOn
  <2>2. h.slot[q].state = "fulfilled"
    BY <1>1, <1>5
  <2>3. k = CollectItem(h, s.target, s.index, h.slot[q].value)
    BY <2>1
  <2> HIDE DEF s, q, v
  <2>. QED BY <1>1, <1>3, <1>5, <2>2, <2>3, CollectInv
<1>6. CASE t.ok /\ s.kind # "all"
  <2>1. k = ResolvePromise(h, s.target, v)
    BY <1>6 DEF PassOn
  <2>2. h.slot[q].state = "fulfilled" /\ h.slot[q].value = v
    BY <1>1, <1>6
  <2> HIDE DEF s, q, v
  <2>3. k = Settle(h, s.target, "fulfilled", v)
    BY <1>1, <2>1, ResolvedPlainly
  <2>. QED BY <1>1, <1>2, <1>3, <1>6, <2>2, <2>3, Answering DEF Chained
<1>. QED BY <1>4, <1>5, <1>6

(* Which microtasks call JS. *)
LEMMA CallsKinds ==
  ASSUME NEW h, NEW t, TaskFits(h, t), CallsJS(t)
  PROVE  t.sub.kind \in {"then", "finally", "task"}
<1>1. SubFits(h, t.sub)
  BY DEF TaskFits
<1>2. t.sub.kind \in {"then", "finally", "all", "adopt", "task"}
  BY <1>1 DEF SubFits, SubRecord
<1>3. t.sub.kind \in {"all", "adopt"} => ~ t.sub.onF /\ ~ t.sub.onR
  <2>1. t.sub.kind = "all" => t.sub = AllSub(t.sub.target, t.sub.index)
    BY <1>1 DEF SubFits
  <2>2. t.sub.kind = "adopt" => t.sub = Adopt(t.sub.target)
    BY <1>1 DEF SubFits
  <2>3. \A p, i : ~ AllSub(p, i).onF /\ ~ AllSub(p, i).onR
    BY DEF AllSub, Sub
  <2>4. \A p : ~ Adopt(p).onF /\ ~ Adopt(p).onR
    BY DEF Adopt, Sub
  <2>. QED BY <2>1, <2>2, <2>3, <2>4
<1>. QED BY <1>2, <1>3 DEF CallsJS

(* A then() callback returned a promise: the target waits for it. *)
LEMMA ChainInv ==
  ASSUME NEW h, NEW s, HeapInv(h, {s}, {}), SubFits(h, s), s.kind = "then",
         NEW v \in Made(h), NEW k, k = ThenOnSettled(h, v, Adopt(s.target))
  PROVE  HeapInv(k, {}, {}) /\ Keeps(h, k)
<1> DEFINE p == s.target
           a == Adopt(p)
<1>1. p \in Made(h) /\ h.slot[p].by = "then"
  BY DEF SubFits, Chained
<1>2. /\ SubFits(h, a) /\ SrcFits(h, a, v) /\ a.kind = "adopt"
      /\ \A q : a \in To(q) <=> q = p
      /\ \A q, i : a \notin ForItem(q, i)
  BY <1>1, HeapParts, AdoptFits
<1>3. /\ \A q : s \in To(q) <=> q = p
      /\ \A q, i : s \notin ForItem(q, i)
  BY DEF SubFits, To, ForItem, AllSub, Sub
<1> HIDE DEF p, a
<1>4. ASSUME NEW K, s \in K <=> a \in K
      PROVE  Held({s}, K) = Held({}, K) + IF a \in K THEN 1 ELSE 0
  <2>1. Held({s}, K) = IF s \in K THEN 1 ELSE 0
    BY HeldAlone
  <2>2. Held({}, K) = 0
    BY FS_EmptySet, HeldFacts
  <2>. QED BY <1>4, <2>1, <2>2
<1>5. ASSUME NEW r \in Made(h) PROVE Moves(h, {s}, {}, a, r)
  <2>1. s \in To(r) <=> a \in To(r)
    BY <1>2, <1>3
  <2>2. \A i : s \in ForItem(r, i) <=> a \in ForItem(r, i)
    BY <1>2, <1>3
  <2>. QED BY <1>4, <2>1, <2>2 DEF Moves
<1>6. FlightInv(h, {})
  BY FS_EmptySet DEF FlightInv
<1>7. ~ (a.kind \in Chained) /\ k = ThenOnSettled(h, v, a)
  BY <1>2 DEF Chained, a, p
<1>. QED BY <1>2, <1>5, <1>6, <1>7, SubscribeInv

(* The JS callback of a microtask returned. *)
LEMMA ReturnedInv ==
  ASSUME NEW h, NEW t, HeapInv(h, {t.sub}, {}), TaskFits(h, t), CallsJS(t),
         NEW v \in Vals \cup Made(h), NEW k, k = CallbackReturned(h, t, v)
  PROVE  HeapInv(k, {}, {}) /\ Keeps(h, k)
<1>1. t.sub.kind \in {"then", "finally", "task"}
  BY CallsKinds
<1>2. CASE t.sub.kind = "task"
  <2>1. k = h
    BY <1>2 DEF CallbackReturned
  <2>2. Keeps(h, h)
    BY DEF Keeps
  <2>. QED BY <1>2, <2>1, <2>2, Dropping
<1>3. CASE t.sub.kind = "finally"
  <2>1. k = PassOn(h, t)
    BY <1>3 DEF CallbackReturned
  <2>. QED BY <1>3, <2>1, PassOnInv
<1>4. CASE t.sub.kind = "then"
  <2> DEFINE s == t.sub
  <2>1. k = ResolvePromise(h, s.target, v)
    BY <1>4 DEF CallbackReturned
  <2>2. /\ SubFits(h, s) /\ SrcFits(h, s, t.src) /\ s \in SubRecord
        /\ s.target \in Made(h) /\ ~ Pending(h, t.src)
    BY <1>4, TaskParts
  <2>3. HeapInv(h, {s}, {}) /\ s.kind = "then"
    BY <1>4
  <2> HIDE DEF s
  <2>4. CASE v \in Made(h)
    <3>1. h.slot[s.target].by \in Chained
      BY <2>2, <2>3 DEF SubFits, Chained
    <3>2. Pending(h, s.target)
      BY <2>2, <2>3, <3>1, StillPending
    <3>3. v \in Proms
      BY <2>4, HeapParts
    <3>4. k = ThenOnSettled(h, v, Adopt(s.target))
      BY <2>1, <3>2, <3>3 DEF ResolvePromise
    <3>. QED BY <2>2, <2>3, <2>4, <3>4, ChainInv
  <2>5. CASE v \in Vals
    <3>1. v \in Values
      BY <2>5 DEF Values
    <3>2. k = Settle(h, s.target, "fulfilled", v)
      BY <2>1, <3>1, ResolvedPlainly
    <3>. QED BY <2>2, <2>3, <3>1, <3>2, Answering DEF Chained
  <2>. QED BY <2>4, <2>5
<1>. QED BY <1>1, <1>2, <1>3, <1>4

(* It threw. *)
LEMMA ThrewInv ==
  ASSUME NEW h, NEW t, HeapInv(h, {t.sub}, {}), TaskFits(h, t), CallsJS(t),
         NEW v \in Vals, NEW k, k = CallbackThrew(h, t, v)
  PROVE  HeapInv(k, {}, {}) /\ Keeps(h, k)
<1>1. t.sub.kind \in {"then", "finally", "task"}
  BY CallsKinds
<1>2. CASE t.sub.kind = "task"
  <2>1. k = h
    BY <1>2 DEF CallbackThrew
  <2>2. Keeps(h, h)
    BY DEF Keeps
  <2>. QED BY <1>2, <2>1, <2>2, Dropping
<1>3. CASE t.sub.kind # "task"
  <2> DEFINE s == t.sub
  <2>1. k = Settle(h, s.target, "rejected", v) /\ v \in Values
    BY <1>3 DEF CallbackThrew, RejectPromise, Values
  <2>2. SubFits(h, s) /\ SrcFits(h, s, t.src) /\ ~ Pending(h, t.src)
    BY <1>3, TaskParts
  <2>3. HeapInv(h, {s}, {}) /\ s.kind \in Chained
    BY <1>1, <1>3 DEF Chained
  <2> HIDE DEF s
  <2>. QED BY <2>1, <2>2, <2>3, Answering
<1>. QED BY <1>2, <1>3

-----------------------------------------------------------------------------
(* The steps of Promise. *)

(* An empty heap, nobody on the way. *)
LEMMA InitInv ==
  ASSUME Init
  PROVE  Inv
<1>1. heap = EmptyHeap /\ phase = "idle" /\ task = NoTask
  BY DEF Init
<1>2. EmptyHeap \in Heaps(SubRecord, Values)
  <2>1. <<>> \in Seq(SubRecord) /\ <<>> \in Seq(Proms \cup Values) /\ <<>> \in Seq(Values)
    OBVIOUS
  <2>2. NoVal \in Values /\ 0 \in 0..MaxProms
    BY MaxPromsAssumption DEF Values
  <2>3. FreshSlot \in Slots(SubRecord, Values)
    BY <2>1, <2>2 DEF FreshSlot, Slots, States, Origins
  <2> HIDE DEF FreshSlot
  <2>4. [p \in Proms |-> FreshSlot] \in [Proms -> Slots(SubRecord, Values)]
    BY <2>3
  <2>. QED BY <2>2, <2>4 DEF EmptyHeap, Heaps
<1>3. /\ EmptyHeap.made = 0 /\ EmptyHeap.queue = <<>>
      /\ \A p \in Proms : EmptyHeap.slot[p] = FreshSlot
  BY DEF EmptyHeap
<1>4. Made(EmptyHeap) = {}
  BY <1>3 DEF Made
<1>5. Unmade(EmptyHeap) /\ QueueInv(EmptyHeap) /\ QueueOrder(EmptyHeap)
  BY <1>3 DEF Unmade, QueueInv, QueueOrder
<1>6. InFlight = {} /\ FlightInv(EmptyHeap, {})
  BY <1>1, FS_EmptySet DEF InFlight, FlightInv
<1>7. HeapInv(EmptyHeap, {}, {})
  BY <1>2, <1>4, <1>5, <1>6 DEF HeapInv
<1>8. LoopInv
  BY <1>1 DEF LoopInv
<1>. QED BY <1>1, <1>6, <1>7, <1>8 DEF Inv

(* What a step of JS or of the loop does to the heap while the same callback,
   or none, runs. *)
LEMMA SameTask ==
  ASSUME Inv, HeapInv(heap', InFlight, {}), Keeps(heap, heap'), task' = task,
         phase' \in {"program", "callback", "drain", "host", "idle"},
         phase' = "callback" <=> phase = "callback"
  PROVE  Inv' /\ Keeps(heap, heap')
<1>1. InFlight' = InFlight
  BY DEF InFlight
<1>2. task # NoTask => TaskFits(heap', task)
  BY TaskKept DEF Inv, LoopInv
<1>3. LoopInv'
  BY <1>2 DEF Inv, LoopInv
<1>. QED BY <1>1, <1>3 DEF Inv

(* The operations. *)
LEMMA OperationInv ==
  ASSUME Inv, Operation
  PROVE  HeapInv(heap', InFlight, {}) /\ Keeps(heap, heap') /\ UNCHANGED <<phase, task>>
<1> DEFINE F == InFlight
<1>1. HeapInv(heap, F, {})
  BY DEF Inv
<1>2. Made(heap) \subseteq Proms /\ heap.made \in Nat
  BY <1>1, HeapParts, HeapFields, MaxPromsAssumption
<1> HIDE DEF F
<1>3. SUFFICES HeapInv(heap', F, {}) /\ Keeps(heap, heap') /\ UNCHANGED <<phase, task>>
  BY DEF F
<1>4. CASE Construct
  <2>1. heap.made < MaxProms /\ heap' = NewPromise(heap, "ctor")
    BY <1>2, <1>4, MaxPromsAssumption DEF Construct, Room, Does
  <2>. QED BY <1>1, <1>4, <2>1, NewPlain DEF Construct, Does
<1>5. ASSUME NEW p \in Proms, NEW v \in Vals \cup Proms, CallResolve(p, v)
      PROVE  HeapInv(heap', F, {}) /\ Keeps(heap, heap') /\ UNCHANGED <<phase, task>>
  <2>1. /\ p \in Made(heap) /\ heap.slot[p].by = "ctor" /\ v \in Vals \cup Made(heap)
        /\ heap' = ResolvePromise(heap, p, v) /\ UNCHANGED <<phase, task>>
    BY <1>5 DEF CallResolve, Resolvable, Does
  <2>. QED BY <1>1, <2>1, ResolveInv
<1>6. ASSUME NEW p \in Proms, NEW v \in Vals, CallReject(p, v)
      PROVE  HeapInv(heap', F, {}) /\ Keeps(heap, heap') /\ UNCHANGED <<phase, task>>
  <2>1. /\ p \in Made(heap) /\ heap.slot[p].by = "ctor"
        /\ heap' = RejectPromise(heap, p, v) /\ UNCHANGED <<phase, task>>
    BY <1>6 DEF CallReject, Resolvable, Does
  <2>. QED BY <1>1, <2>1, RejectInv
<1>7. ASSUME NEW v \in Vals, StaticResolve(v) \/ StaticReject(v)
      PROVE  HeapInv(heap', F, {}) /\ Keeps(heap, heap') /\ UNCHANGED <<phase, task>>
  <2> DEFINE h == NewPromise(heap, "static")
             q == Newest(h)
  <2>1. heap.made < MaxProms /\ UNCHANGED <<phase, task>>
    BY <1>2, <1>7, MaxPromsAssumption DEF StaticResolve, StaticReject, Room, Does
  <2>2. heap' = ResolvePromise(h, q, v) \/ heap' = RejectPromise(h, q, v)
    BY <1>7 DEF StaticResolve, StaticReject, Does
  <2>3. /\ HeapInv(h, F, {}) /\ Keeps(heap, h) /\ q \in Made(h) /\ h.slot[q].by = "static"
    BY <1>1, <2>1, NewPlain
  <2> HIDE DEF h, q
  <2>4. v \notin Proms
    BY ValsAssumption
  <2>5. HeapInv(heap', F, {}) /\ Keeps(h, heap')
    BY <2>2, <2>3, <2>4, ResolveInv, RejectInv
  <2>. QED BY <2>1, <2>3, <2>5, KeepsTransitive
<1>8. ASSUME NEW p \in Proms, NEW f \in BOOLEAN, NEW r \in BOOLEAN, Then(p, f, r)
      PROVE  HeapInv(heap', F, {}) /\ Keeps(heap, heap') /\ UNCHANGED <<phase, task>>
  <2>1. /\ p \in Made(heap) /\ heap.made < MaxProms
        /\ heap' = PromiseThen(heap, p, "then", f, r) /\ UNCHANGED <<phase, task>>
    BY <1>2, <1>8, MaxPromsAssumption DEF Then, Room, Does
  <2>2. "then" \in Chained
    BY DEF Chained
  <2>. QED BY <1>1, <2>1, <2>2, ThenInv
<1>9. ASSUME NEW p \in Proms, NEW c \in BOOLEAN, Finally(p, c)
      PROVE  HeapInv(heap', F, {}) /\ Keeps(heap, heap') /\ UNCHANGED <<phase, task>>
  <2>1. /\ p \in Made(heap) /\ heap.made < MaxProms
        /\ heap' = PromiseThen(heap, p, "finally", c, c) /\ UNCHANGED <<phase, task>>
    BY <1>2, <1>9, MaxPromsAssumption DEF Finally, Room, Does
  <2>2. "finally" \in Chained
    BY DEF Chained
  <2>. QED BY <1>1, <2>1, <2>2, ThenInv
<1>10. ASSUME NEW items \in Arrays(heap), All(items) \/ Race(items)
       PROVE  HeapInv(heap', F, {}) /\ Keeps(heap, heap') /\ UNCHANGED <<phase, task>>
  <2>1. /\ RoomFor(heap, items) /\ UNCHANGED <<phase, task>>
        /\ heap' = PromiseAll(heap, items) \/ heap' = PromiseRace(heap, items)
    BY <1>10 DEF All, Race, Room, RoomFor, Does
  <2>. QED BY <1>1, <1>10, <2>1, AllInv, RaceInv
<1>11. CASE CallQueueMicrotask
  <2>1. heap' = QueueMicrotask(heap) /\ UNCHANGED <<phase, task>>
    BY <1>11 DEF CallQueueMicrotask, Does
  <2>. QED BY <1>1, <2>1, QueueMicrotaskInv
<1>12. \A items : items \in {<<>>} \cup {<<x, y>> : x, y \in Item} => items \in Arrays(heap)
  <2>1. Item = Vals \cup Made(heap)
    BY DEF Item
  <2>. QED BY <2>1 DEF Arrays
<1>. QED BY <1>4, <1>5, <1>6, <1>7, <1>8, <1>9, <1>10, <1>11, <1>12 DEF Operation

(* Microtasks as TypeOK has them. *)
LEMMA SameTasks ==
  TaskRecord = Tasks(SubRecord)
<1>1. Proms \cup {0} = 0..MaxProms
  BY MaxPromsAssumption DEF Proms
<1>. QED BY <1>1 DEF TaskRecord, Tasks

(* The loop takes the head of the queue. *)
LEMMA RunMicrotaskInv ==
  ASSUME Inv, RunMicrotask
  PROVE  Inv' /\ Keeps(heap, heap')
<1> DEFINE t == Head(heap.queue)
           h == [heap EXCEPT !.queue = Tail(@)]
<1>1. /\ phase = "drain" /\ heap.queue # <<>>
      /\ CallsJS(t) => heap' = h /\ phase' = "callback" /\ task' = t
      /\ ~ CallsJS(t) => heap' = PassOn(h, t) /\ UNCHANGED <<phase, task>>
  BY DEF RunMicrotask
<1>2. task = NoTask /\ InFlight = {} /\ HeapInv(heap, {}, {})
  BY <1>1 DEF Inv, LoopInv, InFlight
<1>3. /\ h \in Heaps(SubRecord, Values) /\ t \in Tasks(SubRecord) /\ Takes(heap, h, t)
  BY <1>1, <1>2, HeapParts, TakeFacts
<1> HIDE DEF t, h
<1>4. HeapInv(h, {t.sub}, {}) /\ TaskFits(h, t) /\ Keeps(heap, h)
  BY <1>2, <1>3, Taking
<1>5. CASE CallsJS(t)
  <2>1. t \in TaskRecord /\ t # NoTask
    BY <1>3, SameTasks, NoTaskAssumption
  <2>2. InFlight' = {t.sub}
    BY <1>1, <1>5, <2>1 DEF InFlight
  <2>3. LoopInv'
    BY <1>1, <1>4, <1>5, <2>1 DEF LoopInv
  <2>4. HeapInv(heap', InFlight', {})
    BY <1>1, <1>4, <1>5, <2>2
  <2>. QED BY <1>1, <1>4, <1>5, <2>3, <2>4 DEF Inv
<1>6. CASE ~ CallsJS(t)
  <2>1. t.sub.kind # "task"
    <3>1. t.sub.kind = "task" => t.sub = Sub("task", 0, TRUE, TRUE, 0)
      BY <1>4 DEF TaskFits, SubFits
    <3>. QED BY <1>6, <3>1 DEF CallsJS, Sub
  <2>2. heap' = PassOn(h, t) /\ UNCHANGED <<phase, task>>
    BY <1>1, <1>6
  <2>3. HeapInv(heap', {}, {}) /\ Keeps(h, heap')
    BY <1>4, <2>1, <2>2, PassOnInv
  <2>4. Keeps(heap, heap')
    BY <1>4, <2>3, KeepsTransitive
  <2>5. phase' \in {"program", "callback", "drain", "host", "idle"}
    BY <1>1, <2>2
  <2>. QED BY <1>2, <2>2, <2>3, <2>4, <2>5, SameTask
<1>. QED BY <1>5, <1>6

(* A callback ends. *)
LEMMA CallbackEndsInv ==
  ASSUME Inv, CallbackEnds
  PROVE  Inv' /\ Keeps(heap, heap')
<1>1. phase = "callback" /\ phase' = "drain" /\ task' = NoTask
  BY DEF CallbackEnds, CallbackReturns, CallbackThrows
<1>2. /\ HeapInv(heap, {task.sub}, {}) /\ TaskFits(heap, task) /\ CallsJS(task)
  BY <1>1 DEF Inv, LoopInv, InFlight
<1>3. HeapInv(heap', {}, {}) /\ Keeps(heap, heap')
  <2>1. ASSUME NEW v \in Vals \cup Made(heap), CallbackReturns(v)
        PROVE  HeapInv(heap', {}, {}) /\ Keeps(heap, heap')
    BY <1>2, <2>1, ReturnedInv DEF CallbackReturns
  <2>2. ASSUME NEW v \in Vals, CallbackThrows(v)
        PROVE  HeapInv(heap', {}, {}) /\ Keeps(heap, heap')
    BY <1>2, <2>2, ThrewInv DEF CallbackThrows
  <2>. QED BY <2>1, <2>2 DEF CallbackEnds
<1>4. InFlight' = {}
  BY <1>1 DEF InFlight
<1>5. LoopInv'
  BY <1>1 DEF LoopInv
<1>6. HeapInv(heap', InFlight', {})
  BY <1>3, <1>4
<1>. QED BY <1>3, <1>5, <1>6 DEF Inv

(* Every step. *)
LEMMA StepInv ==
  ASSUME Inv, [Next]_vars
  PROVE  Inv' /\ Keeps(heap, heap')
<1>1. HeapInv(heap, InFlight, {}) /\ LoopInv
  BY DEF Inv
<1>2. Keeps(heap, heap)
  BY DEF Keeps
<1>3. phase \in {"program", "callback", "drain", "host", "idle"}
  BY <1>1 DEF LoopInv
<1>4. CASE Operation
  BY <1>3, <1>4, OperationInv, SameTask
<1>5. CASE ProgramEnds \/ EvalStarts \/ HostCalls \/ HostCallEnds \/ UNCHANGED vars
  <2>1. /\ heap' = heap /\ task' = task
        /\ phase' \in {"program", "callback", "drain", "host", "idle"}
        /\ phase' = "callback" <=> phase = "callback"
    BY <1>3, <1>5 DEF ProgramEnds, EvalStarts, HostCalls, HostCallEnds, vars
  <2>. QED BY <1>1, <1>2, <2>1, SameTask
<1>6. CASE DrainEnds
  <2>1. /\ heap' = Reported(heap) /\ task' = task /\ phase = "drain" /\ phase' = "idle"
    BY <1>6 DEF DrainEnds
  <2>2. HeapInv(heap', InFlight, {}) /\ Keeps(heap, heap')
    BY <1>1, <2>1, ReportedInv
  <2>. QED BY <2>1, <2>2, SameTask
<1>7. CASE RunMicrotask
  BY <1>7, RunMicrotaskInv
<1>8. CASE CallbackEnds
  BY <1>8, CallbackEndsInv
<1>. QED BY <1>4, <1>5, <1>6, <1>7, <1>8 DEF Next, Loop

-----------------------------------------------------------------------------
(* The theorems. *)

(* The inductive invariant holds in every behaviour. *)
THEOREM Invariance == Spec => []Inv
<1>1. Init => Inv
  BY InitInv
<1>2. Inv /\ [Next]_vars => Inv'
  BY StepInv
<1>. QED BY <1>1, <1>2, PTL DEF Spec

(* A promise settles once: promiseStorage never changes the state or the value
   of a settled promise again. *)
THEOREM Settlement == Spec => SettledForGood
<1> DEFINE Step == \A p \in Proms : ~ Pending(heap, p) =>
                     /\ heap'.slot[p].state = heap.slot[p].state
                     /\ heap'.slot[p].value = heap.slot[p].value
<1>1. Inv /\ [Next]_vars => Step
  <2>1. SUFFICES ASSUME Inv, [Next]_vars PROVE Step
    OBVIOUS
  <2>2. Unmade(heap) /\ Keeps(heap, heap')
    BY <2>1, StepInv, HeapParts DEF Inv
  <2>3. \A p \in Proms : p \notin Made(heap) => Pending(heap, p)
    BY <2>2 DEF Unmade, Pending, FreshSlot
  <2>. QED BY <2>2, <2>3 DEF Keeps
<1>2. Inv /\ [Next]_vars => [Step]_vars
  BY <1>1
<1>. QED BY <1>2, Invariance, PTL DEF Spec, SettledForGood

(* Types. *)
LEMMA InvTypes ==
  ASSUME Inv
  PROVE  TypeOK
<1>1. HeapInv(heap, InFlight, {}) /\ LoopInv
  BY DEF Inv
<1>2. /\ heap \in Heaps(SubRecord, Values) /\ Unmade(heap)
      /\ \A p \in Made(heap) : PromiseInv(heap, InFlight, {}, p)
  BY <1>1, HeapParts
<1>3. heap.made \in 0..MaxProms /\ heap.queue \in Seq(TaskRecord)
  BY <1>2, HeapFields, SameTasks
<1>4. ASSUME NEW p \in Proms
      PROVE  /\ heap.slot[p].by \in Makers /\ heap.slot[p].left \in 0..2
  <2>1. CASE p \notin Made(heap)
    <3>1. heap.slot[p] = FreshSlot
      BY <1>2, <2>1 DEF Unmade
    <3>. QED BY <3>1 DEF FreshSlot, Makers
  <2>2. CASE p \in Made(heap) /\ heap.slot[p].by # "all"
    BY <1>2, <2>2 DEF PromiseInv
  <2>3. CASE p \in Made(heap) /\ heap.slot[p].by = "all"
    <3>1. AllFits(heap, InFlight, p) /\ heap.slot[p].by \in Makers
      BY <1>2, <2>3 DEF PromiseInv
    <3>2. heap.slot[p].items \in Seq(Proms \cup Values) /\ heap.slot[p].left \in Int
      BY <1>2, HeapFields DEF Slots
    <3>3. IsFiniteSet(DOMAIN heap.slot[p].items)
      BY <3>2, FiniteDomain
    <3>4. Cardinality(Waiting(heap, InFlight, p)) \in Nat
      BY <3>3, FS_Subset, FS_CardinalityType DEF Waiting
    <3>5. /\ Cardinality(Waiting(heap, InFlight, p)) <= heap.slot[p].left
          /\ heap.slot[p].left <= Len(heap.slot[p].items) /\ Len(heap.slot[p].items) <= 2
          /\ Len(heap.slot[p].items) \in Nat
      BY <3>1, <3>2 DEF AllFits
    <3>. QED BY <3>1, <3>2, <3>4, <3>5
  <2>. QED BY <2>1, <2>2, <2>3
<1>5. ASSUME NEW p \in Proms
      PROVE  /\ heap.slot[p].state \in {"pending", "fulfilled", "rejected"}
             /\ heap.slot[p].value \in Vals \cup {Array, NoVal}
             /\ heap.slot[p].subs \in Seq(SubRecord)
             /\ heap.slot[p].handled \in BOOLEAN /\ heap.slot[p].from \in 0..MaxProms
  <2>1. heap.slot[p] \in Slots(SubRecord, Values)
    BY <1>2, HeapFields
  <2>. QED BY <2>1 DEF Slots, States, Values
<1>. QED BY <1>1, <1>3, <1>4, <1>5 DEF TypeOK, LoopInv

(* The places that owe p its settlement, counted. *)
LEMMA OwingCount ==
  ASSUME NEW h, NEW F, NEW X, HeapInv(h, F, X), NEW p
  PROVE  Owing(h, p) = PlacesIn(h, To(p)) /\ Cardinality(Owing(h, p)) = Count(h, To(p))
<1>1. \A at \in Places(h) : SubAt(h, at) \in SubRecord
  BY PlacesFit DEF SubFits
<1>2. Owing(h, p) = PlacesIn(h, To(p))
  BY <1>1 DEF Owing, PlacesIn, To
<1>. QED BY <1>2 DEF Count

(* Reactions are delivered once. *)
LEMMA InvDelivered ==
  ASSUME Inv
  PROVE  ReactionsDeliveredOnce
<1>1. HeapInv(heap, InFlight, {}) /\ LoopInv
  BY DEF Inv
<1>2. SUFFICES ASSUME NEW p \in Made(heap), Derived(p)
               PROVE  IF Running(p) THEN Pending(heap, p) /\ Owing(heap, p) = {}
                      ELSE Cardinality(Owing(heap, p)) = IF Pending(heap, p) THEN 1 ELSE 0
  BY DEF ReactionsDeliveredOnce
<1>3. heap.slot[p].by \in Chained
  BY <1>2 DEF Derived, Chained
<1>4. Owing(heap, p) = PlacesIn(heap, To(p)) /\ Cardinality(Owing(heap, p)) = Count(heap, To(p))
  BY <1>1, OwingCount
<1>5. CASE Running(p)
  <2>1. InFlight = {task.sub} /\ p = task.sub.target /\ TaskFits(heap, task)
    BY <1>1, <1>5 DEF Running, InFlight, LoopInv
  <2>2. task.sub \in SubRecord
    BY <2>1 DEF TaskFits, SubFits
  <2>3. HeapInv(heap, {task.sub}, {})
    BY <1>1, <2>1
  <2>4. Pending(heap, p) /\ Count(heap, To(p)) = 0
    BY <1>3, <2>1, <2>2, <2>3, StillPending
  <2>5. Owing(heap, p) = {}
    BY <1>1, <1>4, <2>4, HeapParts, CountFacts DEF PlacesIn
  <2>. QED BY <1>5, <2>4, <2>5
<1>6. CASE ~ Running(p)
  <2>1. InFlight \cap To(p) = {}
    BY <1>6 DEF Running, InFlight, To
  <2>2. Held(InFlight, To(p)) = 0
    BY <1>1, <2>1, HeapParts, HeldFacts
  <2>3. Total(heap, InFlight, To(p)) = IF Pending(heap, p) THEN 1 ELSE 0
    BY <1>1, <1>3, HeapParts DEF PromiseInv
  <2>4. Count(heap, To(p)) \in Nat
    BY <1>1, HeapParts, CountFacts
  <2>. QED BY <1>4, <1>6, <2>2, <2>3, <2>4 DEF Total
<1>. QED BY <1>5, <1>6

(* Lists are empty once a promise settled, and queued reactions are for the side
   it settled on. *)
LEMMA InvMatches ==
  ASSUME Inv
  PROVE  ReactionsMatchSource
<1>1. /\ heap \in Heaps(SubRecord, Values) /\ QueueInv(heap)
      /\ \A p \in Made(heap) : ListInv(heap, p)
  BY HeapParts DEF Inv
<1>2. DOMAIN heap.queue = 1..Len(heap.queue)
  BY <1>1, HeapFields
<1>. QED BY <1>1, <1>2 DEF ReactionsMatchSource, ListInv, QueueInv, TaskFits, SideFits

(* The heap keeps its types, no reaction is lost or delivered twice, however
   settling, subscribing, callbacks and the loop interleave, and each is for the
   side its source settled on. *)
THEOREM Reactions == Spec => []ReactionsSound
<1>1. Inv => ReactionsSound
  BY InvTypes, InvDelivered, InvMatches DEF ReactionsSound
<1>. QED BY <1>1, Invariance, PTL

(* The queue serves the reactions of one promise in the order then() attached
   them, whether they came from its list or directly. *)
THEOREM ReactionOrder == Spec => []ReactionsInOrder
<1>1. Inv => ReactionsInOrder
  <2>1. SUFFICES ASSUME Inv PROVE ReactionsInOrder
    OBVIOUS
  <2>2. heap \in Heaps(SubRecord, Values) /\ QueueOrder(heap)
    BY <2>1, HeapParts DEF Inv
  <2>3. DOMAIN heap.queue = 1..Len(heap.queue)
    BY <2>2, HeapFields
  <2>. QED BY <2>2, <2>3 DEF ReactionsInOrder, QueueOrder, Chained
<1>. QED BY <1>1, Invariance, PTL

(* The items a Promise.all promise waits for are those of its subscribers. *)
LEMMA WaitsAreWaiting ==
  ASSUME Inv, NEW p \in Made(heap), heap.slot[p].by = "all"
  PROVE  {SubAt(heap, at).index : at \in Owing(heap, p)} = Waiting(heap, InFlight, p)
<1>1. HeapInv(heap, InFlight, {}) /\ heap \in Heaps(SubRecord, Values) /\ p # 0
  BY HeapParts DEF Inv, Made
<1>2. ASSUME NEW s, SubFits(heap, s), s.target = p
      PROVE  s.kind = "all" /\ s = AllSub(p, s.index)
             /\ s.index \in DOMAIN heap.slot[p].items
  <2>1. s.kind \in {"then", "finally", "all", "adopt", "task"}
    BY <1>2 DEF SubFits, SubRecord
  <2>2. s.kind # "task"
    BY <1>1, <1>2 DEF SubFits, Sub
  <2>. QED BY <1>2, <2>1, <2>2 DEF SubFits, Chained
<1>3. ASSUME NEW i PROVE Held(InFlight, ForItem(p, i)) = 0
  <2>1. InFlight \cap ForItem(p, i) = {}
    <3>1. CASE task = NoTask
      BY <3>1 DEF InFlight
    <3>2. CASE task # NoTask
      <4>1. task.sub.kind # "all"
        BY <3>2, CallsKinds DEF Inv, LoopInv
      <4>. QED BY <3>2, <4>1 DEF InFlight, ForItem, AllSub, Sub
    <3>. QED BY <3>1, <3>2
  <2>. QED BY <1>1, <2>1, HeapParts, HeldFacts
<1>4. ASSUME NEW i
      PROVE  Total(heap, InFlight, ForItem(p, i)) # 0
               <=> \E at \in Places(heap) : SubAt(heap, at) = AllSub(p, i)
  <2>1. Count(heap, ForItem(p, i)) \in Nat
    BY <1>1, CountFacts
  <2>2. Count(heap, ForItem(p, i)) # 0
          <=> \E at \in Places(heap) : SubAt(heap, at) \in ForItem(p, i)
    BY <1>1, CountFacts
  <2>. QED BY <1>3, <2>1, <2>2 DEF Total, ForItem
<1>5. ASSUME NEW at \in Owing(heap, p)
      PROVE  SubAt(heap, at).index \in Waiting(heap, InFlight, p)
  <2> DEFINE s == SubAt(heap, at)
  <2>1. at \in Places(heap) /\ s.target = p
    BY DEF Owing
  <2>2. SubFits(heap, s)
    BY <1>1, <2>1, PlacesFit
  <2>3. s = AllSub(p, s.index) /\ s.index \in DOMAIN heap.slot[p].items
    BY <1>2, <2>1, <2>2
  <2>4. Total(heap, InFlight, ForItem(p, s.index)) # 0
    BY <1>4, <2>1, <2>3
  <2>. QED BY <2>3, <2>4 DEF Waiting
<1>6. ASSUME NEW i \in Waiting(heap, InFlight, p)
      PROVE  \E at \in Owing(heap, p) : SubAt(heap, at).index = i
  <2>1. PICK at \in Places(heap) : SubAt(heap, at) = AllSub(p, i)
    BY <1>4 DEF Waiting
  <2>2. SubAt(heap, at).target = p /\ SubAt(heap, at).index = i
    BY <2>1 DEF AllSub, Sub
  <2>. QED BY <2>1, <2>2 DEF Owing
<1>. QED BY <1>5, <1>6

(* Promise.all waits for exactly the items it counts, and fulfils with the value
   of each at its position, in whatever order they settle and even if one occurs
   twice. *)
THEOREM AllCounting == Spec => []AllCounts
<1>1. Inv => AllCounts
  <2>1. SUFFICES ASSUME Inv, NEW p \in Made(heap), heap.slot[p].by = "all"
                 PROVE  LET s == heap.slot[p]
                            Waits == {SubAt(heap, at).index : at \in Owing(heap, p)}
                            Value(x) == IF x \in Proms THEN heap.slot[x].value ELSE x
                        IN CASE s.state = "pending" -> Cardinality(Waits) = s.left /\ s.left > 0
                             [] s.state = "fulfilled" -> \A i \in DOMAIN s.items :
                                                           s.results[i] = Value(s.items[i])
                             [] OTHER -> \E i \in DOMAIN s.items :
                                           /\ s.items[i] \in Proms
                                           /\ heap.slot[s.items[i]].state = "rejected"
    BY DEF AllCounts
  <2>2. HeapInv(heap, InFlight, {}) /\ heap.slot[p] \in Slots(SubRecord, Values)
    BY <2>1, HeapParts, HeapFields DEF Inv
  <2>3. AllFits(heap, InFlight, p) /\ (Pending(heap, p) => heap.slot[p].left > 0)
    BY <2>1, <2>2, HeapParts DEF PromiseInv
  <2>4. {SubAt(heap, at).index : at \in Owing(heap, p)} = Waiting(heap, InFlight, p)
    BY <2>1, WaitsAreWaiting
  <2>5. heap.slot[p].state \in {"pending", "fulfilled", "rejected"}
    BY <2>2 DEF Slots, States
  <2>6. CASE heap.slot[p].state = "pending"
    BY <2>3, <2>4, <2>6 DEF AllFits, Pending
  <2>7. CASE heap.slot[p].state = "fulfilled"
    <3>1. \A i \in DOMAIN heap.slot[p].items : Delivered(heap, p, i)
      BY <2>3, <2>7 DEF AllFits
    <3>. QED BY <2>7, <3>1 DEF Delivered
  <2>8. CASE heap.slot[p].state = "rejected"
    BY <2>3, <2>8 DEF AllFits
  <2>. QED BY <2>5, <2>6, <2>7, <2>8
<1>. QED BY <1>1, Invariance, PTL

(* finally() passes the settlement of its promise on, whatever its callback
   returns and even while other reactions run in between. *)
THEOREM Transparency == Spec => []FinallyTransparent
<1>1. Inv => FinallyTransparent
  <2>1. SUFFICES ASSUME Inv, NEW p \in Made(heap), heap.slot[p].by = "finally"
                 PROVE  /\ heap.slot[p].state = "fulfilled" =>
                             /\ heap.slot[heap.slot[p].from].state = "fulfilled"
                             /\ heap.slot[heap.slot[p].from].value = heap.slot[p].value
                        /\ heap.slot[p].state = "rejected" => ~ Pending(heap, heap.slot[p].from)
    BY DEF FinallyTransparent
  <2>2. FinallyFits(heap, p)
    BY <2>1, HeapParts DEF Inv, PromiseInv
  <2>. QED BY <2>2 DEF FinallyFits, Pending
<1>. QED BY <1>1, Invariance, PTL
=============================================================================
