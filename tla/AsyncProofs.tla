------------------------------- MODULE AsyncProofs -------------------------------
(***************************************************************************)
(* Theorems about AsyncVM, for every number of promises and fibers, every  *)
(* set of values and any depth of the stacks.                              *)
(*                                                                         *)
(* The invariant has two halves.  One is about the tips of the stacks:     *)
(* who has the turn, who waits for whom, and that what is below a tip is   *)
(* JS or a drain, so that the turn comes back when the tip ends.  The      *)
(* other is about the heap and counts subscribers, as PromiseHeapProofs    *)
(* does: a fiber that awaits has one wake-up, in a list, in the queue or   *)
(* at the tip of the goroutine that serves it, and the promise of a fiber  *)
(* is owed a settlement by nobody before the body ends.                    *)
(***************************************************************************)
EXTENDS AsyncVM, PromiseHeapProofs

(* The values of promises that are not promises themselves. *)
Values == Vals \cup {NoVal}

-----------------------------------------------------------------------------
(* The invariant: the heap.  aw is awaiting. *)

(* Subscriber s is one the code makes. *)
SubFits(h, s) ==
  /\ s \in SubRecord
  /\ s.kind = "then" => s.target \in Made(h) /\ h.slot[s.target].by = "then"
  /\ s.kind = "adopt" => /\ s.target \in Made(h)
                         /\ h.slot[s.target].by \in {"ctor", "then", "async"}
                         /\ s = Adopt(s.target)
  /\ s.kind = "wake" => s.target \in Fibers

(* Subscriber s may have been attached to q: a fiber is woken by what it awaits. *)
SrcFits(aw, s, q) == s.kind = "wake" => aw[s.target] = q

(* Promise q is settled, on that side. *)
SideFits(h, q, ok) == h.slot[q].state = IF ok THEN "fulfilled" ELSE "rejected"

TaskFits(h, aw, t) ==
  /\ SubFits(h, t.sub) /\ SrcFits(aw, t.sub, t.src)
  /\ t.src \in Made(h) /\ SideFits(h, t.src, t.ok)

QueueFits(h, aw) == \A i \in 1..Len(h.queue) : TaskFits(h, aw, h.queue[i])

ListFits(h, aw, p) ==
  \A i \in 1..Len(h.slot[p].subs) : /\ SubFits(h, h.slot[p].subs[i])
                                    /\ SrcFits(aw, h.slot[p].subs[i], p)

HeapFits(h, aw) ==
  /\ h \in Heaps(SubRecord, Values) /\ Unmade(h)
  /\ QueueFits(h, aw)
  /\ \A p \in Made(h) : ListFits(h, aw, p)

(* Who will resume fiber f, and who will settle promise p. *)
Wakes(f) == {s \in SubRecord : s.kind = "wake" /\ s.target = f}

Owes(p) == {s \in SubRecord : s.kind # "wake" /\ s.target = p}

-----------------------------------------------------------------------------
(* The invariant: the stacks. *)

Activities == [kind : Kinds, on : Nat, task : TaskRecord \cup {NoTask}]

(* The reaction of a callback that runs is one that then() attached. *)
Fitting(h) ==
  {a \in Activities : a.kind = "callback" => a.task \in TaskRecord /\ a.task.sub.kind = "then"
                                               /\ SubFits(h, a.task.sub)}

(* What can have something above it, and what a stack begins with. *)
Under == JSKinds \cup {"drain"}

Bottoms(t) == IF t = Main THEN {"program", "drain"} ELSE {"body", "ending"}

(* s is the stack of goroutine t at a time when the heap is h. *)
StackFits(h, t, s) ==
  /\ s \in Seq(Fitting(h))
  /\ \A i \in 1..Len(s) : i < Len(s) => s[i].kind \in Under
  /\ s # <<>> => s[1].kind \in Bottoms(t)

(* The tip of each stack. *)
Idle == [kind |-> "idle", on |-> 0, task |-> NoTask]

Tip(s) == IF s = <<>> THEN Idle ELSE Last(s)

Tips(st) == [t \in Goroutines |-> Tip(st[t])]

Holders == JSKinds \cup {"drain", "wake", "pausing", "ending"}

Partners == {"spawn", "woken"}

Asleep == {"idle", "parked"}

(* One goroutine has the turn while the main one is busy; who waits for a fiber
   is the only one to, and the fiber is on its way to pause. *)
TurnFits(a) ==
  /\ \A t, u \in Goroutines : a[t].kind \in Holders /\ a[u].kind \in Holders => t = u
  /\ a[Main].kind # "idle" <=> \E t \in Goroutines : a[t].kind \in Holders
  /\ \A t \in Goroutines :
       a[t].kind = "wake" => a[t].on \in Fibers /\ a[a[t].on].kind = "parked"
  /\ \A t \in Goroutines :
       a[t].kind \in Partners => a[t].on \in Fibers /\ a[a[t].on].kind \notin Asleep
  /\ \A f \in Fibers : a[f].kind \notin Asleep =>
       \E t \in Goroutines : a[t].kind \in Partners /\ a[t].on = f
  /\ \A t, u \in Goroutines :
       a[t].kind \in Partners /\ a[u].kind \in Partners /\ a[t].on = a[u].on => t = u

(* Fibers that were not spawned do nothing; those that await are the ones that
   have paused, or are about to. *)
FibersFit(a, n, aw) ==
  \A f \in Fibers : /\ f > n => a[f].kind = "idle"
                    /\ aw[f] # 0 <=> a[f].kind \in {"pausing", "parked"}

(* A goroutine that serves a wake-up does it for the promise the fiber awaits. *)
ServesFit(h, a, aw) ==
  \A t \in Goroutines : a[t].kind = "wake" =>
    /\ a[t].task \in TaskRecord
    /\ aw[a[t].on] = a[t].task.src
    /\ a[t].task.src \in Made(h) /\ SideFits(h, a[t].task.src, a[t].task.ok)

(* Fiber f is being resumed. *)
Served(a, f) == \E t \in Goroutines : a[t].kind = "wake" /\ a[t].on = f

WakesFit(h, a, aw) ==
  \A f \in Fibers : Count(h, Wakes(f)) = IF aw[f] # 0 /\ ~ Served(a, f) THEN 1 ELSE 0

(* Between the start of a body and its end nobody else settles its promise;
   afterwards one does, if it is still pending. *)
ResultFits(h, q, over) ==
  /\ q \in Made(h) /\ h.slot[q].by = "async"
  /\ IF over THEN Count(h, Owes(q)) = IF Pending(h, q) THEN 1 ELSE 0
             ELSE Pending(h, q) /\ Count(h, Owes(q)) = 0

Over(a, f) == a[f].kind \in {"idle", "ending"}

ResultsFit(h, a, n, res) ==
  /\ \A f \in 1..n : ResultFits(h, res[f], Over(a, f))
  /\ \A f, g \in 1..n : res[f] = res[g] => f = g

Fits(h, st, n, res, aw) ==
  /\ HeapFits(h, aw)
  /\ n \in 0..MaxFibers
  /\ res \in [Fibers -> Proms \cup {0}] /\ aw \in [Fibers -> Proms \cup {0}]
  /\ DOMAIN st = Goroutines /\ st = [t \in Goroutines |-> st[t]]
  /\ \A t \in Goroutines : StackFits(h, t, st[t])
  /\ TurnFits(Tips(st))
  /\ FibersFit(Tips(st), n, aw)
  /\ ServesFit(h, Tips(st), aw)
  /\ WakesFit(h, Tips(st), aw)
  /\ ResultsFit(h, Tips(st), n, res)

Inv == Fits(heap, stack, spawned, result, awaiting)

-----------------------------------------------------------------------------
(* What no step changes. *)

(* The promises of h are in k, made by the same and settled as they were. *)
Keeps(h, k) ==
  /\ Made(h) \subseteq Made(k)
  /\ \A p \in Made(h) : k.slot[p].by = h.slot[p].by
  /\ \A p \in Made(h) : ~ Pending(h, p) => k.slot[p].state = h.slot[p].state

(* Steps compose. *)
LEMMA KeepsTransitive ==
  ASSUME NEW h, NEW j, NEW k, Keeps(h, j), Keeps(j, k)
  PROVE  Keeps(h, k)
BY DEF Keeps, Pending

(* A subscriber that fits still does later, and so does what runs for it. *)
LEMMA FitsKept ==
  ASSUME NEW h, NEW k, Keeps(h, k)
  PROVE  /\ \A s : SubFits(h, s) => SubFits(k, s)
         /\ Fitting(h) \subseteq Fitting(k)
<1>1. ASSUME NEW s, SubFits(h, s) PROVE SubFits(k, s)
  BY <1>1 DEF SubFits, Keeps
<1>. QED BY <1>1 DEF Fitting

(* Promises stay settled. *)
LEMMA SideKept ==
  ASSUME NEW h, NEW k, Keeps(h, k), NEW q \in Made(h), NEW ok, SideFits(h, q, ok)
  PROVE  SideFits(k, q, ok)
<1>1. ~ Pending(h, q)
  BY DEF SideFits, Pending
<1>. QED BY <1>1 DEF Keeps, SideFits

(* So does a microtask. *)
LEMMA TaskKept ==
  ASSUME NEW h, NEW k, Keeps(h, k), NEW aw, NEW t, TaskFits(h, aw, t)
  PROVE  TaskFits(k, aw, t)
<1>1. t.src \in Made(h) /\ t.src \in Made(k) /\ SideFits(k, t.src, t.ok)
  BY SideKept DEF TaskFits, Keeps
<1>. QED BY <1>1, FitsKept DEF TaskFits

(* And a list that does not change. *)
LEMMA ListKept ==
  ASSUME NEW h, NEW k, Keeps(h, k), NEW aw, NEW p, k.slot[p].subs = h.slot[p].subs,
         ListFits(h, aw, p)
  PROVE  ListFits(k, aw, p)
BY FitsKept DEF ListFits

(* The parts of a heap that fits. *)
LEMMA HeapParts ==
  ASSUME NEW h, NEW aw, HeapFits(h, aw)
  PROVE  /\ h \in Heaps(SubRecord, Values) /\ Unmade(h)
         /\ QueueFits(h, aw)
         /\ \A p \in Made(h) : ListFits(h, aw, p)
         /\ Made(h) \subseteq Proms
         /\ \A p \in Made(h) : h.slot[p] \in Slots(SubRecord, Values)
<1>1. h \in Heaps(SubRecord, Values)
  BY DEF HeapFits
<1>. QED BY <1>1, HeapFields DEF HeapFits

(* An empty list fits. *)
LEMMA EmptyListFits ==
  ASSUME NEW k, NEW aw, NEW p, k.slot[p].subs = <<>>
  PROVE  ListFits(k, aw, p)
<1>1. Len(k.slot[p].subs) = 0
  BY EmptySeq
<1>2. ASSUME NEW i \in 1..Len(k.slot[p].subs) PROVE FALSE
  BY <1>1
<1>. QED BY <1>2 DEF ListFits

-----------------------------------------------------------------------------
(* Each step of PromiseHeap keeps the heap fitting. *)

(* What k owes as h does, except to p. *)
Quiet(h, k, p) ==
  /\ \A q \in Made(h) : q # p => /\ k.slot[q].state = h.slot[q].state
                                 /\ Count(k, Owes(q)) = Count(h, Owes(q))
  /\ \A f \in Fibers : Count(k, Wakes(f)) = Count(h, Wakes(f))

Step(h, k, aw, p) == HeapFits(k, aw) /\ Keeps(h, k) /\ Quiet(h, k, p)

(* Steps that touch the same promise compose. *)
LEMMA StepTransitive ==
  ASSUME NEW h, NEW j, NEW k, NEW aw, NEW p, Step(h, j, aw, p), Step(j, k, aw, p)
  PROVE  Step(h, k, aw, p)
<1>1. Keeps(h, k)
  BY KeepsTransitive DEF Step
<1>2. \A q \in Made(h) : q \in Made(j)
  BY DEF Step, Keeps
<1>. QED BY <1>1, <1>2 DEF Step, Quiet

(* A step that touches nothing touches at most p. *)
LEMMA StepWeaker ==
  ASSUME NEW h, NEW k, NEW aw, NEW p, Step(h, k, aw, 0), HeapFits(h, aw)
  PROVE  Step(h, k, aw, p)
<1>1. \A q \in Made(h) : q # 0
  BY DEF Made
<1>. QED BY <1>1 DEF Step, Quiet

(* No step. *)
LEMMA StepNone ==
  ASSUME NEW h, NEW aw, NEW p, HeapFits(h, aw)
  PROVE  Step(h, h, aw, p)
BY DEF Step, Keeps, Quiet

(* The same subscribers, and other promises than p as they were. *)
LEMMA StepSameCounts ==
  ASSUME NEW h, NEW k, NEW aw, NEW p, HeapFits(k, aw), Keeps(h, k), SameCounts(h, k),
         \A q \in Made(h) : q # p => k.slot[q].state = h.slot[q].state
  PROVE  Step(h, k, aw, p)
BY DEF Step, Quiet, SameCounts

(* Settling a promise, whether or not it is pending. *)
SettledAt(h, k, aw, p) ==
  /\ Step(h, k, aw, p) /\ SameCounts(h, k) /\ Made(k) = Made(h)
  /\ ~ Pending(k, p)

(* What Settle does. *)
LEMMA SettleStep ==
  ASSUME NEW h, NEW aw, HeapFits(h, aw), NEW p \in Made(h),
         NEW state \in {"fulfilled", "rejected"}, NEW v \in Values,
         NEW k, k = Settle(h, p, state, v)
  PROVE  SettledAt(h, k, aw, p)
<1>1. CASE ~ Pending(h, p)
  <2>1. k = h
    BY <1>1 DEF Settle, Pending
  <2>2. Step(h, h, aw, p)
    BY StepNone
  <2>. QED BY <1>1, <2>1, <2>2 DEF SettledAt, SameCounts
<1>2. CASE Pending(h, p)
  <2> DEFINE n == Len(h.queue)
             m == Len(h.slot[p].subs)
  <2>1. k \in Heaps(SubRecord, Values) /\ Settles(h, k, p, state, v)
    BY <1>2, HeapParts, SettleFacts DEF States
  <2>2. SameCounts(h, k)
    BY <2>1, HeapParts, SettlePlaces DEF States
  <2>3. /\ Made(k) = Made(h) /\ p \in Proms
        /\ \A q \in Proms : q # p => k.slot[q] = h.slot[q]
        /\ \A q \in Made(h) : q # p => k.slot[q] = h.slot[q]
        /\ k.slot[p] = [h.slot[p] EXCEPT !.state = state, !.value = v, !.subs = <<>>]
    BY <2>1, HeapParts DEF Settles, Made
  <2>4. k.slot[p].by = h.slot[p].by /\ k.slot[p].subs = <<>> /\ k.slot[p].state = state
    BY <2>3, HeapParts DEF Slots
  <2>5. Keeps(h, k)
    BY <1>2, <2>3, <2>4 DEF Keeps
  <2>6. /\ n \in Nat /\ m \in Nat /\ Len(k.queue) = n + m
        /\ \A i \in 1..n : k.queue[i] = h.queue[i]
        /\ \A i \in 1..m : k.queue[n + i] = Task(h.slot[p].subs[i], p, state = "fulfilled")
    <3>1. h.queue \in Seq(Tasks(SubRecord)) /\ h.slot[p].subs \in Seq(SubRecord)
      BY <2>3, HeapParts, HeapFields
    <3>. QED BY <2>1, <3>1, LenProperties DEF Settles
  <2> HIDE DEF n, m
  <2>7. \A i \in 1..n : TaskFits(k, aw, k.queue[i])
    BY <2>5, <2>6, HeapParts, TaskKept DEF QueueFits, n
  <2>8. ASSUME NEW i \in 1..m PROVE TaskFits(k, aw, k.queue[n + i])
    <3>1. SubFits(k, h.slot[p].subs[i]) /\ SrcFits(aw, h.slot[p].subs[i], p)
      BY <2>5, HeapParts, FitsKept DEF ListFits, m
    <3>2. /\ k.queue[n + i].sub = h.slot[p].subs[i] /\ k.queue[n + i].src = p
          /\ k.queue[n + i].ok = (state = "fulfilled")
      BY <2>6, TaskFields
    <3>3. SideFits(k, p, k.queue[n + i].ok)
      BY <2>4, <3>2 DEF SideFits
    <3>. QED BY <2>3, <3>1, <3>2, <3>3 DEF TaskFits
  <2>9. QueueFits(k, aw)
    <3>1. \A i \in 1..Len(k.queue) : i \in 1..n \/ (i - n \in 1..m /\ i = n + (i - n))
      BY <2>6
    <3>. QED BY <2>7, <2>8, <3>1 DEF QueueFits
  <2>10. ASSUME NEW q \in Made(h) PROVE ListFits(k, aw, q)
    <3>1. CASE q = p
      BY <2>4, <3>1, EmptyListFits
    <3>2. CASE q # p
      BY <2>3, <2>5, <3>2, HeapParts, ListKept
    <3>. QED BY <3>1, <3>2
  <2>11. Unmade(k)
    BY <2>3, HeapParts DEF Unmade
  <2>12. HeapFits(k, aw)
    BY <2>1, <2>3, <2>9, <2>10, <2>11 DEF HeapFits
  <2>13. Step(h, k, aw, p)
    BY <2>2, <2>3, <2>5, <2>12, StepSameCounts
  <2>. QED BY <2>2, <2>3, <2>4, <2>13 DEF SettledAt, Pending
<1>. QED BY <1>1, <1>2

(* k is h with a subscriber more, on the list of q or in the queue. *)
Joins(h, k, aw, q, sub) ==
  /\ HeapFits(k, aw) /\ Keeps(h, k) /\ OneMore(h, k, sub)
  /\ Made(k) = Made(h) /\ k.made = h.made
  /\ \A p \in Made(h) : k.slot[p].state = h.slot[p].state

(* What ThenOnSettled does. *)
LEMMA SubscribeStep ==
  ASSUME NEW h, NEW aw, HeapFits(h, aw), NEW q \in Made(h),
         NEW sub, SubFits(h, sub), SrcFits(aw, sub, q), NEW k, k = ThenOnSettled(h, q, sub)
  PROVE  Joins(h, k, aw, q, sub)
<1> DEFINE n == Len(h.queue)
           m == Len(h.slot[q].subs)
           t == Task(sub, q, h.slot[q].state = "fulfilled")
<1>1. q \in Proms /\ sub \in SubRecord
  BY HeapParts DEF SubFits
<1>2. k \in Heaps(SubRecord, Values) /\ Subscribes(h, k, q, sub)
  BY <1>1, HeapParts, SubscribeFacts
<1>3. /\ Made(k) = Made(h) /\ k.made = h.made
      /\ \A p \in Proms : p # q => k.slot[p] = h.slot[p]
      /\ \A p \in Made(h) : p # q => k.slot[p] = h.slot[p]
      /\ h.slot[q] \in Slots(SubRecord, Values) /\ h.slot[q].subs \in Seq(SubRecord)
      /\ h.queue \in Seq(Tasks(SubRecord))
  BY <1>1, <1>2, HeapParts, HeapFields DEF Subscribes, Made
<1>4. /\ k.slot[q].by = h.slot[q].by /\ k.slot[q].state = h.slot[q].state
      /\ k.slot[q].subs = IF Pending(h, q) THEN Append(h.slot[q].subs, sub)
                                           ELSE h.slot[q].subs
  BY <1>2, <1>3 DEF Subscribes, Slots
<1>5. k.queue = IF Pending(h, q) THEN h.queue ELSE Append(h.queue, t)
  BY <1>2 DEF Subscribes
<1>6. Keeps(h, k)
  BY <1>3, <1>4 DEF Keeps
<1>7. OneMore(h, k, sub)
  BY <1>1, <1>2, HeapParts, SubscribePlaces
<1>8. SubFits(k, sub)
  BY <1>6, FitsKept
<1>9. QueueFits(k, aw)
  <2>1. CASE Pending(h, q)
    BY <1>5, <1>6, <2>1, HeapParts, TaskKept DEF QueueFits
  <2>2. CASE ~ Pending(h, q)
    <3>1. t.sub = sub /\ t.src = q /\ t.ok = (h.slot[q].state = "fulfilled")
      BY TaskFields
    <3>2. t \in Tasks(SubRecord)
      BY <1>1, TaskIn
    <3> HIDE DEF t
    <3>3. /\ Len(k.queue) = n + 1 /\ n \in Nat
          /\ \A i \in 1..n : k.queue[i] = h.queue[i]
          /\ k.queue[n + 1] = t
      BY <1>3, <1>5, <2>2, <3>2, AppendProperties
    <3>4. \A i \in 1..Len(k.queue) : i \in 1..n \/ i = n + 1
      BY <3>3
    <3>5. TaskFits(k, aw, t)
      <4>1. h.slot[q].state \in States /\ h.slot[q].state # "pending"
        BY <1>3, <2>2 DEF Slots, Pending
      <4>2. SideFits(k, q, t.ok)
        BY <1>4, <3>1, <4>1 DEF SideFits, States
      <4>. QED BY <1>3, <1>8, <3>1, <4>2 DEF TaskFits
    <3>. QED BY <1>6, <3>3, <3>4, <3>5, HeapParts, TaskKept DEF QueueFits
  <2>. QED BY <2>1, <2>2
<1>10. ASSUME NEW p \in Made(h) PROVE ListFits(k, aw, p)
  <2>1. CASE p # q \/ ~ Pending(h, q)
    <3>1. k.slot[p].subs = h.slot[p].subs
      BY <1>3, <1>4, <2>1
    <3>. QED BY <1>6, <3>1, HeapParts, ListKept
  <2>2. CASE p = q /\ Pending(h, q)
    <3>1. /\ Len(k.slot[q].subs) = m + 1 /\ m \in Nat
          /\ \A i \in 1..m : k.slot[q].subs[i] = h.slot[q].subs[i]
          /\ k.slot[q].subs[m + 1] = sub
          /\ \A i : i \in 1..Len(k.slot[q].subs) <=> i \in 1..m \/ i = m + 1
      <4>1. k.slot[q].subs = Append(h.slot[q].subs, sub)
        BY <1>4, <2>2
      <4>2. h.slot[q].subs \in Seq(SubRecord) /\ sub \in SubRecord
        BY <1>1, <1>3
      <4>3. Longer(k.slot[q].subs, h.slot[q].subs, sub)
        BY <4>1, <4>2, Appended
      <4>. QED BY <4>3 DEF Longer, m
    <3>2. ASSUME NEW i \in 1..m
          PROVE  SubFits(k, k.slot[q].subs[i]) /\ SrcFits(aw, k.slot[q].subs[i], q)
      <4>1. SubFits(h, h.slot[q].subs[i]) /\ SrcFits(aw, h.slot[q].subs[i], q)
        BY HeapParts DEF ListFits
      <4>. QED BY <1>6, <3>1, <4>1, FitsKept
    <3>. QED BY <1>8, <2>2, <3>1, <3>2 DEF ListFits
  <2>. QED BY <2>1, <2>2
<1>11. Unmade(k)
  BY <1>3, HeapParts DEF Unmade
<1>12. HeapFits(k, aw)
  BY <1>2, <1>3, <1>9, <1>10, <1>11 DEF HeapFits
<1>. QED BY <1>3, <1>4, <1>6, <1>7, <1>12 DEF Joins

(* A subscriber that is no wake-up touches its target. *)
LEMMA JoinStep ==
  ASSUME NEW h, NEW k, NEW aw, HeapFits(h, aw), NEW q, NEW sub, Joins(h, k, aw, q, sub),
         sub.kind # "wake"
  PROVE  Step(h, k, aw, sub.target)
<1>1. ASSUME NEW K, sub \notin K PROVE Count(k, K) = Count(h, K)
  <2>1. Count(h, K) \in Nat
    BY HeapParts, CountFacts
  <2>. QED BY <1>1, <2>1 DEF Joins, OneMore
<1>2. ASSUME NEW r, r # sub.target PROVE sub \notin Owes(r)
  BY <1>2 DEF Owes
<1>3. \A f : sub \notin Wakes(f)
  BY DEF Wakes
<1>. QED BY <1>1, <1>2, <1>3 DEF Joins, Step, Quiet

(* k is h with a new promise, which nobody has subscribed to and nobody owes. *)
Adds(h, k, aw, by) ==
  /\ Step(h, k, aw, 0) /\ k.made = h.made + 1 /\ Newest(k) = k.made
  /\ k.made \in Made(k) /\ k.made \notin Made(h) /\ k.made \in Proms
  /\ k.slot[k.made].by = by /\ Pending(k, k.made) /\ Count(k, Owes(k.made)) = 0
  /\ SameCounts(h, k)

(* Nobody owes a promise that does not exist. *)
LEMMA Unclaimed ==
  ASSUME NEW h, NEW aw, HeapFits(h, aw), NEW q, q \notin Made(h)
  PROVE  Count(h, Owes(q)) = 0
<1>1. ASSUME NEW s, SubFits(h, s) PROVE s \notin Owes(q)
  <2>1. s.kind # "wake" => s.target \in Made(h)
    <3>1. s.kind \in {"then", "adopt", "wake"}
      BY <1>1 DEF SubFits, SubRecord
    <3>. QED BY <1>1, <3>1 DEF SubFits
  <2>. QED BY <2>1 DEF Owes
<1>2. ASSUME NEW at \in Places(h) PROVE SubAt(h, at) \notin Owes(q)
  <2>1. CASE \E i \in 1..Len(h.queue) : at = <<0, i>>
    <3>1. PICK i \in 1..Len(h.queue) : at = <<0, i>>
      BY <2>1
    <3>2. SubFits(h, h.queue[i].sub)
      BY HeapParts DEF QueueFits, TaskFits
    <3>3. SubAt(h, at) = h.queue[i].sub
      BY <3>1 DEF SubAt
    <3>. QED BY <1>1, <3>2, <3>3
  <2>2. CASE \E p \in Made(h) : \E i \in 1..Len(h.slot[p].subs) : at = <<p, i>>
    <3>1. PICK p \in Made(h) : \E i \in 1..Len(h.slot[p].subs) : at = <<p, i>>
      BY <2>2
    <3>2. PICK i \in 1..Len(h.slot[p].subs) : at = <<p, i>>
      BY <3>1
    <3>3. SubFits(h, h.slot[p].subs[i])
      BY HeapParts DEF ListFits
    <3>4. SubAt(h, at) = h.slot[p].subs[i]
      BY <3>2 DEF SubAt, Made
    <3>. QED BY <1>1, <3>3, <3>4
  <2>3. h \in Heaps(SubRecord, Values)
    BY HeapParts
  <2>. QED BY <2>1, <2>2, <2>3, PlaceCases
<1>3. h \in Heaps(SubRecord, Values)
  BY HeapParts
<1>. QED BY <1>2, <1>3, CountFacts

(* What NewPromise does. *)
LEMMA NewStep ==
  ASSUME NEW h, NEW aw, HeapFits(h, aw), h.made < MaxProms,
         NEW by \in {"ctor", "static", "then", "async"}, NEW k, k = NewPromise(h, by)
  PROVE  Adds(h, k, aw, by)
<1> DEFINE q == k.made
<1>1. NoVal \in Values /\ by \in Origins
  BY DEF Values, Origins
<1>2. /\ k \in Heaps(SubRecord, Values) /\ Unmade(k) /\ Makes(h, k, q, by)
      /\ SameSubs(h, k) /\ Newest(k) = k.made
  BY <1>1, HeapParts, NewFacts
<1>3. /\ k.slot[q] = [FreshSlot EXCEPT !.by = by] /\ q = h.made + 1 /\ q \in Proms
      /\ Made(k) = Made(h) \cup {q} /\ q \notin Made(h) /\ k.queue = h.queue
      /\ \A p \in Made(h) : k.slot[p] = h.slot[p]
  BY <1>2, HeapParts DEF Makes
<1>4. k.slot[q].by = by /\ k.slot[q].subs = <<>> /\ k.slot[q].state = "pending"
  BY <1>3 DEF FreshSlot
<1>5. Keeps(h, k)
  BY <1>3 DEF Keeps
<1>6. SameCounts(h, k)
  BY <1>2, HeapParts, SamePlaces
<1>7. QueueFits(k, aw)
  BY <1>3, <1>5, HeapParts, TaskKept DEF QueueFits
<1>8. \A p \in Made(h) : ListFits(k, aw, p)
  BY <1>3, <1>5, HeapParts, ListKept
<1>9. ListFits(k, aw, q)
  BY <1>4, EmptyListFits
<1>10. HeapFits(k, aw)
  BY <1>2, <1>3, <1>7, <1>8, <1>9 DEF HeapFits
<1>11. Step(h, k, aw, 0)
  BY <1>3, <1>5, <1>6, <1>10, StepSameCounts
<1>12. Count(k, Owes(q)) = 0
  <2>1. Count(h, Owes(q)) = 0
    BY <1>3, Unclaimed
  <2>. QED BY <1>6, <2>1 DEF SameCounts
<1>13. q \in Made(k)
  BY <1>3
<1>. QED BY <1>2, <1>3, <1>4, <1>6, <1>11, <1>12, <1>13 DEF Adds, Pending

(* k is h but for what is remembered of promises: which one they were made from,
   and that their rejection is handled. *)
Marked(s, r) == r = [s EXCEPT !.handled = r.handled, !.from = r.from]

Marks(h, k) ==
  /\ k \in Heaps(SubRecord, Values) /\ Unmade(k)
  /\ k.made = h.made /\ k.queue = h.queue
  /\ \A p \in Made(h) : Marked(h.slot[p], k.slot[p])

(* Neither plays a part. *)
LEMMA MarkStep ==
  ASSUME NEW h, NEW aw, HeapFits(h, aw), NEW k, Marks(h, k)
  PROVE  /\ Step(h, k, aw, 0) /\ SameCounts(h, k) /\ Made(k) = Made(h)
         /\ \A p \in Made(h) : k.slot[p].by = h.slot[p].by /\ k.slot[p].state = h.slot[p].state
<1>1. /\ Made(k) = Made(h) /\ k.queue = h.queue
      /\ k \in Heaps(SubRecord, Values) /\ h \in Heaps(SubRecord, Values)
  BY HeapParts DEF Marks, Made
<1>2. ASSUME NEW p \in Made(h)
      PROVE  /\ k.slot[p].state = h.slot[p].state /\ k.slot[p].by = h.slot[p].by
             /\ k.slot[p].subs = h.slot[p].subs
  <2>1. h.slot[p] \in Slots(SubRecord, Values)
    BY HeapParts
  <2>2. Marked(h.slot[p], k.slot[p])
    BY DEF Marks
  <2>. QED BY <2>1, <2>2 DEF Slots, Marked
<1>3. Keeps(h, k)
  BY <1>1, <1>2 DEF Keeps
<1>4. SameCounts(h, k)
  <2>1. SameSubs(h, k)
    BY <1>1, <1>2 DEF SameSubs
  <2>. QED BY <1>1, <2>1, SamePlaces
<1>5. QueueFits(k, aw)
  BY <1>1, <1>3, HeapParts, TaskKept DEF QueueFits
<1>6. \A p \in Made(h) : ListFits(k, aw, p)
  BY <1>2, <1>3, HeapParts, ListKept
<1>7. HeapFits(k, aw)
  BY <1>1, <1>5, <1>6 DEF HeapFits, Marks
<1>8. Step(h, k, aw, 0)
  BY <1>2, <1>3, <1>4, <1>7, StepSameCounts
<1>. QED BY <1>1, <1>2, <1>4, <1>8

(* One promise marked. *)
LEMMA MarkOne ==
  ASSUME NEW h, NEW aw, HeapFits(h, aw), NEW p \in Made(h),
         NEW s \in Slots(SubRecord, Values), Marked(h.slot[p], s),
         NEW k, k = [h EXCEPT !.slot[p] = s]
  PROVE  Marks(h, k)
<1>1. p \in Proms /\ h \in Heaps(SubRecord, Values)
  BY HeapParts
<1>2. /\ k \in Heaps(SubRecord, Values) /\ k.made = h.made /\ k.queue = h.queue
      /\ k.slot = [h.slot EXCEPT ![p] = s]
  BY <1>1, HeapWithSlot
<1>3. \A q \in Proms : k.slot[q] = IF q = p THEN s ELSE h.slot[q]
  <2>1. h.slot \in [Proms -> Slots(SubRecord, Values)]
    BY <1>1, HeapFields
  <2>. QED BY <1>1, <1>2, <2>1
<1>4. Unmade(k)
  BY <1>2, <1>3, HeapParts DEF Unmade, Made
<1>5. ASSUME NEW q \in Made(h) PROVE Marked(h.slot[q], k.slot[q])
  <2>1. q \in Proms /\ h.slot[q] \in Slots(SubRecord, Values)
    BY HeapParts
  <2>2. Marked(h.slot[q], h.slot[q])
    BY <2>1 DEF Marked, Slots
  <2>. QED BY <1>3, <2>1, <2>2
<1>. QED BY <1>2, <1>4, <1>5 DEF Marks

(* A flag set. *)
LEMMA MarkHandled ==
  ASSUME NEW h, NEW aw, HeapFits(h, aw), NEW p \in Made(h), NEW b \in BOOLEAN,
         NEW k, k = [h EXCEPT !.slot[p].handled = b]
  PROVE  Marks(h, k)
<1> DEFINE s == [h.slot[p] EXCEPT !.handled = b]
<1>1. p \in Proms /\ h \in Heaps(SubRecord, Values) /\ h.slot[p] \in Slots(SubRecord, Values)
  BY HeapParts
<1>2. s \in Slots(SubRecord, Values)
  BY <1>1, SlotWithHandled
<1>3. Marked(h.slot[p], s)
  BY <1>1 DEF Marked, Slots
<1>4. k = [h EXCEPT !.slot[p] = s]
  BY <1>1, HeapFields DEF Heaps
<1> HIDE DEF s
<1>. QED BY <1>2, <1>3, <1>4, MarkOne

(* The promise then() was called on, remembered. *)
LEMMA MarkFrom ==
  ASSUME NEW h, NEW aw, HeapFits(h, aw), NEW p \in Made(h), NEW q \in 0..MaxProms,
         NEW k, k = [h EXCEPT !.slot[p].from = q]
  PROVE  Marks(h, k)
<1> DEFINE s == [h.slot[p] EXCEPT !.from = q]
<1>1. p \in Proms /\ h \in Heaps(SubRecord, Values) /\ h.slot[p] \in Slots(SubRecord, Values)
  BY HeapParts
<1>2. s \in Slots(SubRecord, Values)
  BY <1>1, SlotWithFrom
<1>3. Marked(h.slot[p], s)
  BY <1>1 DEF Marked, Slots
<1>4. k = [h EXCEPT !.slot[p] = s]
  BY <1>1, HeapFields DEF Heaps
<1> HIDE DEF s
<1>. QED BY <1>2, <1>3, <1>4, MarkOne

(* Reporting sets flags. *)
LEMMA MarkReported ==
  ASSUME NEW h, NEW aw, HeapFits(h, aw), NEW k, k = Reported(h)
  PROVE  Marks(h, k)
<1> DEFINE f == [p \in Proms |-> IF p \in Unhandled(h)
                                 THEN [h.slot[p] EXCEPT !.handled = TRUE] ELSE h.slot[p]]
<1>1. k = [h EXCEPT !.slot = f]
  BY DEF Reported
<1>2. /\ h \in Heaps(SubRecord, Values) /\ Made(h) \subseteq Proms
      /\ \A p \in Proms : h.slot[p] \in Slots(SubRecord, Values)
  BY HeapParts, HeapFields
<1>3. ASSUME NEW p \in Proms
      PROVE  /\ f[p] \in Slots(SubRecord, Values)
             /\ Marked(h.slot[p], f[p])
             /\ p \notin Made(h) => f[p] = h.slot[p]
  <2>1. CASE p \in Unhandled(h)
    <3>1. f[p] = [h.slot[p] EXCEPT !.handled = TRUE]
      BY <2>1
    <3> HIDE DEF f
    <3>2. f[p] \in Slots(SubRecord, Values)
      BY <1>2, <3>1 DEF Slots
    <3>3. Marked(h.slot[p], f[p])
      BY <1>2, <3>1 DEF Slots, Marked
    <3>. QED BY <2>1, <3>1, <3>2, <3>3 DEF Unhandled
  <2>2. CASE p \notin Unhandled(h)
    <3>1. f[p] = h.slot[p]
      BY <2>2
    <3> HIDE DEF f
    <3>. QED BY <1>2, <3>1 DEF Slots, Marked
  <2>. QED BY <2>1, <2>2
<1>4. DOMAIN f = Proms /\ f = [p \in Proms |-> f[p]]
  OBVIOUS
<1> HIDE DEF f
<1>5. f \in [Proms -> Slots(SubRecord, Values)]
  BY <1>3, <1>4
<1>6. /\ k \in Heaps(SubRecord, Values) /\ k.made = h.made /\ k.queue = h.queue /\ k.slot = f
  BY <1>1, <1>2, <1>5 DEF Heaps
<1>7. Unmade(k)
  <2>1. Made(k) = Made(h)
    BY <1>6 DEF Made
  <2>2. Unmade(h)
    BY HeapParts
  <2>. QED BY <1>3, <1>6, <2>1, <2>2 DEF Unmade
<1>8. \A p \in Made(h) : Marked(h.slot[p], k.slot[p])
  BY <1>2, <1>3, <1>6
<1>. QED BY <1>6, <1>7, <1>8 DEF Marks

(* k is h without the head of the queue, t. *)
Taken(h, k, aw, t) ==
  /\ HeapFits(k, aw) /\ Keeps(h, k) /\ OneMore(k, h, t.sub) /\ TaskFits(k, aw, t)
  /\ Made(k) = Made(h) /\ k.slot = h.slot /\ t \in TaskRecord

(* What drainMicrotasks does before it runs the head of the queue. *)
LEMMA TakeStep ==
  ASSUME NEW h, NEW aw, HeapFits(h, aw), h.queue # <<>>,
         NEW k, k = [h EXCEPT !.queue = Tail(@)]
  PROVE  Taken(h, k, aw, Head(h.queue))
<1> DEFINE n == Len(k.queue)
           t == Head(h.queue)
<1>1. k \in Heaps(SubRecord, Values) /\ t \in Tasks(SubRecord) /\ Takes(h, k, t)
  BY HeapParts, TakeFacts
<1> HIDE DEF t
<1>2. /\ k.made = h.made /\ k.slot = h.slot /\ Made(k) = Made(h)
      /\ Len(h.queue) = n + 1 /\ n \in Nat
      /\ h.queue[1] = t
      /\ \A i \in 1..n : k.queue[i] = h.queue[i + 1]
  BY <1>1, HeapFields, LenProperties DEF Takes, Made
<1> HIDE DEF n
<1>3. Keeps(h, k)
  BY <1>2 DEF Keeps
<1>4. OneMore(k, h, t.sub)
  BY <1>1, HeapParts, TakePlaces
<1>5. 1 \in 1..Len(h.queue) /\ \A i \in 1..n : i + 1 \in 1..Len(h.queue)
  BY <1>2
<1>6. TaskFits(k, aw, t)
  <2>1. TaskFits(h, aw, t)
    BY <1>2, <1>5, HeapParts DEF QueueFits
  <2>. QED BY <1>3, <2>1, TaskKept
<1>7. QueueFits(k, aw)
  <2>1. \A i \in 1..n : TaskFits(h, aw, h.queue[i + 1])
    BY <1>5, HeapParts DEF QueueFits
  <2>. QED BY <1>2, <1>3, <2>1, TaskKept DEF QueueFits, n
<1>8. ASSUME NEW p \in Made(h) PROVE ListFits(k, aw, p)
  <2>1. k.slot[p].subs = h.slot[p].subs /\ ListFits(h, aw, p)
    BY <1>2, HeapParts
  <2>. QED BY <1>3, <2>1, ListKept
<1>9. Unmade(k)
  BY <1>2, HeapParts DEF Unmade
<1>10. HeapFits(k, aw)
  BY <1>1, <1>2, <1>7, <1>8, <1>9 DEF HeapFits
<1>11. t \in TaskRecord
  <2>1. t.src \in Proms
    BY <1>6, HeapParts, <1>2 DEF TaskFits
  <2>. QED BY <1>1, <2>1 DEF Tasks, TaskRecord
<1>. QED BY <1>2, <1>3, <1>4, <1>6, <1>10, <1>11 DEF Taken, t

(* A microtask that is no wake-up, taken, touches its target. *)
LEMMA TakenStep ==
  ASSUME NEW h, NEW k, NEW aw, HeapFits(h, aw), NEW t, Taken(h, k, aw, t), t.sub.kind # "wake"
  PROVE  Step(h, k, aw, t.sub.target)
<1>1. ASSUME NEW K, t.sub \notin K PROVE Count(k, K) = Count(h, K)
  <2>1. Count(k, K) \in Nat
    BY HeapParts, CountFacts DEF Taken
  <2>. QED BY <1>1, <2>1 DEF Taken, OneMore
<1>2. ASSUME NEW r, r # t.sub.target PROVE t.sub \notin Owes(r)
  BY <1>2 DEF Owes
<1>3. \A f : t.sub \notin Wakes(f)
  BY DEF Wakes
<1>. QED BY <1>1, <1>2, <1>3 DEF Taken, Step, Quiet

(* What a fiber nobody is about to wake awaits is nobody's concern. *)
LEMMA AwaitChanges ==
  ASSUME NEW h, NEW aw, HeapFits(h, aw), NEW f \in Fibers, Count(h, Wakes(f)) = 0,
         NEW aw2, \A g \in Fibers : g # f => aw2[g] = aw[g]
  PROVE  HeapFits(h, aw2)
<1>1. h \in Heaps(SubRecord, Values)
  BY HeapParts
<1>2. \A at \in Places(h) : SubAt(h, at) \notin Wakes(f)
  BY <1>1, CountFacts
<1>3. ASSUME NEW s, SubFits(h, s), s \notin Wakes(f), NEW q, SrcFits(aw, s, q)
      PROVE  SrcFits(aw2, s, q)
  BY <1>3 DEF SubFits, SrcFits, Wakes
<1>4. ASSUME NEW i \in 1..Len(h.queue) PROVE TaskFits(h, aw2, h.queue[i])
  <2>1. h.queue[i].sub \notin Wakes(f)
    <3>1. InQueue(h, i)
      BY <1>1, QueuePlace
    <3>. QED BY <1>2, <3>1 DEF InQueue
  <2>2. TaskFits(h, aw, h.queue[i])
    BY HeapParts DEF QueueFits
  <2>. QED BY <1>3, <2>1, <2>2 DEF TaskFits
<1>5. ASSUME NEW p \in Made(h) PROVE ListFits(h, aw2, p)
  <2>1. ASSUME NEW i \in 1..Len(h.slot[p].subs)
        PROVE  SubFits(h, h.slot[p].subs[i]) /\ SrcFits(aw2, h.slot[p].subs[i], p)
    <3>1. h.slot[p].subs[i] \notin Wakes(f)
      <4>1. InList(h, p, i)
        BY <1>1, ListPlace
      <4>. QED BY <1>2, <4>1 DEF InList
    <3>2. SubFits(h, h.slot[p].subs[i]) /\ SrcFits(aw, h.slot[p].subs[i], p)
      BY HeapParts DEF ListFits
    <3>. QED BY <1>3, <3>1, <3>2
  <2>. QED BY <2>1 DEF ListFits
<1>6. QueueFits(h, aw2)
  BY <1>4 DEF QueueFits
<1>. QED BY <1>5, <1>6, HeapParts DEF HeapFits

-----------------------------------------------------------------------------
(* What resolving a promise does to it. *)

Adopters == {"ctor", "then", "async"}

Resolved(h, k, aw, p, v) ==
  /\ Step(h, k, aw, p) /\ Made(k) = Made(h)
  /\ ~ Pending(h, p) => k = h
  /\ v \in Proms /\ Pending(h, p) => /\ Pending(k, p)
                                     /\ Count(k, Owes(p)) = Count(h, Owes(p)) + 1
  /\ v \notin Proms => ~ Pending(k, p) /\ Count(k, Owes(p)) = Count(h, Owes(p))

(* With a promise that exists it waits for that, with a value it settles. *)
LEMMA ResolveStep ==
  ASSUME NEW h, NEW aw, HeapFits(h, aw), NEW p \in Made(h), NEW v \in Values \cup Made(h),
         v \in Proms => h.slot[p].by \in Adopters, NEW k, k = ResolvePromise(h, p, v)
  PROVE  Resolved(h, k, aw, p, v)
<1>1. CASE ~ Pending(h, p)
  <2>1. k = h
    BY <1>1 DEF ResolvePromise
  <2>2. Step(h, h, aw, p)
    BY StepNone
  <2>. QED BY <1>1, <2>1, <2>2 DEF Resolved
<1>2. CASE Pending(h, p) /\ v \in Proms
  <2> DEFINE s == Adopt(p)
  <2>1. v \in Made(h)
    BY <1>2, ValsAssumption DEF Values
  <2>2. /\ s.kind = "adopt" /\ s.target = p /\ s = Adopt(s.target)
        /\ s \in SubRecord
    BY HeapParts DEF Adopt, Sub, SubRecord, Made
  <2>3. k = ThenOnSettled(h, v, s)
    BY <1>2 DEF ResolvePromise
  <2>4. SubFits(h, s) /\ SrcFits(aw, s, v)
    BY <1>2, <2>2 DEF SubFits, SrcFits, Adopters
  <2> HIDE DEF s
  <2>5. Joins(h, k, aw, v, s)
    BY <2>1, <2>3, <2>4, SubscribeStep
  <2>6. Step(h, k, aw, p)
    BY <2>2, <2>5, JoinStep
  <2>7. s \in Owes(p)
    BY <2>2 DEF Owes
  <2>8. Count(k, Owes(p)) = Count(h, Owes(p)) + 1
    BY <2>5, <2>7 DEF Joins, OneMore
  <2>9. Pending(k, p)
    BY <1>2, <2>5 DEF Joins, Pending
  <2>. QED BY <1>2, <2>5, <2>6, <2>8, <2>9 DEF Resolved, Joins
<1>3. CASE Pending(h, p) /\ v \notin Proms
  <2>1. v \in Values /\ k = Settle(h, p, "fulfilled", v)
    BY <1>3, HeapParts DEF ResolvePromise
  <2>2. SettledAt(h, k, aw, p)
    BY <2>1, SettleStep
  <2>. QED BY <1>3, <2>2 DEF Resolved, SettledAt, SameCounts
<1>. QED BY <1>1, <1>2, <1>3

-----------------------------------------------------------------------------
(* The operations on the heap. *)

(* Touching a promise that is new touches none. *)
LEMMA StepNew ==
  ASSUME NEW h, NEW j, NEW k, NEW aw, NEW q, Step(h, j, aw, 0), Step(j, k, aw, q),
         q \notin Made(h), HeapFits(h, aw)
  PROVE  Step(h, k, aw, 0)
<1>1. Keeps(h, k)
  BY KeepsTransitive DEF Step
<1>2. \A r \in Made(h) : r \in Made(j) /\ r # q /\ r # 0
  BY DEF Step, Keeps, Made
<1>. QED BY <1>1, <1>2 DEF Step, Quiet

(* then(). *)
LEMMA ThenStep ==
  ASSUME NEW h, NEW aw, HeapFits(h, aw), h.made < MaxProms, NEW p \in Made(h),
         NEW k, k = PromiseThen(h, p, "then", TRUE, TRUE)
  PROVE  Step(h, k, aw, 0)
<1> DEFINE b  == h.slot[p].handled \/ ("then" = "finally" \/ TRUE)
           h1 == [h EXCEPT !.slot[p].handled = b]
           h2 == NewPromise(h1, "then")
           q  == Newest(h2)
           h3 == [h2 EXCEPT !.slot[q].from = p]
           s  == Sub("then", q, TRUE, TRUE, 0)
<1>1. k = ThenOnSettled(h3, p, s)
  BY DEF PromiseThen
<1>2. Marks(h, h1)
  <2>1. b \in BOOLEAN
    OBVIOUS
  <2> HIDE DEF b
  <2>. QED BY <2>1, MarkHandled
<1> HIDE DEF h1
<1>3. Step(h, h1, aw, 0) /\ Made(h1) = Made(h) /\ h1.made = h.made
  BY <1>2, MarkStep DEF Marks
<1>4. Adds(h1, h2, aw, "then")
  BY <1>3, NewStep DEF Step
<1> HIDE DEF h2
<1>5. /\ q \in Made(h2) /\ q \notin Made(h) /\ q \in Proms /\ HeapFits(h2, aw)
      /\ h2.slot[q].by = "then" /\ p \in Made(h2) /\ Step(h1, h2, aw, 0)
  BY <1>3, <1>4 DEF Adds, Step, Keeps
<1> HIDE DEF q
<1>6. Marks(h2, h3)
  <2>1. p \in 0..MaxProms
    BY HeapParts, MaxPromsAssumption DEF Proms
  <2>. QED BY <1>5, <2>1, MarkFrom
<1> HIDE DEF h3
<1>7. /\ Step(h2, h3, aw, 0) /\ Made(h3) = Made(h2) /\ HeapFits(h3, aw)
      /\ h3.slot[q].by = "then"
  <2>1. /\ Step(h2, h3, aw, 0) /\ Made(h3) = Made(h2)
        /\ \A r \in Made(h2) : h3.slot[r].by = h2.slot[r].by
    BY <1>5, <1>6, MarkStep
  <2>. QED BY <1>5, <2>1 DEF Step
<1>8. /\ s.kind = "then" /\ s.target = q /\ s \in SubRecord
  BY <1>5, MaxPromsAssumption DEF Sub, SubRecord, Proms
<1> HIDE DEF s
<1>9. SubFits(h3, s) /\ SrcFits(aw, s, p)
  BY <1>5, <1>7, <1>8 DEF SubFits, SrcFits
<1>10. Joins(h3, k, aw, p, s)
  BY <1>1, <1>5, <1>7, <1>9, SubscribeStep
<1>11. Step(h3, k, aw, q)
  BY <1>7, <1>8, <1>10, JoinStep
<1>12. Step(h, h3, aw, 0)
  BY <1>3, <1>5, <1>7, StepTransitive
<1>. QED BY <1>5, <1>11, <1>12, StepNew

(* The promise of a fiber. *)
LEMMA PendingPromiseStep ==
  ASSUME NEW h, NEW aw, HeapFits(h, aw), h.made < MaxProms,
         NEW k, k = NewPendingPromise(h)
  PROVE  Adds(h, k, aw, "async")
<1> DEFINE h1 == NewPromise(h, "async")
           q  == h1.made
<1>1. Adds(h, h1, aw, "async")
  BY NewStep
<1>2. k = [h1 EXCEPT !.slot[q].handled = TRUE]
  BY <1>1 DEF NewPendingPromise, Adds
<1> HIDE DEF h1
<1>3. HeapFits(h1, aw) /\ q \in Made(h1)
  BY <1>1 DEF Adds, Step
<1>4. Marks(h1, k)
  BY <1>2, <1>3, MarkHandled
<1>5. /\ Step(h1, k, aw, 0) /\ SameCounts(h1, k) /\ Made(k) = Made(h1) /\ k.made = h1.made
      /\ k.slot[q].by = h1.slot[q].by /\ k.slot[q].state = h1.slot[q].state
  BY <1>3, <1>4, MarkStep DEF Marks
<1>6. Step(h, k, aw, 0)
  BY <1>1, <1>5, StepTransitive DEF Adds
<1>7. SameCounts(h, k)
  BY <1>1, <1>5 DEF SameCounts, Adds
<1>8. Count(k, Owes(q)) = 0
  BY <1>1, <1>5 DEF SameCounts, Adds
<1>9. /\ h1.made = h.made + 1 /\ q \in Made(h1) /\ q \notin Made(h) /\ q \in Proms
      /\ h1.slot[q].by = "async" /\ Pending(h1, q)
  BY <1>1 DEF Adds
<1>. QED BY <1>5, <1>6, <1>7, <1>8, <1>9 DEF Adds, Pending, Newest

(* The JS callback of a reaction that then() attached has answered. *)
LEMMA AnswerStep ==
  ASSUME NEW h, NEW aw, HeapFits(h, aw), NEW task, task.sub.kind = "then",
         SubFits(h, task.sub)
  PROVE  /\ task.sub.target \in Made(h) /\ h.slot[task.sub.target].by = "then"
         /\ \A v \in Vals \cup Made(h) :
              Step(h, CallbackReturned(h, task, v), aw, task.sub.target)
         /\ \A v \in Vals : Step(h, CallbackThrew(h, task, v), aw, task.sub.target)
<1> DEFINE p == task.sub.target
<1>1. p \in Made(h) /\ h.slot[p].by = "then"
  BY DEF SubFits
<1>2. ASSUME NEW v \in Vals \cup Made(h)
      PROVE  Step(h, CallbackReturned(h, task, v), aw, p)
  <2>1. CallbackReturned(h, task, v) = ResolvePromise(h, p, v)
    BY DEF CallbackReturned
  <2>2. Resolved(h, ResolvePromise(h, p, v), aw, p, v)
    BY <1>1, ResolveStep DEF Values, Adopters
  <2>. QED BY <2>1, <2>2 DEF Resolved
<1>3. ASSUME NEW v \in Vals
      PROVE  Step(h, CallbackThrew(h, task, v), aw, p)
  <2>1. CallbackThrew(h, task, v) = Settle(h, p, "rejected", v)
    BY DEF CallbackThrew, RejectPromise
  <2>2. SettledAt(h, Settle(h, p, "rejected", v), aw, p)
    BY <1>1, SettleStep DEF Values
  <2>. QED BY <2>1, <2>2 DEF SettledAt
<1>. QED BY <1>1, <1>2, <1>3

(* A reaction without a JS callback passes the settlement on. *)
Passed(h, k, aw, p) ==
  /\ Step(h, k, aw, p) /\ ~ Pending(k, p) /\ Count(k, Owes(p)) = Count(h, Owes(p))

(* What PassOn does. *)
LEMMA PassStep ==
  ASSUME NEW h, NEW aw, HeapFits(h, aw), NEW t, TaskFits(h, aw, t), t.sub.kind # "wake",
         NEW k, k = PassOn(h, t)
  PROVE  t.sub.target \in Made(h) /\ Passed(h, k, aw, t.sub.target)
<1> DEFINE p == t.sub.target
           v == h.slot[t.src].value
<1>1. t.sub.kind \in {"then", "adopt"} /\ p \in Made(h)
  <2>1. SubFits(h, t.sub) /\ t.sub.kind \in {"then", "adopt", "wake"}
    BY DEF TaskFits, SubFits, SubRecord
  <2>. QED BY <2>1 DEF SubFits
<1>2. v \in Values
  <2>1. h.slot[t.src] \in Slots(SubRecord, Values)
    BY HeapParts DEF TaskFits
  <2>. QED BY <2>1 DEF Slots
<1>3. v \notin Proms
  BY <1>2, ValsAssumption DEF Values
<1> HIDE DEF v
<1>4. CASE ~ t.ok
  <2>1. k = Settle(h, p, "rejected", v)
    BY <1>4 DEF PassOn, RejectPromise, v
  <2>2. SettledAt(h, k, aw, p)
    BY <1>1, <1>2, <2>1, SettleStep
  <2>. QED BY <1>1, <2>2 DEF SettledAt, Passed, SameCounts
<1>5. CASE t.ok
  <2>1. k = ResolvePromise(h, p, v)
    BY <1>1, <1>5 DEF PassOn, v
  <2>2. Resolved(h, k, aw, p, v)
    BY <1>1, <1>2, <1>3, <2>1, ResolveStep
  <2>. QED BY <1>1, <1>3, <2>2 DEF Resolved, Passed
<1>. QED BY <1>4, <1>5

(* The promise OpReturn makes of a plain value. *)
Wrapped(h, v) ==
  IF v \in Proms THEN h
  ELSE LET h1 == NewPromise(h, "static") IN ResolvePromise(h1, Newest(h1), v)

Wrapper(h, v) == IF v \in Proms THEN v ELSE Newest(Wrapped(h, v))

(* k is h with r waiting for what the body of its fiber returned. *)
Awaits(h, k, aw, r) ==
  Step(h, k, aw, r) /\ Pending(k, r) /\ Count(k, Owes(r)) = Count(h, Owes(r)) + 1

(* A value wrapped. *)
LEMMA WrapStep ==
  ASSUME NEW h, NEW aw, HeapFits(h, aw), NEW v \in Vals \cup Made(h),
         v \notin Proms => h.made < MaxProms
  PROVE  Step(h, Wrapped(h, v), aw, 0) /\ Wrapper(h, v) \in Made(Wrapped(h, v))
<1>1. CASE v \in Proms
  <2>1. v \in Made(h)
    BY <1>1, ValsAssumption
  <2>. QED BY <1>1, <2>1, StepNone DEF Wrapped, Wrapper
<1>2. CASE v \notin Proms
  <2> DEFINE h1 == NewPromise(h, "static")
             q  == Newest(h1)
             j  == ResolvePromise(h1, q, v)
  <2>1. Adds(h, h1, aw, "static")
    BY <1>2, NewStep
  <2>2. j = Wrapped(h, v) /\ Wrapper(h, v) = j.made
    BY <1>2 DEF Wrapped, Wrapper, Newest
  <2> HIDE DEF h1
  <2>3. q \in Made(h1) /\ q \notin Made(h) /\ HeapFits(h1, aw) /\ Step(h, h1, aw, 0)
    BY <2>1 DEF Adds, Step
  <2>4. v \in Values
    BY <1>2, HeapParts DEF Values
  <2>5. Resolved(h1, j, aw, q, v)
    BY <1>2, <2>3, <2>4, ResolveStep
  <2> HIDE DEF j
  <2>6. Step(h, j, aw, 0)
    BY <2>3, <2>5, StepNew DEF Resolved
  <2>7. j.made \in Made(j)
    <3>1. Made(j) = Made(h1) /\ j \in Heaps(SubRecord, Values)
      BY <2>5, HeapParts DEF Resolved, Step
    <3>2. j.made \in 0..MaxProms /\ 1..j.made # {}
      BY <2>3, <3>1, HeapFields DEF Made
    <3>. QED BY <3>2, MaxPromsAssumption DEF Made
  <2>. QED BY <2>2, <2>6, <2>7
<1>. QED BY <1>1, <1>2

(* A body that returns resolves the promise of its fiber with a promise. *)
LEMMA ReturnStep ==
  ASSUME NEW h, NEW aw, HeapFits(h, aw), NEW v \in Vals \cup Made(h),
         v \notin Proms => h.made < MaxProms,
         NEW r \in Made(h), h.slot[r].by = "async", Pending(h, r),
         NEW k, k = ResolvePromise(Wrapped(h, v), r, Wrapper(h, v))
  PROVE  Awaits(h, k, aw, r)
<1> DEFINE j == Wrapped(h, v)
           q == Wrapper(h, v)
<1>1. Step(h, j, aw, 0) /\ q \in Made(j)
  BY WrapStep
<1>2. k = ResolvePromise(j, r, q)
  OBVIOUS
<1> HIDE DEF j, q
<1>3. HeapFits(j, aw) /\ r # 0
  BY <1>1 DEF Step, Made
<1>4. /\ r \in Made(j) /\ j.slot[r].by = "async" /\ Pending(j, r)
      /\ Count(j, Owes(r)) = Count(h, Owes(r))
  BY <1>1, <1>3 DEF Step, Keeps, Quiet, Pending
<1>5. q \in Proms
  BY <1>1, <1>3, HeapParts
<1>6. Resolved(j, k, aw, r, q)
  BY <1>1, <1>2, <1>3, <1>4, ResolveStep DEF Adopters
<1>7. Step(h, k, aw, r)
  <2>1. Step(h, j, aw, r)
    BY <1>1, StepWeaker
  <2>. QED BY <1>6, <2>1, StepTransitive DEF Resolved
<1>. QED BY <1>4, <1>5, <1>6, <1>7 DEF Resolved, Awaits

-----------------------------------------------------------------------------
(* The stacks. *)

(* The tip of a stack. *)
LEMMA TipFacts ==
  ASSUME NEW h, NEW t, NEW s, StackFits(h, t, s)
  PROVE  /\ Tip(s).kind = "idle" <=> s = <<>>
         /\ s # <<>> => Tip(s) = Last(s) /\ Tip(s) \in Fitting(h)
<1>1. CASE s = <<>>
  BY <1>1 DEF Tip, Idle
<1>2. CASE s # <<>>
  <2>1. s \in Seq(Fitting(h)) /\ Len(s) \in 1..Len(s)
    BY <1>2, EmptySeq, LenProperties DEF StackFits
  <2>2. Tip(s) = Last(s) /\ Last(s) \in Fitting(h)
    BY <1>2, <2>1, ElementOfSeq DEF Tip, Last
  <2>3. Tip(s).kind \in Kinds
    BY <2>2 DEF Fitting, Activities
  <2>4. Tip(s).kind # "idle"
    BY <2>3 DEF Kinds, JSKinds
  <2>. QED BY <1>2, <2>2, <2>4
<1>. QED BY <1>1, <1>2

(* A stack that fits still does later. *)
LEMMA StackKept ==
  ASSUME NEW h, NEW k, Keeps(h, k), NEW t, NEW s, StackFits(h, t, s)
  PROVE  StackFits(k, t, s)
<1>1. Fitting(h) \subseteq Fitting(k)
  BY FitsKept
<1>. QED BY <1>1 DEF StackFits

(* A sequence without its last element. *)
LEMMA FrontFacts ==
  ASSUME NEW S, NEW s \in Seq(S), s # <<>>
  PROVE  /\ Len(s) \in Nat \ {0}
         /\ Front(s) \in Seq(S) /\ Len(Front(s)) = Len(s) - 1
         /\ \A i \in 1..(Len(s) - 1) : Front(s)[i] = s[i]
<1> DEFINE n == Len(s) - 1
<1>1. Len(s) \in Nat \ {0}
  BY EmptySeq, LenProperties
<1>2. n \in Nat /\ \A i \in 1..n : s[i] \in S
  BY <1>1, ElementOfSeq
<1>3. Front(s) = SubSeq(s, 1, n)
  BY DEF Front
<1> HIDE DEF n
<1>4. /\ SubSeq(s, 1, n) \in Seq(S)
      /\ Len(SubSeq(s, 1, n)) = IF 1 <= n THEN n - 1 + 1 ELSE 0
      /\ \A i \in 1..(n - 1 + 1) : SubSeq(s, 1, n)[i] = s[1 + i - 1]
  BY <1>2, SubSeqProperties
<1>5. \A i \in 1..n : SubSeq(s, 1, n)[i] = s[i]
  BY <1>2, <1>4
<1>6. Len(SubSeq(s, 1, n)) = n
  BY <1>2, <1>4
<1>. QED BY <1>1, <1>3, <1>4, <1>5, <1>6 DEF n

(* The top of a stack replaced. *)
LEMMA StackSwap ==
  ASSUME NEW h, NEW t, NEW s, StackFits(h, t, s), s # <<>>, NEW a \in Fitting(h),
         Last(s).kind \in Bottoms(t) => a.kind \in Bottoms(t)
  PROVE  StackFits(h, t, Append(Front(s), a)) /\ Tip(Append(Front(s), a)) = a
<1> DEFINE r == Append(Front(s), a)
           n == Len(s)
<1>1. s \in Seq(Fitting(h)) /\ n \in Nat \ {0}
  BY EmptySeq, LenProperties DEF StackFits
<1>2. /\ Front(s) \in Seq(Fitting(h)) /\ Len(Front(s)) = n - 1
      /\ \A i \in 1..(n - 1) : Front(s)[i] = s[i]
  BY <1>1, FrontFacts
<1>3. /\ r \in Seq(Fitting(h)) /\ Len(r) = n /\ r[n] = a
      /\ \A i \in 1..(n - 1) : r[i] = s[i]
  BY <1>1, <1>2, AppendProperties
<1> HIDE DEF r
<1>4. r # <<>> /\ Tip(r) = a
  BY <1>1, <1>3, EmptySeq DEF Tip, Last
<1>5. \A i \in 1..Len(r) : i < Len(r) => r[i].kind \in Under
  BY <1>1, <1>3 DEF StackFits, n
<1>6. r[1].kind \in Bottoms(t)
  <2>1. s[1].kind \in Bottoms(t)
    BY DEF StackFits
  <2>2. CASE n = 1
    BY <1>3, <2>1, <2>2 DEF Last
  <2>3. CASE n # 1
    BY <1>1, <1>3, <2>1, <2>3
  <2>. QED BY <2>2, <2>3
<1>7. StackFits(h, t, r)
  BY <1>3, <1>5, <1>6 DEF StackFits
<1>. QED BY <1>4, <1>7 DEF r

(* Something put on top of JS, or of a drain. *)
LEMMA StackPush ==
  ASSUME NEW h, NEW t, NEW s, StackFits(h, t, s), s # <<>>, Last(s).kind \in Under,
         NEW a \in Fitting(h)
  PROVE  StackFits(h, t, Append(s, a)) /\ Tip(Append(s, a)) = a
<1> DEFINE r == Append(s, a)
           n == Len(s)
<1>1. s \in Seq(Fitting(h)) /\ n \in Nat \ {0}
  BY EmptySeq, LenProperties DEF StackFits
<1>2. /\ r \in Seq(Fitting(h)) /\ Len(r) = n + 1 /\ r[n + 1] = a
      /\ \A i \in 1..n : r[i] = s[i]
  BY <1>1, AppendProperties
<1> HIDE DEF r
<1>3. r # <<>> /\ Tip(r) = a
  BY <1>1, <1>2, EmptySeq DEF Tip, Last
<1>4. ASSUME NEW i \in 1..Len(r), i < Len(r) PROVE r[i].kind \in Under
  <2>1. CASE i < n
    BY <1>1, <1>2, <1>4, <2>1 DEF StackFits, n
  <2>2. CASE i = n
    BY <1>1, <1>2, <2>2 DEF Last
  <2>. QED BY <1>1, <1>2, <1>4, <2>1, <2>2
<1>5. r[1].kind \in Bottoms(t)
  BY <1>1, <1>2 DEF StackFits
<1>6. StackFits(h, t, r)
  BY <1>2, <1>4, <1>5 DEF StackFits
<1>. QED BY <1>3, <1>6 DEF r

(* The top removed: what was below it is JS or a drain. *)
LEMMA StackPop ==
  ASSUME NEW h, NEW t, NEW s, StackFits(h, t, s), s # <<>>
  PROVE  /\ StackFits(h, t, Front(s))
         /\ Last(s).kind \notin Bottoms(t) => Front(s) # <<>>
         /\ Front(s) # <<>> => Tip(Front(s)).kind \in Under
<1> DEFINE r == Front(s)
           n == Len(s)
<1>1. s \in Seq(Fitting(h)) /\ n \in Nat \ {0}
  BY EmptySeq, LenProperties DEF StackFits
<1>2. /\ r \in Seq(Fitting(h)) /\ Len(r) = n - 1
      /\ \A i \in 1..(n - 1) : r[i] = s[i]
  BY <1>1, FrontFacts
<1> HIDE DEF r
<1>3. r = <<>> <=> n = 1
  BY <1>1, <1>2, EmptySeq
<1>4. ASSUME Last(s).kind \notin Bottoms(t) PROVE r # <<>>
  <2>1. s[1].kind \in Bottoms(t)
    BY DEF StackFits
  <2>. QED BY <1>3, <1>4, <2>1 DEF Last
<1>5. \A i \in 1..(n - 1) : r[i].kind \in Under
  BY <1>1, <1>2 DEF StackFits, n
<1>6. r # <<>> => Tip(r).kind \in Under
  BY <1>1, <1>2, <1>3, <1>5 DEF Tip, Last
<1>7. StackFits(h, t, r)
  <2>1. r # <<>> => r[1].kind \in Bottoms(t)
    BY <1>1, <1>2, <1>3 DEF StackFits
  <2>. QED BY <1>1, <1>2, <1>5, <2>1 DEF StackFits
<1>. QED BY <1>4, <1>6, <1>7 DEF r

-----------------------------------------------------------------------------
(* The turn.  a are the tips before a step and b those after. *)

AllBut(a, b, T) == \A u \in Goroutines \ T : b[u] = a[u]

(* The main goroutine is none of the fibers. *)
LEMMA Names == Main \in Goroutines /\ Main \notin Fibers /\ Fibers \subseteq Goroutines
BY BoundsAssumption DEF Main, Goroutines, Fibers

(* The goroutine that has the turn goes on. *)
LEMMA TurnStays ==
  ASSUME NEW a, TurnFits(a), NEW b, NEW t \in Goroutines, AllBut(a, b, {t}),
         a[t].kind \in Holders, b[t].kind \in Holders,
         b[t].kind = "wake" => b[t].on \in Fibers /\ a[b[t].on].kind = "parked"
  PROVE  TurnFits(b)
<1> USE Names DEF AllBut
<1>1. \A k \in Holders : k \notin Partners /\ k \notin Asleep /\ k # "idle" /\ k # "parked"
  BY DEF Holders, Partners, Asleep, JSKinds
<1>2. \A u \in Goroutines : b[u].kind \in Holders <=> a[u].kind \in Holders
  BY <1>1
<1>3. /\ \A u, w \in Goroutines : b[u].kind \in Holders /\ b[w].kind \in Holders => u = w
      /\ b[Main].kind # "idle" <=> \E u \in Goroutines : b[u].kind \in Holders
  BY <1>1, <1>2 DEF TurnFits
<1>4. \A u \in Goroutines : u # t => a[u].kind # "wake"
  BY DEF TurnFits, Holders
<1>5. \A u \in Goroutines :
        b[u].kind = "wake" => b[u].on \in Fibers /\ b[b[u].on].kind = "parked"
  BY <1>1, <1>4
<1>6. \A u \in Goroutines : b[u].kind \in Partners <=> a[u].kind \in Partners
  BY <1>1
<1>7. \A u \in Goroutines : b[u].kind \in Partners => b[u].on = a[u].on
  BY <1>1
<1>8. \A u \in Goroutines : b[u].kind \in Asleep <=> a[u].kind \in Asleep
  BY <1>1
<1>9. \A u \in Goroutines :
        b[u].kind \in Partners => b[u].on \in Fibers /\ b[b[u].on].kind \notin Asleep
  BY <1>6, <1>7, <1>8 DEF TurnFits
<1>10. \A g \in Fibers : b[g].kind \notin Asleep =>
        \E u \in Goroutines : b[u].kind \in Partners /\ b[u].on = g
  BY <1>6, <1>7, <1>8 DEF TurnFits
<1>11. \A u, w \in Goroutines :
        b[u].kind \in Partners /\ b[w].kind \in Partners /\ b[u].on = b[w].on => u = w
  BY <1>6, <1>7 DEF TurnFits
<1>. QED BY <1>3, <1>5, <1>9, <1>10, <1>11 DEF TurnFits

(* Eval gives it to the main goroutine. *)
LEMMA TurnStarts ==
  ASSUME NEW a, TurnFits(a), NEW b, AllBut(a, b, {Main}),
         a[Main].kind = "idle", b[Main].kind = "program"
  PROVE  TurnFits(b)
<1> USE Names DEF AllBut
<1>1. /\ "program" \in Holders /\ "idle" \notin Holders /\ "wake" \in Holders
      /\ "program" \notin Partners /\ "program" \notin Asleep /\ "idle" \notin Partners
  BY DEF Holders, Partners, Asleep, JSKinds
<1>2. \A u \in Goroutines : a[u].kind \notin Holders
  BY DEF TurnFits
<1>3. /\ \A u, w \in Goroutines : b[u].kind \in Holders /\ b[w].kind \in Holders => u = w
      /\ b[Main].kind # "idle" <=> \E u \in Goroutines : b[u].kind \in Holders
  BY <1>1, <1>2
<1>4. \A u \in Goroutines : b[u].kind # "wake"
  BY <1>1, <1>2
<1>5. \A u \in Goroutines : b[u].kind \in Partners <=> a[u].kind \in Partners
  BY <1>1
<1>6. \A u \in Goroutines : b[u].kind \in Partners => b[u].on = a[u].on
  BY <1>1
<1>7. \A f \in Fibers : b[f] = a[f]
  OBVIOUS
<1>8. \A u \in Goroutines :
        b[u].kind \in Partners => b[u].on \in Fibers /\ b[b[u].on].kind \notin Asleep
  BY <1>5, <1>6, <1>7 DEF TurnFits
<1>9. \A g \in Fibers : b[g].kind \notin Asleep =>
        \E u \in Goroutines : b[u].kind \in Partners /\ b[u].on = g
  BY <1>5, <1>6, <1>7 DEF TurnFits
<1>10. \A u, w \in Goroutines :
        b[u].kind \in Partners /\ b[w].kind \in Partners /\ b[u].on = b[w].on => u = w
  BY <1>5, <1>6 DEF TurnFits
<1>. QED BY <1>3, <1>4, <1>8, <1>9, <1>10 DEF TurnFits

(* The main goroutine gives it back. *)
LEMMA TurnEnds ==
  ASSUME NEW a, TurnFits(a), NEW b, AllBut(a, b, {Main}),
         a[Main].kind \in Holders, b[Main].kind = "idle"
  PROVE  TurnFits(b)
<1> USE Names DEF AllBut
<1>1. /\ \A k \in Holders : k \notin Partners
      /\ "idle" \notin Holders /\ "wake" \in Holders /\ "idle" \notin Partners
  BY DEF Holders, Partners, Asleep, JSKinds
<1>2. \A u \in Goroutines : b[u].kind \notin Holders
  BY <1>1 DEF TurnFits
<1>3. \A u \in Goroutines : b[u].kind # "wake"
  BY <1>1, <1>2
<1>4. \A u \in Goroutines : b[u].kind \in Partners <=> a[u].kind \in Partners
  BY <1>1
<1>5. \A u \in Goroutines : b[u].kind \in Partners => b[u].on = a[u].on
  BY <1>1
<1>6. \A f \in Fibers : b[f] = a[f]
  OBVIOUS
<1>7. \A u \in Goroutines :
        b[u].kind \in Partners => b[u].on \in Fibers /\ b[b[u].on].kind \notin Asleep
  BY <1>4, <1>5, <1>6 DEF TurnFits
<1>8. \A g \in Fibers : b[g].kind \notin Asleep =>
        \E u \in Goroutines : b[u].kind \in Partners /\ b[u].on = g
  BY <1>4, <1>5, <1>6 DEF TurnFits
<1>9. \A u, w \in Goroutines :
        b[u].kind \in Partners /\ b[w].kind \in Partners /\ b[u].on = b[w].on => u = w
  BY <1>4, <1>5 DEF TurnFits
<1>. QED BY <1>2, <1>3, <1>7, <1>8, <1>9 DEF TurnFits

(* It is handed to a new fiber. *)
LEMMA TurnSpawns ==
  ASSUME NEW a, TurnFits(a), NEW b, NEW t \in Goroutines, NEW f \in Fibers,
         AllBut(a, b, {t, f}), a[t].kind \in Holders, a[f].kind = "idle",
         b[t].kind = "spawn", b[t].on = f, b[f].kind = "body"
  PROVE  TurnFits(b)
<1> USE Names DEF AllBut
<1>1. /\ \A k \in Holders : k \notin Partners /\ k \notin Asleep /\ k # "idle"
      /\ "idle" \notin Holders /\ "wake" \in Holders /\ "body" \in Holders
      /\ "spawn" \in Partners /\ "spawn" \notin Holders /\ "spawn" # "wake"
      /\ "spawn" \notin Asleep /\ "idle" \in Asleep /\ "idle" \notin Partners
      /\ "body" # "wake" /\ "spawn" # "idle"
  BY DEF Holders, Partners, Asleep, JSKinds
<1>2. t # f
  BY <1>1
<1>3. \A u \in Goroutines : b[u].kind \in Holders <=> u = f
  BY <1>1, <1>2 DEF TurnFits
<1>4. b[Main].kind # "idle"
  <2>1. a[Main].kind # "idle"
    BY DEF TurnFits
  <2>. QED BY <1>1, <2>1
<1>5. \A u \in Goroutines : b[u].kind # "wake"
  BY <1>1, <1>2, <1>3
<1>6. \A u \in Goroutines : b[u].kind \in Partners <=> a[u].kind \in Partners \/ u = t
  BY <1>1, <1>2, <1>3
<1>7. \A u \in Goroutines : a[u].kind \in Partners =>
        a[u].on # f /\ b[u].on = a[u].on /\ u # t
  BY <1>1 DEF TurnFits
<1>8. \A g \in Fibers : b[g].kind \notin Asleep <=> a[g].kind \notin Asleep \/ g = f
  BY <1>1, <1>2, <1>3
<1>9. \A u \in Goroutines :
        b[u].kind \in Partners => b[u].on \in Fibers /\ b[b[u].on].kind \notin Asleep
  BY <1>6, <1>7, <1>8 DEF TurnFits
<1>10. \A g \in Fibers : b[g].kind \notin Asleep =>
         \E u \in Goroutines : b[u].kind \in Partners /\ b[u].on = g
  BY <1>6, <1>7, <1>8 DEF TurnFits
<1>11. \A u, w \in Goroutines :
         b[u].kind \in Partners /\ b[w].kind \in Partners /\ b[u].on = b[w].on => u = w
  BY <1>6, <1>7 DEF TurnFits
<1>. QED BY <1>3, <1>4, <1>5, <1>9, <1>10, <1>11 DEF TurnFits

(* It is handed to a parked fiber. *)
LEMMA TurnResumes ==
  ASSUME NEW a, TurnFits(a), NEW b, NEW t \in Goroutines, NEW f \in Fibers,
         AllBut(a, b, {t, f}), a[t].kind = "wake", a[f].kind = "parked",
         b[t].kind = "woken", b[t].on = f, b[f].kind \in Under
  PROVE  TurnFits(b)
<1> USE Names DEF AllBut
<1>1. /\ \A k \in Under : k \in Holders /\ k # "wake"
      /\ \A k \in Holders : k \notin Partners /\ k \notin Asleep /\ k # "idle"
      /\ "wake" \in Holders /\ "parked" \in Asleep /\ "parked" \notin Partners
      /\ "woken" \in Partners /\ "woken" \notin Holders /\ "woken" # "wake"
      /\ "woken" \notin Asleep /\ "woken" # "idle" /\ "wake" # "parked"
  BY DEF Holders, Partners, Asleep, JSKinds, Under
<1>2. t # f
  BY <1>1
<1>3. \A u \in Goroutines : b[u].kind \in Holders <=> u = f
  BY <1>1, <1>2 DEF TurnFits
<1>4. b[Main].kind # "idle"
  <2>1. a[Main].kind # "idle"
    BY <1>1 DEF TurnFits
  <2>. QED BY <1>1, <2>1
<1>5. \A u \in Goroutines : b[u].kind # "wake"
  BY <1>1, <1>2, <1>3
<1>6. \A u \in Goroutines : b[u].kind \in Partners <=> a[u].kind \in Partners \/ u = t
  BY <1>1, <1>2, <1>3
<1>7. \A u \in Goroutines : a[u].kind \in Partners =>
        a[u].on # f /\ b[u].on = a[u].on /\ u # t
  BY <1>1 DEF TurnFits
<1>8. \A g \in Fibers : b[g].kind \notin Asleep <=> a[g].kind \notin Asleep \/ g = f
  BY <1>1, <1>2, <1>3
<1>9. \A u \in Goroutines :
        b[u].kind \in Partners => b[u].on \in Fibers /\ b[b[u].on].kind \notin Asleep
  BY <1>6, <1>7, <1>8 DEF TurnFits
<1>10. \A g \in Fibers : b[g].kind \notin Asleep =>
         \E u \in Goroutines : b[u].kind \in Partners /\ b[u].on = g
  BY <1>6, <1>7, <1>8 DEF TurnFits
<1>11. \A u, w \in Goroutines :
         b[u].kind \in Partners /\ b[w].kind \in Partners /\ b[u].on = b[w].on => u = w
  BY <1>6, <1>7 DEF TurnFits
<1>. QED BY <1>3, <1>4, <1>5, <1>9, <1>10, <1>11 DEF TurnFits

(* A fiber that pauses or ends hands it to whoever waits. *)
LEMMA TurnPauses ==
  ASSUME NEW a, TurnFits(a), NEW b, NEW t \in Goroutines, NEW f \in Fibers,
         AllBut(a, b, {t, f}), a[t].kind \in Partners, a[t].on = f,
         a[f].kind \in {"pausing", "ending"}, b[t].kind \in Under, b[f].kind \in Asleep
  PROVE  TurnFits(b)
<1> USE Names DEF AllBut
<1>1. /\ \A k \in Under : k \in Holders /\ k # "wake"
      /\ \A k \in Holders : k \notin Partners /\ k \notin Asleep /\ k # "idle"
      /\ "pausing" \in Holders /\ "ending" \in Holders
      /\ "wake" \in Holders /\ \A k \in Partners : k # "idle" /\ k \notin Asleep
      /\ "pausing" # "wake" /\ "ending" # "wake" /\ "wake" \notin Asleep
  BY DEF Holders, Partners, Asleep, JSKinds, Under
<1>2. t # f
  BY <1>1
<1>3. \A u \in Goroutines : b[u].kind \in Holders <=> u = t
  BY <1>1, <1>2 DEF TurnFits
<1>4. b[Main].kind # "idle"
  <2>1. a[Main].kind # "idle"
    BY <1>1 DEF TurnFits
  <2>2. Main # f
    OBVIOUS
  <2>. QED BY <1>1, <2>1, <2>2
<1>5. \A u \in Goroutines : b[u].kind # "wake"
  BY <1>1, <1>2, <1>3
<1>6. \A u \in Goroutines : b[u].kind \in Partners <=> a[u].kind \in Partners /\ u # t
  BY <1>1, <1>2, <1>3
<1>7. \A u \in Goroutines : a[u].kind \in Partners /\ u # t =>
        a[u].on # f /\ b[u].on = a[u].on /\ u # f
  BY <1>1 DEF TurnFits
<1>8. \A g \in Fibers : b[g].kind \notin Asleep <=> a[g].kind \notin Asleep /\ g # f
  BY <1>1, <1>2, <1>3
<1>9. \A u \in Goroutines :
        b[u].kind \in Partners => b[u].on \in Fibers /\ b[b[u].on].kind \notin Asleep
  BY <1>6, <1>7, <1>8 DEF TurnFits
<1>10. \A g \in Fibers : b[g].kind \notin Asleep =>
         \E u \in Goroutines : b[u].kind \in Partners /\ b[u].on = g
  BY <1>6, <1>7, <1>8 DEF TurnFits
<1>11. \A u, w \in Goroutines :
         b[u].kind \in Partners /\ b[w].kind \in Partners /\ b[u].on = b[w].on => u = w
  BY <1>6, <1>7 DEF TurnFits
<1>. QED BY <1>3, <1>4, <1>5, <1>9, <1>10, <1>11 DEF TurnFits

-----------------------------------------------------------------------------
(* The parts of the invariant, and what a step leaves of them. *)

(* The parts. *)
LEMMA FitsParts ==
  ASSUME NEW h, NEW st, NEW n, NEW res, NEW aw, Fits(h, st, n, res, aw)
  PROVE  /\ HeapFits(h, aw)
         /\ n \in 0..MaxFibers /\ n \in Nat
         /\ \A t \in Goroutines : StackFits(h, t, st[t])
         /\ \A t \in Goroutines : Tips(st)[t] = Tip(st[t])
         /\ TurnFits(Tips(st)) /\ FibersFit(Tips(st), n, aw) /\ ServesFit(h, Tips(st), aw)
         /\ WakesFit(h, Tips(st), aw) /\ ResultsFit(h, Tips(st), n, res)
BY BoundsAssumption DEF Fits, Tips

(* st2 is st with stack s for goroutine t. *)
Changes(st, st2, t, s) ==
  /\ DOMAIN st2 = Goroutines /\ st2 = [u \in Goroutines |-> st2[u]]
  /\ st2[t] = s /\ \A u \in Goroutines : u # t => st2[u] = st[u]

(* One stack replaced. *)
LEMMA ChangeOne ==
  ASSUME NEW h, NEW st, NEW n, NEW res, NEW aw, Fits(h, st, n, res, aw),
         NEW t \in Goroutines, NEW s
  PROVE  /\ \A st2 : st2 = [st EXCEPT ![t] = s] => Changes(st, st2, t, s)
         /\ Changes(st, st, t, st[t])
BY DEF Fits, Changes

(* The tips, then. *)
LEMMA ChangedTips ==
  ASSUME NEW st, NEW st2, NEW t \in Goroutines, NEW s, Changes(st, st2, t, s)
  PROVE  AllBut(Tips(st), Tips(st2), {t}) /\ Tips(st2)[t] = Tip(s)
BY DEF Changes, Tips, AllBut

(* Wake-ups, where neither who awaits nor who is served changes. *)
LEMMA WakesKept ==
  ASSUME NEW h, NEW k, NEW a, NEW b, NEW aw, WakesFit(h, a, aw),
         \A f \in Fibers : Count(k, Wakes(f)) = Count(h, Wakes(f)),
         \A t \in Goroutines : a[t].kind = "wake" \/ b[t].kind = "wake" => b[t] = a[t]
  PROVE  WakesFit(k, b, aw)
<1>1. \A f \in Fibers : Served(b, f) <=> Served(a, f)
  BY DEF Served
<1>. QED BY <1>1 DEF WakesFit

(* What goroutines serve. *)
LEMMA ServesKept ==
  ASSUME NEW h, NEW k, NEW a, NEW b, NEW aw, ServesFit(h, a, aw), Keeps(h, k),
         \A t \in Goroutines : b[t].kind = "wake" => b[t] = a[t]
  PROVE  ServesFit(k, b, aw)
<1>1. SUFFICES ASSUME NEW t \in Goroutines, b[t].kind = "wake"
               PROVE  /\ b[t].task \in TaskRecord
                      /\ aw[b[t].on] = b[t].task.src
                      /\ b[t].task.src \in Made(k)
                      /\ SideFits(k, b[t].task.src, b[t].task.ok)
  BY DEF ServesFit
<1>2. b[t] = a[t] /\ a[t].kind = "wake"
  BY <1>1
<1>3. /\ a[t].task \in TaskRecord /\ aw[a[t].on] = a[t].task.src
      /\ a[t].task.src \in Made(h) /\ SideFits(h, a[t].task.src, a[t].task.ok)
  BY <1>2 DEF ServesFit
<1>4. SideFits(k, a[t].task.src, a[t].task.ok) /\ a[t].task.src \in Made(k)
  BY <1>3, SideKept DEF Keeps
<1>. QED BY <1>2, <1>3, <1>4

(* The promises of fibers, when at most that of one of them is touched. *)
LEMMA ResultsKept ==
  ASSUME NEW h, NEW k, NEW a, NEW b, NEW aw, NEW n, NEW res, ResultsFit(h, a, n, res),
         NEW p, Step(h, k, aw, p),
         \A f \in 1..n : IF res[f] = p THEN ResultFits(k, p, Over(b, f))
                                       ELSE Over(b, f) = Over(a, f)
  PROVE  ResultsFit(k, b, n, res)
<1>1. ASSUME NEW f \in 1..n PROVE ResultFits(k, res[f], Over(b, f))
  <2>1. CASE res[f] = p
    BY <2>1
  <2>2. CASE res[f] # p
    <3>1. ResultFits(h, res[f], Over(a, f)) /\ Over(b, f) = Over(a, f)
      BY <2>2 DEF ResultsFit
    <3>2. /\ res[f] \in Made(h) /\ res[f] \in Made(k)
          /\ k.slot[res[f]].by = h.slot[res[f]].by
          /\ k.slot[res[f]].state = h.slot[res[f]].state
          /\ Count(k, Owes(res[f])) = Count(h, Owes(res[f]))
      BY <2>2, <3>1 DEF ResultFits, Step, Keeps, Quiet
    <3>3. Pending(k, res[f]) <=> Pending(h, res[f])
      BY <3>2 DEF Pending
    <3>. QED BY <3>1, <3>2, <3>3 DEF ResultFits
  <2>. QED BY <2>1, <2>2
<1>. QED BY <1>1 DEF ResultsFit

(* The goroutine that has the turn goes on, without beginning or ending to
   await or to serve a wake-up. *)
LEMMA Onward ==
  ASSUME NEW h, NEW st, NEW n, NEW res, NEW aw, Fits(h, st, n, res, aw),
         NEW t \in Goroutines, NEW s, NEW st2, Changes(st, st2, t, s),
         NEW k, HeapFits(k, aw), Keeps(h, k),
         \A f \in Fibers : Count(k, Wakes(f)) = Count(h, Wakes(f)),
         StackFits(k, t, s),
         Tip(st[t]).kind \in Holders \ {"wake", "pausing"},
         Tip(s).kind \in Holders \ {"wake", "pausing"},
         ResultsFit(k, Tips(st2), n, res)
  PROVE  Fits(k, st2, n, res, aw)
<1> DEFINE a == Tips(st)
           b == Tips(st2)
<1>1. AllBut(a, b, {t}) /\ b[t] = Tip(s) /\ a[t] = Tip(st[t])
  BY ChangedTips, FitsParts
<1>2. /\ TurnFits(a) /\ FibersFit(a, n, aw) /\ ServesFit(h, a, aw) /\ WakesFit(h, a, aw)
  BY FitsParts
<1> HIDE DEF a, b
<1>3. \A u \in Goroutines : u # t => b[u] = a[u]
  BY <1>1 DEF AllBut
<1>4. TurnFits(b)
  BY <1>1, <1>2, TurnStays
<1>5. FibersFit(b, n, aw)
  <2>1. ASSUME NEW f \in Fibers
        PROVE  /\ f > n => b[f].kind = "idle"
               /\ aw[f] # 0 <=> b[f].kind \in {"pausing", "parked"}
    <3>1. /\ f > n => a[f].kind = "idle"
          /\ aw[f] # 0 <=> a[f].kind \in {"pausing", "parked"}
      BY <1>2 DEF FibersFit
    <3>2. CASE f # t
      BY <1>3, <3>1, <3>2, Names
    <3>3. CASE f = t
      <4>1. "idle" \notin Holders /\ "parked" \notin Holders
        BY DEF Holders, JSKinds
      <4>. QED BY <1>1, <3>1, <3>3, <4>1
    <3>. QED BY <3>2, <3>3
  <2>. QED BY <2>1 DEF FibersFit
<1>6. ServesFit(k, b, aw)
  BY <1>1, <1>2, <1>3, ServesKept
<1>7. WakesFit(k, b, aw)
  BY <1>1, <1>2, <1>3, WakesKept
<1>8. ASSUME NEW u \in Goroutines PROVE StackFits(k, u, st2[u])
  BY FitsParts, StackKept DEF Changes
<1>9. ResultsFit(k, b, n, res)
  BY DEF b
<1>10. /\ n \in 0..MaxFibers /\ res \in [Fibers -> Proms \cup {0}]
       /\ aw \in [Fibers -> Proms \cup {0}]
       /\ DOMAIN st2 = Goroutines /\ st2 = [u \in Goroutines |-> st2[u]]
  BY DEF Fits, Changes
<1>. QED BY <1>4, <1>5, <1>6, <1>7, <1>8, <1>9, <1>10 DEF Fits, b

(* The same when no promise of a fiber is touched and no body ends. *)
LEMMA OnwardQuietly ==
  ASSUME NEW h, NEW st, NEW n, NEW res, NEW aw, Fits(h, st, n, res, aw),
         NEW t \in Goroutines, NEW s, NEW st2, Changes(st, st2, t, s),
         NEW k, NEW p, Step(h, k, aw, p), p \in Made(h) => h.slot[p].by # "async",
         StackFits(k, t, s),
         Tip(st[t]).kind \in Under, Tip(s).kind \in Under
  PROVE  Fits(k, st2, n, res, aw)
<1> DEFINE a == Tips(st)
           b == Tips(st2)
<1>1. AllBut(a, b, {t}) /\ b[t] = Tip(s) /\ a[t] = Tip(st[t])
  BY ChangedTips, FitsParts
<1>2. ResultsFit(h, a, n, res) /\ n \in 0..MaxFibers
  BY FitsParts
<1>3. Under \subseteq Holders \ {"wake", "pausing"} /\ "idle" \notin Under /\ "ending" \notin Under
  BY DEF Under, Holders, JSKinds
<1> HIDE DEF a, b
<1>4. ASSUME NEW f \in 1..n
      PROVE  IF res[f] = p THEN ResultFits(k, p, Over(b, f))
                           ELSE Over(b, f) = Over(a, f)
  <2>1. res[f] # p
    BY <1>2 DEF ResultsFit, ResultFits
  <2>2. f \in Goroutines
    BY <1>2, Names, BoundsAssumption DEF Fibers
  <2>3. CASE f = t
    BY <1>1, <1>3, <2>1, <2>3 DEF Over
  <2>4. CASE f # t
    BY <1>1, <2>1, <2>2, <2>4 DEF Over, AllBut
  <2>. QED BY <2>3, <2>4
<1>5. ResultsFit(k, b, n, res)
  BY <1>2, <1>4, ResultsKept
<1>6. ResultsFit(k, Tips(st2), n, res)
  BY <1>5 DEF b
<1>7. /\ HeapFits(k, aw) /\ Keeps(h, k)
      /\ \A f \in Fibers : Count(k, Wakes(f)) = Count(h, Wakes(f))
  BY DEF Step, Quiet
<1>. QED BY <1>3, <1>6, <1>7, Onward

-----------------------------------------------------------------------------
(* The steps of AsyncVM: JS and the microtask loop going on. *)

(* What goroutine t is in the middle of. *)
LEMMA DoesTip ==
  ASSUME Inv, NEW t \in Goroutines, NEW kinds, Does(t, kinds)
  PROVE  /\ StackFits(heap, t, stack[t]) /\ stack[t] # <<>>
         /\ Tip(stack[t]) = Top(t) /\ Last(stack[t]) = Top(t)
         /\ Top(t).kind \in kinds /\ Top(t) \in Fitting(heap)
         /\ Tips(stack)[t] = Top(t)
<1>1. StackFits(heap, t, stack[t]) /\ Tips(stack)[t] = Tip(stack[t])
  BY FitsParts DEF Inv
<1>2. stack[t] # <<>> /\ Top(t) = Last(stack[t]) /\ Top(t).kind \in kinds
  BY DEF Does, Busy, Top
<1>. QED BY <1>1, <1>2, TipFacts

(* The heap as it is. *)
LEMMA InvHeap ==
  ASSUME Inv
  PROVE  /\ HeapFits(heap, awaiting)
         /\ heap.made \in Nat /\ heap.made <= MaxProms
         /\ Made(heap) \subseteq Proms
         /\ \A n \in Nat \ {0} : Room(n) => heap.made < MaxProms
<1>1. HeapFits(heap, awaiting)
  BY FitsParts DEF Inv
<1>2. heap \in Heaps(SubRecord, Values) /\ Made(heap) \subseteq Proms
  BY <1>1, HeapParts
<1>3. heap.made \in 0..MaxProms /\ MaxProms \in Nat
  BY <1>2, HeapFields, MaxPromsAssumption
<1>4. \A n \in Nat \ {0} : Room(n) => heap.made < MaxProms
  BY <1>3 DEF Room
<1>. QED BY <1>1, <1>2, <1>3, <1>4

(* An activity that is no callback. *)
LEMMA Plain ==
  ASSUME NEW h, NEW k \in Kinds \ {"callback"}, NEW on \in Nat
  PROVE  /\ Doing(k, on, NoTask) \in Fitting(h)
         /\ Doing(k, on, NoTask).kind = k /\ Doing(k, on, NoTask).on = on
BY DEF Doing, Fitting, Activities

(* The goroutine that runs JS or the loop goes on, and settles no promise of a fiber. *)
LEMMA GoesOn ==
  ASSUME Inv, NEW t \in Goroutines, Does(t, Under),
         NEW s, stack' = [stack EXCEPT ![t] = s], StackFits(heap', t, s), Tip(s).kind \in Under,
         NEW p, Step(heap, heap', awaiting, p), p \in Made(heap) => heap.slot[p].by # "async",
         UNCHANGED <<spawned, result, awaiting>>
  PROVE  Inv'
<1>1. Changes(stack, stack', t, s)
  BY ChangeOne DEF Inv
<1>2. Tip(stack[t]).kind \in Under
  BY DoesTip
<1>3. Fits(heap', stack', spawned, result, awaiting)
  BY <1>1, <1>2, OnwardQuietly DEF Inv
<1>. QED BY <1>3 DEF Inv

(* JS that changes nothing but the heap. *)
LEMMA OperateInv ==
  ASSUME Inv, NEW t \in Goroutines, NEW k, Operate(t, k),
         NEW p, Step(heap, k, awaiting, p), p \in Made(heap) => heap.slot[p].by # "async"
  PROVE  Inv'
<1>1. /\ Does(t, JSKinds) /\ heap' = k /\ stack' = stack
      /\ UNCHANGED <<spawned, result, awaiting>>
  BY DEF Operate
<1>2. Does(t, Under)
  BY <1>1 DEF Does, Under
<1>3. stack' = [stack EXCEPT ![t] = stack[t]]
  <2>1. DOMAIN stack = Goroutines /\ stack = [u \in Goroutines |-> stack[u]]
    BY DEF Inv, Fits
  <2>. QED BY <1>1, <2>1
<1>4. StackFits(heap', t, stack[t]) /\ Tip(stack[t]).kind \in Under
  <2>1. StackFits(heap, t, stack[t]) /\ Keeps(heap, heap') /\ Tip(stack[t]).kind \in Under
    BY <1>1, <1>2, DoesTip DEF Step
  <2>. QED BY <2>1, StackKept
<1>5. Step(heap, heap', awaiting, p)
  BY <1>1
<1>. QED BY <1>1, <1>2, <1>3, <1>4, <1>5, GoesOn

(* new Promise, its resolve and reject functions, then(). *)
LEMMA ScriptInv ==
  ASSUME Inv, NEW t \in Goroutines,
         \/ Construct(t)
         \/ \E p \in Proms : \/ Then(t, p)
                             \/ \E v \in Vals \cup Proms : CallResolve(t, p, v)
                             \/ \E v \in Vals : CallReject(t, p, v)
  PROVE  Inv'
<1>1. ASSUME Construct(t) PROVE Inv'
  <2>1. heap.made < MaxProms /\ Operate(t, NewPromise(heap, "ctor"))
    BY <1>1, InvHeap DEF Construct
  <2>2. Step(heap, NewPromise(heap, "ctor"), awaiting, 0)
    BY <2>1, InvHeap, NewStep DEF Adds
  <2>3. 0 \notin Made(heap)
    BY DEF Made
  <2>. QED BY <2>1, <2>2, <2>3, OperateInv
<1>2. ASSUME NEW p \in Proms, Then(t, p) PROVE Inv'
  <2> DEFINE k == PromiseThen(heap, p, "then", TRUE, TRUE)
  <2>0. Room(1) /\ p \in Made(heap) /\ Operate(t, k)
    BY <1>2 DEF Then
  <2> HIDE DEF k
  <2>1. heap.made < MaxProms
    BY <2>0, InvHeap
  <2>2. Step(heap, k, awaiting, 0)
    BY <2>0, <2>1, InvHeap, ThenStep DEF k
  <2>3. 0 \notin Made(heap)
    BY DEF Made
  <2>. QED BY <2>0, <2>2, <2>3, OperateInv
<1>3. ASSUME NEW p \in Proms, NEW v \in Vals \cup Proms, CallResolve(t, p, v) PROVE Inv'
  <2>1. /\ p \in Made(heap) /\ heap.slot[p].by = "ctor" /\ v \in Vals \cup Made(heap)
        /\ Operate(t, ResolvePromise(heap, p, v))
    BY <1>3 DEF CallResolve
  <2>2. Resolved(heap, ResolvePromise(heap, p, v), awaiting, p, v)
    BY <2>1, InvHeap, ResolveStep DEF Values, Adopters
  <2>3. Step(heap, ResolvePromise(heap, p, v), awaiting, p)
    BY <2>2 DEF Resolved
  <2>. QED BY <2>1, <2>3, OperateInv
<1>4. ASSUME NEW p \in Proms, NEW v \in Vals, CallReject(t, p, v) PROVE Inv'
  <2>1. /\ p \in Made(heap) /\ heap.slot[p].by = "ctor"
        /\ Operate(t, Settle(heap, p, "rejected", v))
    BY <1>4 DEF CallReject, RejectPromise
  <2>2. SettledAt(heap, Settle(heap, p, "rejected", v), awaiting, p)
    BY <2>1, InvHeap, SettleStep DEF Values
  <2>3. Step(heap, Settle(heap, p, "rejected", v), awaiting, p)
    BY <2>2 DEF SettledAt
  <2>. QED BY <2>1, <2>3, OperateInv
<1>. QED BY <1>1, <1>2, <1>3, <1>4

(* Something is put on a stack, of the kinds that go on. *)
LEMMA PushInv ==
  ASSUME Inv, NEW t \in Goroutines, Does(t, Under),
         NEW a, stack' = Push(t, a), a \in Fitting(heap'), a.kind \in Under,
         NEW p, Step(heap, heap', awaiting, p), p \in Made(heap) => heap.slot[p].by # "async",
         UNCHANGED <<spawned, result, awaiting>>
  PROVE  Inv'
<1> DEFINE s == Append(stack[t], a)
<1>1. stack' = [stack EXCEPT ![t] = s]
  BY DEF Push
<1>2. StackFits(heap', t, stack[t]) /\ stack[t] # <<>> /\ Last(stack[t]).kind \in Under
  <2>1. StackFits(heap, t, stack[t]) /\ Keeps(heap, heap')
    BY DoesTip DEF Step
  <2>. QED BY <2>1, DoesTip, StackKept
<1>3. StackFits(heap', t, s) /\ Tip(s).kind \in Under
  BY <1>2, StackPush
<1> HIDE DEF s
<1>. QED BY <1>1, <1>3, GoesOn

(* What is on top is no more, and is not what the stack began with. *)
LEMMA PopInv ==
  ASSUME Inv, NEW t \in Goroutines, Does(t, Under), Top(t).kind \notin Bottoms(t),
         stack' = Pop(t),
         NEW p, Step(heap, heap', awaiting, p), p \in Made(heap) => heap.slot[p].by # "async",
         UNCHANGED <<spawned, result, awaiting>>
  PROVE  Inv'
<1> DEFINE s == Front(stack[t])
<1>1. stack' = [stack EXCEPT ![t] = s]
  BY DEF Pop
<1>2. /\ StackFits(heap', t, stack[t]) /\ stack[t] # <<>>
      /\ Last(stack[t]).kind \notin Bottoms(t)
  <2>1. StackFits(heap, t, stack[t]) /\ Keeps(heap, heap')
    BY DoesTip DEF Step
  <2>. QED BY <2>1, DoesTip, StackKept
<1>3. StackFits(heap', t, s) /\ Tip(s).kind \in Under
  BY <1>2, StackPop
<1> HIDE DEF s
<1>. QED BY <1>1, <1>3, GoesOn

(* Where nothing happens to the heap. *)
LEMMA SameHeap ==
  ASSUME Inv, heap' = heap
  PROVE  Step(heap, heap', awaiting, 0) /\ 0 \notin Made(heap)
BY InvHeap, StepNone DEF Made

(* Native functions, an inline await and the end of the program. *)
LEMMA ActivityInv ==
  ASSUME Inv, NEW t \in Goroutines,
         \/ CallNative(t) \/ NativeEnds(t) \/ ProgramEnds(t)
         \/ \E p \in Proms : AwaitInline(t, p)
  PROVE  Inv'
<1> USE DEF Under, JSKinds
<1>1. ASSUME CallNative(t) PROVE Inv'
  <2>1. /\ Does(t, Under) /\ stack' = Push(t, Doing("native", 0, NoTask))
        /\ heap' = heap /\ UNCHANGED <<spawned, result, awaiting>>
    BY <1>1 DEF CallNative, Does, JS
  <2>2. /\ Doing("native", 0, NoTask) \in Fitting(heap')
        /\ Doing("native", 0, NoTask).kind \in Under
    BY Plain DEF Kinds
  <2>. QED BY <2>1, <2>2, SameHeap, PushInv
<1>2. ASSUME NEW p \in Proms, AwaitInline(t, p) PROVE Inv'
  <2>1. /\ Does(t, Under) /\ stack' = Push(t, Doing("drain", p, NoTask))
        /\ heap' = heap /\ UNCHANGED <<spawned, result, awaiting>>
    BY <1>2 DEF AwaitInline, Does
  <2>2. /\ Doing("drain", p, NoTask) \in Fitting(heap')
        /\ Doing("drain", p, NoTask).kind \in Under
    BY Plain DEF Kinds, Proms
  <2>. QED BY <2>1, <2>2, SameHeap, PushInv
<1>3. ASSUME NativeEnds(t) PROVE Inv'
  <2>1. /\ Does(t, Under) /\ Top(t).kind = "native" /\ stack' = Pop(t)
        /\ heap' = heap /\ UNCHANGED <<spawned, result, awaiting>>
    BY <1>3 DEF NativeEnds, Does
  <2>2. Top(t).kind \notin Bottoms(t)
    BY <2>1 DEF Bottoms
  <2>. QED BY <2>1, <2>2, SameHeap, PopInv
<1>4. ASSUME ProgramEnds(t) PROVE Inv'
  <2> DEFINE a == Doing("drain", 0, NoTask)
             s == Append(Front(stack[t]), a)
  <2>1. /\ Does(t, Under) /\ Does(t, {"program"}) /\ stack' = [stack EXCEPT ![t] = s]
        /\ heap' = heap /\ UNCHANGED <<spawned, result, awaiting>>
    BY <1>4 DEF ProgramEnds, Does, Swap
  <2>2. a \in Fitting(heap) /\ a.kind = "drain"
    BY Plain DEF Kinds
  <2>3. Last(stack[t]).kind = "program"
    BY <2>1, DoesTip
  <2>4. Last(stack[t]).kind \in Bottoms(t) => a.kind \in Bottoms(t)
    BY <2>2, <2>3 DEF Bottoms
  <2> HIDE DEF a
  <2>5. StackFits(heap, t, s) /\ Tip(s) = a
    BY <2>1, <2>2, <2>4, DoesTip, StackSwap
  <2>6. Tip(s).kind \in Under /\ StackFits(heap', t, s)
    BY <2>1, <2>2, <2>5
  <2> HIDE DEF s
  <2>. QED BY <2>1, <2>6, SameHeap, GoesOn
<1>. QED BY <1>1, <1>2, <1>3, <1>4

(* A reaction's JS ends. *)
LEMMA CallbackInv ==
  ASSUME Inv, NEW t \in Goroutines,
         \/ \E v \in Vals \cup Made(heap) : CallbackReturns(t, v)
         \/ \E v \in Vals : CallbackThrows(t, v)
  PROVE  Inv'
<1> DEFINE task == Top(t).task
           p == task.sub.target
<1>1. /\ Does(t, {"callback"}) /\ stack' = Pop(t) /\ UNCHANGED <<spawned, result, awaiting>>
      /\ \/ \E v \in Vals \cup Made(heap) : heap' = CallbackReturned(heap, task, v)
         \/ \E v \in Vals : heap' = CallbackThrew(heap, task, v)
  BY DEF CallbackReturns, CallbackThrows
<1>2. Does(t, Under) /\ Top(t).kind = "callback"
  BY <1>1 DEF Does, Under, JSKinds
<1>3. Top(t).kind \notin Bottoms(t)
  BY <1>2 DEF Bottoms
<1>4. task.sub.kind = "then" /\ SubFits(heap, task.sub)
  BY <1>1, <1>2, DoesTip DEF Fitting
<1> HIDE DEF task
<1>5. p \in Made(heap) /\ heap.slot[p].by = "then" /\ Step(heap, heap', awaiting, p)
  BY <1>1, <1>4, InvHeap, AnswerStep
<1>6. p \in Made(heap) => heap.slot[p].by # "async"
  BY <1>5
<1> HIDE DEF p
<1>. QED BY <1>1, <1>2, <1>3, <1>5, <1>6, PopInv


-----------------------------------------------------------------------------
(* The promises of fibers, when none is touched and no body begins or ends. *)
LEMMA ResultsStay ==
  ASSUME NEW h, NEW k, NEW a, NEW b, NEW n, NEW res, ResultsFit(h, a, n, res), Keeps(h, k),
         \A q \in Made(h) : /\ k.slot[q].state = h.slot[q].state
                            /\ Count(k, Owes(q)) = Count(h, Owes(q)),
         \A f \in 1..n : Over(b, f) = Over(a, f)
  PROVE  ResultsFit(k, b, n, res)
<1>1. ASSUME NEW f \in 1..n PROVE ResultFits(k, res[f], Over(b, f))
  <2>1. ResultFits(h, res[f], Over(a, f)) /\ Over(b, f) = Over(a, f)
    BY DEF ResultsFit
  <2>2. /\ res[f] \in Made(h) /\ res[f] \in Made(k)
        /\ k.slot[res[f]].by = h.slot[res[f]].by
        /\ k.slot[res[f]].state = h.slot[res[f]].state
        /\ Count(k, Owes(res[f])) = Count(h, Owes(res[f]))
    BY <2>1 DEF ResultFits, Keeps
  <2>3. Pending(k, res[f]) <=> Pending(h, res[f])
    BY <2>2 DEF Pending
  <2>. QED BY <2>1, <2>2, <2>3 DEF ResultFits
<1>. QED BY <1>1 DEF ResultsFit

(* A function on the goroutines. *)
IsStacks(st) == DOMAIN st = Goroutines /\ st = [u \in Goroutines |-> st[u]]

(* The invariant put together again. *)
LEMMA Together ==
  ASSUME NEW h, NEW st, NEW n, NEW res, NEW aw, Fits(h, st, n, res, aw),
         NEW k, NEW st2, NEW n2 \in 0..MaxFibers, NEW res2 \in [Fibers -> Proms \cup {0}],
         NEW aw2 \in [Fibers -> Proms \cup {0}],
         Keeps(h, k), HeapFits(k, aw2), IsStacks(st2),
         \A u \in Goroutines : st2[u] = st[u] \/ StackFits(k, u, st2[u]),
         NEW b, b = Tips(st2), TurnFits(b), FibersFit(b, n2, aw2), ServesFit(k, b, aw2),
         WakesFit(k, b, aw2), ResultsFit(k, b, n2, res2)
  PROVE  Fits(k, st2, n2, res2, aw2)
<1>1. ASSUME NEW u \in Goroutines PROVE StackFits(k, u, st2[u])
  <2>1. StackFits(k, u, st[u])
    BY FitsParts, StackKept
  <2>. QED BY <2>1
<1>. QED BY <1>1 DEF Fits, IsStacks

(* st2 is st with stack s for goroutine t and r for f. *)
ChangesTwo(st, st2, t, s, f, r) ==
  /\ IsStacks(st2) /\ st2[t] = s /\ st2[f] = r
  /\ \A u \in Goroutines : u # t /\ u # f => st2[u] = st[u]

(* Two stacks replaced. *)
LEMMA ChangeTwo ==
  ASSUME NEW h, NEW st, NEW n, NEW res, NEW aw, Fits(h, st, n, res, aw),
         NEW t \in Goroutines, NEW f \in Goroutines, t # f, NEW s, NEW r,
         NEW st2, st2 = [st EXCEPT ![t] = s, ![f] = r]
  PROVE  ChangesTwo(st, st2, t, s, f, r)
BY DEF Fits, ChangesTwo, IsStacks

(* The tips, then. *)
TipsTwo(a, b, t, s, f, r) == AllBut(a, b, {t, f}) /\ b[t] = Tip(s) /\ b[f] = Tip(r)

(* They are those that are on top now. *)
LEMMA ChangedTwoTips ==
  ASSUME NEW st, NEW st2, NEW t \in Goroutines, NEW f \in Goroutines, NEW s, NEW r,
         ChangesTwo(st, st2, t, s, f, r)
  PROVE  TipsTwo(Tips(st), Tips(st2), t, s, f, r)
BY DEF ChangesTwo, Tips, AllBut, TipsTwo

(* The parts of the invariant in a state, with a name for the tips. *)
LEMMA InvParts ==
  ASSUME Inv, NEW a, a = Tips(stack)
  PROVE  /\ spawned \in 0..MaxFibers /\ spawned \in Nat
         /\ result \in [Fibers -> Proms \cup {0}] /\ awaiting \in [Fibers -> Proms \cup {0}]
         /\ \A t \in Goroutines : StackFits(heap, t, stack[t])
         /\ TurnFits(a) /\ FibersFit(a, spawned, awaiting) /\ ServesFit(heap, a, awaiting)
         /\ WakesFit(heap, a, awaiting) /\ ResultsFit(heap, a, spawned, result)
<1>1. Fits(heap, stack, spawned, result, awaiting)
  BY DEF Inv
<1>2. result \in [Fibers -> Proms \cup {0}] /\ awaiting \in [Fibers -> Proms \cup {0}]
  BY <1>1 DEF Fits
<1>. QED BY <1>1, <1>2, FitsParts

(* No goroutine serves a wake-up while another one has the turn. *)
LEMMA NobodyServes ==
  ASSUME NEW a, TurnFits(a), NEW t \in Goroutines, a[t].kind \in Holders, a[t].kind # "wake"
  PROVE  \A u \in Goroutines : a[u].kind # "wake"
<1>1. "wake" \in Holders
  BY DEF Holders
<1>. QED BY <1>1 DEF TurnFits

-----------------------------------------------------------------------------
(* drainMicrotasks. *)

(* The loop calls the JS of a reaction. *)
LEMMA CallsInv ==
  ASSUME Inv, NEW t \in Goroutines, Does(t, {"drain"}), NEW task,
         Taken(heap, heap', awaiting, task), task.sub.kind # "wake", CallsJS(task),
         stack' = Push(t, Doing("callback", 0, task)), UNCHANGED <<spawned, result, awaiting>>
  PROVE  Inv'
<1> DEFINE p == task.sub.target
           a == Doing("callback", 0, task)
<1>1. TaskFits(heap', awaiting, task) /\ SubFits(heap', task.sub) /\ task \in TaskRecord
  BY DEF Taken, TaskFits
<1>2. task.sub.kind = "then"
  <2>1. task.sub.kind \in {"then", "adopt", "wake"}
    BY <1>1 DEF SubFits, SubRecord
  <2>2. task.sub.kind # "adopt"
    <3>1. SUFFICES ASSUME task.sub.kind = "adopt" PROVE FALSE
      OBVIOUS
    <3>2. task.sub = Adopt(p)
      BY <1>1, <3>1 DEF SubFits
    <3>3. ~ task.sub.onF /\ ~ task.sub.onR
      BY <3>2 DEF Adopt, Sub
    <3>. QED BY <3>3 DEF CallsJS
  <2>. QED BY <2>1, <2>2
<1>3. p \in Made(heap) => heap.slot[p].by # "async"
  BY <1>1, <1>2 DEF SubFits, Taken
<1>4. Step(heap, heap', awaiting, p)
  BY InvHeap, TakenStep
<1>5. a \in Fitting(heap') /\ a.kind = "callback"
  BY <1>1, <1>2 DEF Doing, Fitting, Activities, Kinds, JSKinds
<1>6. a.kind \in Under /\ Does(t, Under)
  BY <1>5 DEF Under, JSKinds, Does
<1> HIDE DEF a, p
<1>7. stack' = Push(t, a)
  BY DEF a
<1>. QED BY <1>3, <1>4, <1>5, <1>6, <1>7, PushInv

(* The loop passes a settlement on. *)
LEMMA PassesInv ==
  ASSUME Inv, NEW t \in Goroutines, Does(t, {"drain"}), NEW task, NEW h,
         Taken(heap, h, awaiting, task), task.sub.kind # "wake",
         heap' = PassOn(h, task), stack' = stack, UNCHANGED <<spawned, result, awaiting>>
  PROVE  Inv'
<1> DEFINE p == task.sub.target
           a == Tips(stack)
<1>1. /\ TaskFits(h, awaiting, task) /\ HeapFits(h, awaiting) /\ OneMore(h, heap, task.sub)
      /\ HeapFits(heap, awaiting)
  BY InvHeap DEF Taken
<1>2. p \in Made(h) /\ Passed(h, heap', awaiting, p)
  BY <1>1, PassStep
<1>3. Step(heap, heap', awaiting, p)
  <2>1. Step(heap, h, awaiting, p)
    BY InvHeap, TakenStep
  <2>. QED BY <1>2, <2>1, StepTransitive DEF Passed
<1>4. Count(heap, Owes(p)) = Count(h, Owes(p)) + 1 /\ Count(h, Owes(p)) \in Nat
  <2>1. task.sub \in Owes(p)
    BY <1>1 DEF TaskFits, SubFits, Owes
  <2>2. h \in Heaps(SubRecord, Values)
    BY <1>1, HeapParts
  <2>. QED BY <1>1, <2>1, <2>2, CountFacts DEF OneMore
<1>5. ~ Pending(heap', p) /\ Count(heap', Owes(p)) = Count(h, Owes(p))
  BY <1>2 DEF Passed
<1> HIDE DEF p
<1>6. ResultsFit(heap, a, spawned, result)
  BY InvParts
<1> HIDE DEF a
<1>7. ASSUME NEW f \in 1..spawned
      PROVE  IF result[f] = p THEN ResultFits(heap', p, Over(a, f))
                              ELSE Over(a, f) = Over(a, f)
  <2>1. SUFFICES ASSUME result[f] = p PROVE ResultFits(heap', p, Over(a, f))
    OBVIOUS
  <2>2. ResultFits(heap, p, Over(a, f))
    BY <1>6, <2>1 DEF ResultsFit
  <2>3. Count(heap, Owes(p)) # 0
    BY <1>4
  <2>4. Over(a, f)
    BY <2>2, <2>3 DEF ResultFits
  <2>5. Count(heap, Owes(p)) = 1
    BY <2>2, <2>3, <2>4 DEF ResultFits
  <2>6. Count(heap', Owes(p)) = 0
    BY <1>4, <1>5, <2>5
  <2>7. p \in Made(heap') /\ heap'.slot[p].by = "async"
    BY <1>3, <2>2 DEF ResultFits, Step, Keeps
  <2>. QED BY <1>5, <2>4, <2>6, <2>7 DEF ResultFits
<1>8. ResultsFit(heap', a, spawned, result)
  BY <1>3, <1>6, <1>7, ResultsKept
<1>9. /\ StackFits(heap', t, stack[t]) /\ Tip(stack[t]).kind \in Holders \ {"wake", "pausing"}
      /\ Changes(stack, stack, t, stack[t])
  <2>1. StackFits(heap, t, stack[t]) /\ Tip(stack[t]).kind = "drain"
    BY DoesTip
  <2>2. StackFits(heap', t, stack[t])
    BY <1>3, <2>1, StackKept DEF Step
  <2>3. Changes(stack, stack, t, stack[t])
    BY ChangeOne DEF Inv
  <2>. QED BY <2>1, <2>2, <2>3 DEF Holders
<1>10. /\ HeapFits(heap', awaiting) /\ Keeps(heap, heap')
       /\ \A f \in Fibers : Count(heap', Wakes(f)) = Count(heap, Wakes(f))
  BY <1>3 DEF Step, Quiet
<1>11. ResultsFit(heap', Tips(stack), spawned, result)
  BY <1>8 DEF a
<1>12. Fits(heap', stack, spawned, result, awaiting)
  BY <1>9, <1>10, <1>11, Onward DEF Inv
<1>. QED BY <1>12 DEF Inv

(* The tips when goroutine t gets another stack. *)
LEMMA NewTips ==
  ASSUME Inv, NEW t \in Goroutines, NEW s, stack' = [stack EXCEPT ![t] = s]
  PROVE  /\ IsStacks(stack') /\ stack'[t] = s
         /\ \A u \in Goroutines : u # t => stack'[u] = stack[u]
         /\ Tips(stack)[t] = Tip(stack[t])
         /\ AllBut(Tips(stack), Tips(stack'), {t}) /\ Tips(stack')[t] = Tip(s)
<1>1. Changes(stack, stack', t, s)
  BY ChangeOne DEF Inv
<1>2. AllBut(Tips(stack), Tips(stack'), {t}) /\ Tips(stack')[t] = Tip(s)
  BY <1>1, ChangedTips
<1>3. Tips(stack)[t] = Tip(stack[t])
  BY DEF Tips
<1>. QED BY <1>1, <1>2, <1>3 DEF Changes, IsStacks

(* The loop begins to serve a wake-up: the fiber awaits, so it has parked. *)
LEMMA ServeInv ==
  ASSUME Inv, NEW t \in Goroutines, Does(t, {"drain"}), NEW task,
         Taken(heap, heap', awaiting, task), task.sub.kind = "wake",
         stack' = Push(t, Doing("wake", task.sub.target, task)),
         UNCHANGED <<spawned, result, awaiting>>
  PROVE  Inv'
<1> DEFINE f == task.sub.target
           w == Doing("wake", f, task)
           s == Append(stack[t], w)
           a == Tips(stack)
           b == Tips(stack')
<1> USE Names
<1>1. /\ TaskFits(heap', awaiting, task) /\ task \in TaskRecord
      /\ OneMore(heap', heap, task.sub) /\ Keeps(heap, heap') /\ HeapFits(heap', awaiting)
      /\ \A q \in Made(heap) : heap'.slot[q].state = heap.slot[q].state
  BY DEF Taken
<1>2. f \in Fibers /\ awaiting[f] = task.src /\ awaiting[f] # 0
  <2>1. task.src # 0
    BY <1>1 DEF TaskFits, Made
  <2>. QED BY <1>1, <2>1 DEF TaskFits, SubFits, SrcFits
<1>3. task.sub \in Wakes(f)
  BY <1>1 DEF TaskFits, SubFits, Wakes
<1>4. w \in Fitting(heap') /\ w.kind = "wake" /\ w.on = f /\ w.task = task
  BY <1>1, <1>2 DEF Doing, Fitting, Activities, Kinds, Fibers
<1>5. stack' = [stack EXCEPT ![t] = s]
  BY DEF Push
<1> HIDE DEF w, f
<1>6. StackFits(heap', t, s) /\ Tip(s) = w /\ Tip(stack[t]).kind = "drain"
  <2>1. StackFits(heap, t, stack[t]) /\ stack[t] # <<>> /\ Last(stack[t]).kind = "drain"
        /\ Tip(stack[t]).kind = "drain"
    BY DoesTip
  <2>2. StackFits(heap', t, stack[t])
    BY <1>1, <2>1, StackKept
  <2>3. Last(stack[t]).kind \in Under
    BY <2>1 DEF Under
  <2>. QED BY <1>4, <2>1, <2>2, <2>3, StackPush
<1>7. /\ IsStacks(stack') /\ stack'[t] = s
      /\ \A u \in Goroutines : u # t => stack'[u] = stack[u]
  BY <1>5, NewTips
<1>8. AllBut(a, b, {t}) /\ b[t] = w /\ a[t].kind = "drain"
  BY <1>5, <1>6, NewTips
<1> HIDE DEF s
<1>9. /\ spawned \in 0..MaxFibers /\ result \in [Fibers -> Proms \cup {0}]
      /\ awaiting \in [Fibers -> Proms \cup {0}]
      /\ TurnFits(a) /\ FibersFit(a, spawned, awaiting) /\ ServesFit(heap, a, awaiting)
      /\ WakesFit(heap, a, awaiting) /\ ResultsFit(heap, a, spawned, result)
  BY InvParts
<1>10. b = Tips(stack')
  OBVIOUS
<1> HIDE DEF a, b
<1>11. \A u \in Goroutines : u # t => b[u] = a[u]
  BY <1>8 DEF AllBut
<1>12. "drain" \in Holders /\ "wake" \in Holders /\ "pausing" \in Holders
  BY DEF Holders
<1>13. a[f].kind = "parked"
  <2>1. a[f].kind \in {"pausing", "parked"}
    BY <1>2, <1>9 DEF FibersFit
  <2>2. a[f].kind # "pausing"
    BY <1>2, <1>8, <1>9, <1>12 DEF TurnFits
  <2>. QED BY <2>1, <2>2
<1>14. TurnFits(b)
  BY <1>2, <1>4, <1>8, <1>9, <1>12, <1>13, TurnStays
<1>15. \A u \in Goroutines : a[u].kind # "wake"
  BY <1>8, <1>9, <1>12, NobodyServes
<1>16. \A u \in Goroutines : b[u].kind = "wake" => u = t
  BY <1>11, <1>15
<1>17. FibersFit(b, spawned, awaiting)
  <2>1. ASSUME NEW g \in Fibers
        PROVE  /\ g > spawned => b[g].kind = "idle"
               /\ awaiting[g] # 0 <=> b[g].kind \in {"pausing", "parked"}
    <3>1. /\ g > spawned => a[g].kind = "idle"
          /\ awaiting[g] # 0 <=> a[g].kind \in {"pausing", "parked"}
      BY <1>9 DEF FibersFit
    <3>2. CASE g # t
      BY <1>11, <3>1, <3>2
    <3>3. CASE g = t
      BY <1>4, <1>8, <3>1, <3>3
    <3>. QED BY <3>2, <3>3
  <2>. QED BY <2>1 DEF FibersFit
<1>18. ServesFit(heap', b, awaiting)
  <2>1. /\ b[t].task \in TaskRecord /\ awaiting[b[t].on] = b[t].task.src
        /\ b[t].task.src \in Made(heap') /\ SideFits(heap', b[t].task.src, b[t].task.ok)
    BY <1>1, <1>2, <1>4, <1>8 DEF TaskFits
  <2>. QED BY <1>16, <2>1 DEF ServesFit
<1>19. WakesFit(heap', b, awaiting)
  <2>1. \A g \in Fibers : ~ Served(a, g)
    BY <1>15 DEF Served
  <2>2. \A g \in Fibers : Served(b, g) <=> g = f
    BY <1>4, <1>8, <1>16 DEF Served
  <2>3. ASSUME NEW g \in Fibers
        PROVE  Count(heap', Wakes(g)) = IF awaiting[g] # 0 /\ ~ Served(b, g) THEN 1 ELSE 0
    <3>1. heap' \in Heaps(SubRecord, Values)
      BY <1>1, HeapParts
    <3>2. Count(heap', Wakes(g)) \in Nat
      BY <3>1, CountFacts
    <3>3. Count(heap, Wakes(g)) = IF awaiting[g] # 0 THEN 1 ELSE 0
      BY <1>9, <2>1 DEF WakesFit
    <3>4. CASE g = f
      <4>1. Count(heap, Wakes(g)) = Count(heap', Wakes(g)) + 1
        BY <1>1, <1>3, <3>4 DEF OneMore
      <4>. QED BY <1>2, <2>2, <3>2, <3>3, <3>4, <4>1
    <3>5. CASE g # f
      <4>1. task.sub \notin Wakes(g)
        BY <1>3, <3>5 DEF Wakes
      <4>2. Count(heap, Wakes(g)) = Count(heap', Wakes(g)) + 0
        BY <1>1, <4>1 DEF OneMore
      <4>. QED BY <2>2, <3>2, <3>3, <3>5, <4>2
    <3>. QED BY <3>4, <3>5
  <2>. QED BY <2>3 DEF WakesFit
<1>20. ResultsFit(heap', b, spawned, result)
  <2>1. ASSUME NEW q \in Made(heap) PROVE Count(heap', Owes(q)) = Count(heap, Owes(q))
    <3>1. heap' \in Heaps(SubRecord, Values)
      BY <1>1, HeapParts
    <3>2. Count(heap', Owes(q)) \in Nat
      BY <3>1, CountFacts
    <3>3. task.sub \notin Owes(q)
      BY DEF Owes
    <3>4. Count(heap, Owes(q)) = Count(heap', Owes(q)) + 0
      BY <1>1, <3>3 DEF OneMore
    <3>. QED BY <3>2, <3>4
  <2>2. ASSUME NEW g \in 1..spawned PROVE Over(b, g) = Over(a, g)
    <3>1. g \in Goroutines
      BY <1>9, BoundsAssumption DEF Fibers
    <3>2. CASE g = t
      BY <1>4, <1>8, <3>2 DEF Over
    <3>3. CASE g # t
      BY <1>11, <3>1, <3>3 DEF Over
    <3>. QED BY <3>2, <3>3
  <2>. QED BY <1>1, <1>9, <2>1, <2>2, ResultsStay
<1>21. IsStacks(stack') /\ \A u \in Goroutines : stack'[u] = stack[u] \/ StackFits(heap', u, stack'[u])
  BY <1>6, <1>7
<1>22. Fits(heap', stack', spawned, result, awaiting)
  BY <1>1, <1>9, <1>10, <1>14, <1>17, <1>18, <1>19, <1>20, <1>21, Together DEF Inv
<1>. QED BY <1>22 DEF Inv

(* One turn of the loop. *)
LEMMA DrainOneInv ==
  ASSUME Inv, NEW t \in Goroutines, DrainOne(t)
  PROVE  Inv'
<1> DEFINE task == Head(heap.queue)
           h == [heap EXCEPT !.queue = Tail(@)]
<1>1. /\ Does(t, {"drain"}) /\ heap.queue # <<>> /\ UNCHANGED <<spawned, result, awaiting>>
      /\ \/ /\ task.sub.kind = "wake" /\ heap' = h
            /\ stack' = Push(t, Doing("wake", task.sub.target, task))
         \/ /\ task.sub.kind # "wake" /\ CallsJS(task) /\ heap' = h
            /\ stack' = Push(t, Doing("callback", 0, task))
         \/ /\ task.sub.kind # "wake" /\ ~ CallsJS(task)
            /\ heap' = PassOn(h, task) /\ stack' = stack
  BY DEF DrainOne
<1>2. Taken(heap, h, awaiting, task)
  BY <1>1, InvHeap, TakeStep
<1> HIDE DEF task, h
<1>3. CASE /\ task.sub.kind = "wake" /\ heap' = h
           /\ stack' = Push(t, Doing("wake", task.sub.target, task))
  BY <1>1, <1>2, <1>3, ServeInv
<1>4. CASE /\ task.sub.kind # "wake" /\ CallsJS(task) /\ heap' = h
           /\ stack' = Push(t, Doing("callback", 0, task))
  BY <1>1, <1>2, <1>4, CallsInv
<1>5. CASE /\ task.sub.kind # "wake" /\ heap' = PassOn(h, task) /\ stack' = stack
  BY <1>1, <1>2, <1>5, PassesInv
<1>. QED BY <1>1, <1>3, <1>4, <1>5

(* Nothing is left of the main goroutine's stack, or something new is there. *)
LEMMA MainInv ==
  ASSUME Inv, NEW s, stack' = [stack EXCEPT ![Main] = s], StackFits(heap', Main, s),
         Step(heap, heap', awaiting, 0), TurnFits(Tips(stack')),
         Tip(s).kind # "wake", Tip(stack[Main]).kind # "wake",
         UNCHANGED <<spawned, result, awaiting>>
  PROVE  Inv'
<1> DEFINE a == Tips(stack)
           b == Tips(stack')
<1> USE Names
<1>1. Changes(stack, stack', Main, s)
  BY ChangeOne DEF Inv
<1>2. AllBut(a, b, {Main}) /\ b[Main] = Tip(s) /\ a[Main] = Tip(stack[Main])
  <2>1. AllBut(a, b, {Main}) /\ b[Main] = Tip(s)
    BY <1>1, ChangedTips
  <2>2. a[Main] = Tip(stack[Main])
    BY DEF Tips
  <2>. QED BY <2>1, <2>2
<1>3. /\ spawned \in 0..MaxFibers /\ result \in [Fibers -> Proms \cup {0}]
      /\ awaiting \in [Fibers -> Proms \cup {0}]
      /\ FibersFit(a, spawned, awaiting) /\ ServesFit(heap, a, awaiting)
      /\ WakesFit(heap, a, awaiting) /\ ResultsFit(heap, a, spawned, result)
  BY InvParts
<1>4. b = Tips(stack') /\ TurnFits(b)
  OBVIOUS
<1> HIDE DEF a, b
<1>5. \A u \in Goroutines : u # Main => b[u] = a[u]
  BY <1>2 DEF AllBut
<1>6. \A f \in Fibers : b[f] = a[f]
  BY <1>5
<1>7. /\ Keeps(heap, heap') /\ HeapFits(heap', awaiting)
      /\ \A f \in Fibers : Count(heap', Wakes(f)) = Count(heap, Wakes(f))
      /\ \A q \in Made(heap) : /\ heap'.slot[q].state = heap.slot[q].state
                               /\ Count(heap', Owes(q)) = Count(heap, Owes(q))
  <2>1. \A q \in Made(heap) : q # 0
    BY DEF Made
  <2>. QED BY <2>1 DEF Step, Quiet
<1>8. \A u \in Goroutines : a[u].kind = "wake" \/ b[u].kind = "wake" => b[u] = a[u]
  BY <1>2, <1>5
<1>9. FibersFit(b, spawned, awaiting)
  BY <1>3, <1>6 DEF FibersFit
<1>10. ServesFit(heap', b, awaiting)
  BY <1>3, <1>7, <1>8, ServesKept
<1>11. WakesFit(heap', b, awaiting)
  BY <1>3, <1>7, <1>8, WakesKept
<1>12. ResultsFit(heap', b, spawned, result)
  <2>1. ASSUME NEW g \in 1..spawned PROVE Over(b, g) = Over(a, g)
    <3>1. g \in Fibers
      BY <1>3, BoundsAssumption DEF Fibers
    <3>. QED BY <1>6, <3>1 DEF Over
  <2>. QED BY <1>3, <1>7, <2>1, ResultsStay
<1>13. IsStacks(stack') /\ \A u \in Goroutines : stack'[u] = stack[u] \/ StackFits(heap', u, stack'[u])
  BY <1>1 DEF Changes, IsStacks
<1>14. Fits(heap', stack', spawned, result, awaiting)
  BY <1>3, <1>4, <1>7, <1>9, <1>10, <1>11, <1>12, <1>13, Together DEF Inv
<1>. QED BY <1>14 DEF Inv

(* RunChunk starts, on an empty stack. *)
LEMMA EvalInv ==
  ASSUME Inv, EvalStarts
  PROVE  Inv'
<1> DEFINE e == JS("program")
           s == Append(stack[Main], e)
<1> USE Names
<1>1. /\ stack[Main] = <<>> /\ stack' = [stack EXCEPT ![Main] = s] /\ heap' = heap
      /\ UNCHANGED <<spawned, result, awaiting>>
  BY DEF EvalStarts, Busy, Push
<1>2. e \in Fitting(heap) /\ e.kind = "program"
  BY Plain DEF JS, Kinds, JSKinds
<1> HIDE DEF e
<1>3. StackFits(heap, Main, s) /\ Tip(s) = e
  <2>1. stack[Main] \in Seq(Fitting(heap)) /\ Len(stack[Main]) = 0
    BY <1>1, EmptySeq
  <2>2. s \in Seq(Fitting(heap)) /\ Len(s) = 1 /\ s[1] = e
    BY <1>2, <2>1, AppendProperties
  <2> HIDE DEF s
  <2>3. s # <<>> /\ Tip(s) = e
    <3>1. s # <<>>
      BY <2>2, EmptySeq
    <3>2. Last(s) = e
      BY <2>2 DEF Last
    <3>. QED BY <3>1, <3>2 DEF Tip
  <2>4. \A i \in 1..Len(s) : i < Len(s) => s[i].kind \in Under
    BY <2>2
  <2>. QED BY <1>2, <2>2, <2>3, <2>4 DEF StackFits, Bottoms
<1> HIDE DEF s
<1>4. Tip(stack[Main]) = Idle
  BY <1>1 DEF Tip
<1>5. TurnFits(Tips(stack'))
  <2>1. AllBut(Tips(stack), Tips(stack'), {Main}) /\ Tips(stack')[Main] = e
    <3>1. Changes(stack, stack', Main, s)
      BY <1>1, ChangeOne DEF Inv
    <3>2. AllBut(Tips(stack), Tips(stack'), {Main}) /\ Tips(stack')[Main] = Tip(s)
      BY <3>1, ChangedTips
    <3>. QED BY <1>3, <3>2
  <2>2. Tips(stack)[Main].kind = "idle" /\ TurnFits(Tips(stack))
    BY <1>4, InvParts DEF Tips, Idle
  <2>. QED BY <1>2, <2>1, <2>2, TurnStarts
<1>6. Step(heap, heap', awaiting, 0) /\ StackFits(heap', Main, s)
  BY <1>1, <1>3, SameHeap
<1>7. Tip(s).kind # "wake" /\ Tip(stack[Main]).kind # "wake"
  BY <1>2, <1>3, <1>4 DEF Idle
<1>. QED BY <1>1, <1>5, <1>6, <1>7, MainInv

(* The loop has emptied the queue. *)
LEMMA DrainEndsInv ==
  ASSUME Inv, NEW t \in Goroutines, DrainEnds(t)
  PROVE  Inv'
<1> DEFINE s == Front(stack[t])
<1> USE Names
<1>1. /\ Does(t, {"drain"}) /\ heap' = Reported(heap) /\ stack' = [stack EXCEPT ![t] = s]
      /\ UNCHANGED <<spawned, result, awaiting>>
  BY DEF DrainEnds, Pop
<1>2. Step(heap, heap', awaiting, 0)
  <2>1. Marks(heap, heap')
    BY <1>1, InvHeap, MarkReported
  <2>. QED BY <2>1, InvHeap, MarkStep
<1>3. /\ StackFits(heap', t, stack[t]) /\ stack[t] # <<>> /\ Last(stack[t]).kind = "drain"
      /\ Tip(stack[t]).kind = "drain" /\ Does(t, Under)
  <2>1. /\ StackFits(heap, t, stack[t]) /\ stack[t] # <<>> /\ Last(stack[t]).kind = "drain"
        /\ Tip(stack[t]).kind = "drain"
    BY <1>1, DoesTip
  <2>2. StackFits(heap', t, stack[t])
    BY <1>2, <2>1, StackKept DEF Step
  <2>3. Does(t, Under)
    BY <1>1 DEF Does, Under
  <2>. QED BY <2>1, <2>2, <2>3
<1>4. /\ StackFits(heap', t, s)
      /\ "drain" \notin Bottoms(t) => s # <<>>
      /\ s # <<>> => Tip(s).kind \in Under
  BY <1>3, StackPop
<1> HIDE DEF s
<1>5. CASE s # <<>>
  <2>1. 0 \notin Made(heap)
    BY DEF Made
  <2>. QED BY <1>1, <1>2, <1>3, <1>4, <1>5, <2>1, GoesOn
<1>6. CASE s = <<>>
  <2>1. t = Main
    BY <1>4, <1>6 DEF Bottoms
  <2>2. Tip(s) = Idle
    BY <1>6 DEF Tip
  <2>3. TurnFits(Tips(stack'))
    <3>1. AllBut(Tips(stack), Tips(stack'), {Main}) /\ Tips(stack')[Main] = Idle
      <4>1. Changes(stack, stack', Main, s)
        BY <1>1, <2>1, ChangeOne DEF Inv
      <4>2. AllBut(Tips(stack), Tips(stack'), {Main}) /\ Tips(stack')[Main] = Tip(s)
        BY <4>1, ChangedTips
      <4>. QED BY <2>2, <4>2
    <3>2. Tips(stack)[Main].kind = "drain" /\ TurnFits(Tips(stack))
      BY <1>3, <2>1, InvParts DEF Tips
    <3>3. "drain" \in Holders /\ Idle.kind = "idle"
      BY DEF Holders, Idle
    <3>. QED BY <3>1, <3>2, <3>3, TurnEnds
  <2>4. Tip(s).kind # "wake" /\ Tip(stack[Main]).kind # "wake"
    BY <1>3, <2>1, <2>2 DEF Idle
  <2>. QED BY <1>1, <1>2, <1>4, <2>1, <2>3, <2>4, MainInv
<1>. QED BY <1>5, <1>6

-----------------------------------------------------------------------------
(* The body of a fiber ends, and what it leaves is fine for its promise. *)
LEMMA BodyEndsInv ==
  ASSUME Inv, NEW f \in Fibers, Does(f, {"body"}),
         stack' = Swap(f, Doing("ending", f, NoTask)), UNCHANGED <<spawned, result, awaiting>>,
         Pending(heap, result[f]) /\ Count(heap, Owes(result[f])) = 0 =>
           Step(heap, heap', awaiting, result[f]) /\ ResultFits(heap', result[f], TRUE)
  PROVE  Inv'
<1> DEFINE e == Doing("ending", f, NoTask)
           s == Append(Front(stack[f]), e)
           r == result[f]
           a == Tips(stack)
           b == Tips(stack')
<1> USE Names
<1>1. stack' = [stack EXCEPT ![f] = s] /\ f \in Goroutines
  BY DEF Swap
<1>2. e \in Fitting(heap') /\ e.kind = "ending"
  <2>1. f \in Nat /\ "ending" \in Kinds \ {"callback"}
    BY BoundsAssumption DEF Kinds, Fibers
  <2>. QED BY <2>1, Plain
<1> HIDE DEF e
<1>3. StackFits(heap, f, stack[f]) /\ Tip(stack[f]).kind = "body" /\ stack[f] # <<>>
      /\ Last(stack[f]).kind = "body"
  BY <1>1, DoesTip
<1>4. a[f].kind = "body" /\ AllBut(a, b, {f}) /\ b[f] = Tip(s)
  BY <1>1, <1>3, NewTips
<1>5. spawned \in 0..MaxFibers /\ FibersFit(a, spawned, awaiting) /\ ResultsFit(heap, a, spawned, result)
  BY InvParts
<1>6. b = Tips(stack')
  OBVIOUS
<1> HIDE DEF a, b
<1>7. f \in 1..spawned
  <2>1. ~ (f > spawned)
    BY <1>4, <1>5 DEF FibersFit
  <2>. QED BY <1>5, <2>1, BoundsAssumption DEF Fibers
<1>8. Step(heap, heap', awaiting, r) /\ ResultFits(heap', r, TRUE)
  <2>1. ~ Over(a, f)
    BY <1>4 DEF Over
  <2>. QED BY <1>5, <1>7, <2>1 DEF ResultsFit, ResultFits
<1>9. StackFits(heap', f, s) /\ Tip(s) = e
  <2>1. StackFits(heap', f, stack[f])
    BY <1>3, <1>8, StackKept DEF Step
  <2>2. e.kind \in Bottoms(f)
    BY <1>2 DEF Bottoms
  <2>. QED BY <1>2, <1>3, <2>1, <2>2, StackSwap
<1> HIDE DEF s, r
<1>10. ASSUME NEW g \in 1..spawned
       PROVE  IF result[g] = r THEN ResultFits(heap', r, Over(b, g))
                               ELSE Over(b, g) = Over(a, g)
  <2>1. CASE g = f
    <3>1. Over(b, g) = TRUE
      BY <1>2, <1>4, <1>9, <2>1 DEF Over
    <3>. QED BY <1>8, <2>1, <3>1 DEF r
  <2>2. CASE g # f
    <3>1. result[g] # r
      BY <1>5, <1>7, <2>2 DEF ResultsFit, r
    <3>2. g \in Goroutines
      BY <1>5, BoundsAssumption DEF Fibers
    <3>3. b[g] = a[g]
      BY <1>4, <2>2, <3>2 DEF AllBut
    <3>. QED BY <3>1, <3>3 DEF Over
  <2>. QED BY <2>1, <2>2
<1>11. ResultsFit(heap', b, spawned, result)
  BY <1>5, <1>8, <1>10, ResultsKept
<1>12. ResultsFit(heap', Tips(stack'), spawned, result)
  BY <1>6, <1>11
<1>13. /\ Tip(stack[f]).kind \in Holders \ {"wake", "pausing"}
       /\ Tip(s).kind \in Holders \ {"wake", "pausing"}
  BY <1>2, <1>3, <1>9 DEF Holders, JSKinds
<1>14. /\ HeapFits(heap', awaiting) /\ Keeps(heap, heap')
       /\ \A g \in Fibers : Count(heap', Wakes(g)) = Count(heap, Wakes(g))
  BY <1>8 DEF Step, Quiet
<1>15. Changes(stack, stack', f, s)
  BY <1>1, ChangeOne DEF Inv
<1>16. Fits(heap', stack', spawned, result, awaiting)
  BY <1>1, <1>9, <1>12, <1>13, <1>14, <1>15, Onward DEF Inv
<1>. QED BY <1>16 DEF Inv

(* The promise of a fiber that runs. *)
LEMMA BodyOwns ==
  ASSUME Inv, NEW f \in Fibers, Does(f, {"body"})
  PROVE  result[f] \in Made(heap) /\ heap.slot[result[f]].by = "async"
<1> DEFINE a == Tips(stack)
<1>1. a[f].kind = "body"
  BY DoesTip, Names
<1>2. spawned \in 0..MaxFibers /\ FibersFit(a, spawned, awaiting) /\ ResultsFit(heap, a, spawned, result)
  BY InvParts
<1> HIDE DEF a
<1>3. f \in 1..spawned
  <2>1. ~ (f > spawned)
    BY <1>1, <1>2 DEF FibersFit
  <2>. QED BY <1>2, <2>1, BoundsAssumption DEF Fibers
<1>. QED BY <1>2, <1>3 DEF ResultsFit, ResultFits

(* By a value or by an exception. *)
LEMMA BodyInv ==
  ASSUME Inv, NEW f \in Fibers,
         \/ \E v \in Vals \cup Made(heap) : BodyReturns(f, v)
         \/ \E v \in Vals : BodyThrows(f, v)
  PROVE  Inv'
<1> DEFINE r == result[f]
<1>1. ASSUME NEW v \in Vals \cup Made(heap), BodyReturns(f, v) PROVE Inv'
  <2>1. /\ Does(f, {"body"}) /\ stack' = Swap(f, Doing("ending", f, NoTask))
        /\ UNCHANGED <<spawned, result, awaiting>>
        /\ v \notin Proms => Room(1)
        /\ heap' = ResolvePromise(Wrapped(heap, v), r, Wrapper(heap, v))
    BY <1>1 DEF BodyReturns, Wrapped, Wrapper
  <2>2. v \notin Proms => heap.made < MaxProms
    BY <2>1, InvHeap
  <2>3. ASSUME r \in Made(heap), heap.slot[r].by = "async", Pending(heap, r),
               Count(heap, Owes(r)) = 0
        PROVE  Step(heap, heap', awaiting, r) /\ ResultFits(heap', r, TRUE)
    <3> HIDE DEF r
    <3>1. Awaits(heap, heap', awaiting, r)
      BY <2>1, <2>2, <2>3, InvHeap, ReturnStep
    <3>2. r \in Made(heap') /\ heap'.slot[r].by = "async"
      BY <2>3, <3>1 DEF Awaits, Step, Keeps
    <3>. QED BY <2>3, <3>1, <3>2 DEF Awaits, ResultFits
  <2>4. Does(f, {"body"}) /\ f \in Goroutines
    BY <2>1, Names
  <2>5. r \in Made(heap) /\ heap.slot[r].by = "async"
    BY <2>4, BodyOwns
  <2>. QED BY <2>1, <2>3, <2>5, BodyEndsInv
<1>2. ASSUME NEW v \in Vals, BodyThrows(f, v) PROVE Inv'
  <2>1. /\ Does(f, {"body"}) /\ stack' = Swap(f, Doing("ending", f, NoTask))
        /\ UNCHANGED <<spawned, result, awaiting>>
        /\ heap' = Settle(heap, r, "rejected", v)
    BY <1>2 DEF BodyThrows, RejectPromise
  <2>2. r \in Made(heap) /\ heap.slot[r].by = "async"
    BY <2>1, Names, BodyOwns
  <2> HIDE DEF r
  <2>3. SettledAt(heap, heap', awaiting, r)
    BY <2>1, <2>2, InvHeap, SettleStep DEF Values
  <2>4. ASSUME Count(heap, Owes(r)) = 0
        PROVE  Step(heap, heap', awaiting, r) /\ ResultFits(heap', r, TRUE)
    <3>1. r \in Made(heap') /\ heap'.slot[r].by = "async"
      BY <2>2, <2>3 DEF SettledAt, Step, Keeps
    <3>. QED BY <2>3, <2>4, <3>1 DEF SettledAt, SameCounts, ResultFits
  <2>. QED BY <2>1, <2>4, BodyEndsInv DEF r
<1>. QED BY <1>1, <1>2

-----------------------------------------------------------------------------
(* The fibers. *)

(* await of a pending promise in a fiber: one subscription more, and the fiber
   is about to pause. *)
LEMMA AwaitInv ==
  ASSUME Inv, NEW f \in Fibers, NEW p \in Proms, AwaitInFiber(f, p)
  PROVE  Inv'
<1> DEFINE w == Doing("pausing", f, NoTask)
           s == Append(stack[f], w)
           sub == Sub("wake", f, FALSE, FALSE, 0)
           aw2 == [awaiting EXCEPT ![f] = p]
           a == Tips(stack)
           b == Tips(stack')
<1> USE Names
<1>1. /\ Does(f, {"body"}) /\ p \in Made(heap) /\ heap' = ThenOnSettled(heap, p, sub)
      /\ awaiting' = aw2 /\ stack' = [stack EXCEPT ![f] = s]
      /\ UNCHANGED <<spawned, result>> /\ f \in Goroutines
  BY DEF AwaitInFiber, Push
<1>2. sub \in SubRecord /\ sub.kind = "wake" /\ sub.target = f /\ p # 0
  BY BoundsAssumption DEF Sub, SubRecord, Fibers, Proms
<1> HIDE DEF sub
<1>3. w \in Fitting(heap') /\ w.kind = "pausing"
  <2>1. f \in Nat /\ "pausing" \in Kinds \ {"callback"}
    BY BoundsAssumption DEF Kinds, Fibers
  <2>. QED BY <2>1, Plain
<1> HIDE DEF w
<1>4. StackFits(heap, f, stack[f]) /\ Tip(stack[f]).kind = "body" /\ stack[f] # <<>>
      /\ Last(stack[f]).kind \in Under
  <2>1. StackFits(heap, f, stack[f]) /\ Tip(stack[f]).kind = "body" /\ stack[f] # <<>>
        /\ Last(stack[f]).kind = "body"
    BY <1>1, DoesTip
  <2>. QED BY <2>1 DEF Under, JSKinds
<1>5. /\ spawned \in 0..MaxFibers /\ result \in [Fibers -> Proms \cup {0}]
      /\ awaiting \in [Fibers -> Proms \cup {0}]
      /\ TurnFits(a) /\ FibersFit(a, spawned, awaiting) /\ ServesFit(heap, a, awaiting)
      /\ WakesFit(heap, a, awaiting) /\ ResultsFit(heap, a, spawned, result)
  BY InvParts
<1>6. /\ aw2 \in [Fibers -> Proms \cup {0}] /\ aw2[f] = p
      /\ \A g \in Fibers : g # f => aw2[g] = awaiting[g]
  BY <1>5
<1> HIDE DEF aw2
<1>7. /\ a[f].kind = "body" /\ AllBut(a, b, {f}) /\ b[f] = Tip(s)
      /\ IsStacks(stack') /\ stack'[f] = s
      /\ \A u \in Goroutines : u # f => stack'[u] = stack[u]
  BY <1>1, <1>4, NewTips
<1>8. b = Tips(stack')
  OBVIOUS
<1> HIDE DEF a, b
<1>9. "body" \in Holders /\ "pausing" \in Holders
  BY DEF Holders, JSKinds
<1>10. \A u \in Goroutines : u # f => b[u] = a[u]
  BY <1>7 DEF AllBut
<1>11. \A u \in Goroutines : a[u].kind # "wake"
  BY <1>1, <1>5, <1>7, <1>9, NobodyServes
<1>12. Count(heap, Wakes(f)) = 0
  <2>1. awaiting[f] = 0
    BY <1>5, <1>7 DEF FibersFit
  <2>. QED BY <1>5, <2>1 DEF WakesFit
<1>13. HeapFits(heap, aw2)
  BY <1>6, <1>12, InvHeap, AwaitChanges
<1>14. Joins(heap, heap', aw2, p, sub)
  <2>1. SubFits(heap, sub) /\ SrcFits(aw2, sub, p)
    BY <1>2, <1>6 DEF SubFits, SrcFits
  <2>. QED BY <1>1, <1>13, <2>1, SubscribeStep
<1>15. /\ HeapFits(heap', aw2) /\ Keeps(heap, heap')
       /\ \A q \in Made(heap) : heap'.slot[q].state = heap.slot[q].state
       /\ OneMore(heap, heap', sub)
  BY <1>14 DEF Joins
<1>16. StackFits(heap', f, s) /\ Tip(s) = w
  <2>1. StackFits(heap', f, stack[f])
    BY <1>4, <1>15, StackKept
  <2>. QED BY <1>3, <1>4, <2>1, StackPush
<1> HIDE DEF s
<1>17. b[f].kind = "pausing"
  BY <1>3, <1>7, <1>16
<1>18. TurnFits(b)
  BY <1>1, <1>5, <1>7, <1>9, <1>17, TurnStays
<1>19. \A u \in Goroutines : b[u].kind # "wake"
  BY <1>10, <1>11, <1>17
<1>20. FibersFit(b, spawned, aw2)
  <2>1. ASSUME NEW g \in Fibers
        PROVE  /\ g > spawned => b[g].kind = "idle"
               /\ aw2[g] # 0 <=> b[g].kind \in {"pausing", "parked"}
    <3>1. /\ g > spawned => a[g].kind = "idle"
          /\ awaiting[g] # 0 <=> a[g].kind \in {"pausing", "parked"}
      BY <1>5 DEF FibersFit
    <3>2. CASE g # f
      BY <1>6, <1>10, <3>1, <3>2
    <3>3. CASE g = f
      BY <1>2, <1>6, <1>7, <1>17, <3>1, <3>3
    <3>. QED BY <3>2, <3>3
  <2>. QED BY <2>1 DEF FibersFit
<1>21. ServesFit(heap', b, aw2)
  BY <1>19 DEF ServesFit
<1>22. WakesFit(heap', b, aw2)
  <2>1. \A g \in Fibers : ~ Served(b, g) /\ ~ Served(a, g)
    BY <1>11, <1>19 DEF Served
  <2>2. ASSUME NEW g \in Fibers
        PROVE  Count(heap', Wakes(g)) = IF aw2[g] # 0 /\ ~ Served(b, g) THEN 1 ELSE 0
    <3>1. CASE g = f
      <4>1. Count(heap', Wakes(f)) = Count(heap, Wakes(f)) + 1
        BY <1>2, <1>15 DEF OneMore, Wakes
      <4>. QED BY <1>2, <1>6, <1>12, <2>1, <3>1, <4>1
    <3>2. CASE g # f
      <4>1. Count(heap, Wakes(g)) = IF aw2[g] # 0 THEN 1 ELSE 0
        BY <1>5, <1>6, <2>1, <3>2 DEF WakesFit
      <4>2. sub \notin Wakes(g)
        BY <1>2, <3>2 DEF Wakes
      <4>3. Count(heap', Wakes(g)) = Count(heap, Wakes(g)) + 0
        BY <1>15, <4>2 DEF OneMore
      <4>. QED BY <2>1, <4>1, <4>3
    <3>. QED BY <3>1, <3>2
  <2>. QED BY <2>2 DEF WakesFit
<1>23. ResultsFit(heap', b, spawned, result)
  <2>1. ASSUME NEW q \in Made(heap) PROVE Count(heap', Owes(q)) = Count(heap, Owes(q))
    <3>1. Count(heap, Owes(q)) \in Nat
      BY InvHeap, HeapParts, CountFacts
    <3>2. sub \notin Owes(q)
      BY <1>2 DEF Owes
    <3>3. Count(heap', Owes(q)) = Count(heap, Owes(q)) + 0
      BY <1>15, <3>2 DEF OneMore
    <3>. QED BY <3>1, <3>3
  <2>2. ASSUME NEW g \in 1..spawned PROVE Over(b, g) = Over(a, g)
    <3>1. g \in Goroutines
      BY <1>5, BoundsAssumption DEF Fibers
    <3>2. CASE g = f
      BY <1>7, <1>17, <3>2 DEF Over
    <3>3. CASE g # f
      BY <1>10, <3>1, <3>3 DEF Over
    <3>. QED BY <3>2, <3>3
  <2>. QED BY <1>5, <1>15, <2>1, <2>2, ResultsStay
<1>24. \A u \in Goroutines : stack'[u] = stack[u] \/ StackFits(heap', u, stack'[u])
  BY <1>7, <1>16
<1>25. Fits(heap', stack', spawned, result, aw2)
  BY <1>5, <1>6, <1>7, <1>8, <1>15, <1>18, <1>20, <1>21, <1>22, <1>23, <1>24, Together DEF Inv
<1>. QED BY <1>1, <1>25 DEF Inv

(* The tips when two goroutines get other stacks. *)
LEMMA NewTwoTips ==
  ASSUME Inv, NEW t \in Goroutines, NEW f \in Goroutines, t # f, NEW s, NEW r,
         stack' = [stack EXCEPT ![t] = s, ![f] = r]
  PROVE  /\ ChangesTwo(stack, stack', t, s, f, r)
         /\ TipsTwo(Tips(stack), Tips(stack'), t, s, f, r)
<1>1. ChangesTwo(stack, stack', t, s, f, r)
  BY ChangeTwo DEF Inv
<1>2. TipsTwo(Tips(stack), Tips(stack'), t, s, f, r)
  BY <1>1, ChangedTwoTips
<1>. QED BY <1>1, <1>2

(* The stack of a fiber that starts. *)
LEMMA BodyStack ==
  ASSUME NEW h, NEW f \in Fibers
  PROVE  StackFits(h, f, <<JS("body")>>) /\ Tip(<<JS("body")>>).kind = "body"
<1> DEFINE e == JS("body")
           s == <<e>>
<1>1. e \in Fitting(h) /\ e.kind = "body"
  <2>1. "body" \in Kinds \ {"callback"} /\ 0 \in Nat
    BY DEF Kinds, JSKinds
  <2>. QED BY <2>1, Plain DEF JS
<1> HIDE DEF e
<1>2. s \in Seq(Fitting(h)) /\ Len(s) = 1 /\ s[1] = e /\ s # <<>>
  BY <1>1
<1> HIDE DEF s
<1>3. Tip(s) = e
  BY <1>2 DEF Tip, Last
<1>4. StackFits(h, f, s)
  <2>1. s[1].kind \in Bottoms(f)
    BY <1>1, <1>2, Names DEF Bottoms
  <2>2. \A i \in 1..Len(s) : i < Len(s) => s[i].kind \in Under
    BY <1>2
  <2>. QED BY <1>2, <2>1, <2>2 DEF StackFits
<1>5. StackFits(h, f, s) /\ Tip(s).kind = "body"
  BY <1>1, <1>3, <1>4
<1>. QED BY <1>5 DEF s, e

(* An async function is called: a promise more, and a fiber that owes it. *)
LEMMA SpawnInv ==
  ASSUME Inv, NEW t \in Goroutines, RunAsyncFiber(t)
  PROVE  Inv'
<1> DEFINE f == spawned + 1
           w == Doing("spawn", f, NoTask)
           s == Append(stack[t], w)
           r == <<JS("body")>>
           q == heap'.made
           res2 == [result EXCEPT ![f] = q]
           a == Tips(stack)
           b == Tips(stack')
<1> USE Names
<1>1. /\ Does(t, JSKinds) /\ f \in Fibers /\ Room(1) /\ heap' = NewPendingPromise(heap)
      /\ spawned' = f /\ result' = res2 /\ stack' = [stack EXCEPT ![t] = s, ![f] = r]
      /\ UNCHANGED awaiting /\ f \in Goroutines
  BY DEF RunAsyncFiber, Newest
<1>2. Adds(heap, heap', awaiting, "async")
  <2>1. heap.made < MaxProms
    BY <1>1, InvHeap
  <2>. QED BY <1>1, <2>1, InvHeap, PendingPromiseStep
<1>3. /\ Step(heap, heap', awaiting, 0) /\ q \in Made(heap') /\ q \notin Made(heap)
      /\ q \in Proms /\ heap'.slot[q].by = "async" /\ Pending(heap', q)
      /\ Count(heap', Owes(q)) = 0
  BY <1>2 DEF Adds
<1>4. /\ Keeps(heap, heap') /\ HeapFits(heap', awaiting)
      /\ \A g \in Fibers : Count(heap', Wakes(g)) = Count(heap, Wakes(g))
      /\ \A p \in Made(heap) : /\ heap'.slot[p].state = heap.slot[p].state
                               /\ Count(heap', Owes(p)) = Count(heap, Owes(p))
  <2>1. \A p \in Made(heap) : p # 0
    BY DEF Made
  <2>. QED BY <1>3, <2>1 DEF Step, Quiet
<1>5. StackFits(heap', f, r) /\ Tip(r).kind = "body"
  BY <1>1, BodyStack
<1>6. w \in Fitting(heap') /\ w.kind = "spawn" /\ w.on = f
  <2>1. f \in Nat /\ "spawn" \in Kinds \ {"callback"}
    BY <1>1, BoundsAssumption DEF Kinds, Fibers
  <2>. QED BY <2>1, Plain
<1> HIDE DEF w, r
<1>7. StackFits(heap, t, stack[t]) /\ Tip(stack[t]).kind \in JSKinds /\ stack[t] # <<>>
      /\ Last(stack[t]).kind \in Under
  <2>1. StackFits(heap, t, stack[t]) /\ Tip(stack[t]).kind \in JSKinds /\ stack[t] # <<>>
        /\ Last(stack[t]).kind \in JSKinds
    BY <1>1, DoesTip
  <2>. QED BY <2>1 DEF Under
<1>8. StackFits(heap', t, s) /\ Tip(s) = w
  <2>1. StackFits(heap', t, stack[t])
    BY <1>4, <1>7, StackKept
  <2>. QED BY <1>6, <1>7, <2>1, StackPush
<1> HIDE DEF s
<1>9. /\ spawned \in 0..MaxFibers /\ result \in [Fibers -> Proms \cup {0}] /\ spawned \in Nat
      /\ awaiting \in [Fibers -> Proms \cup {0}]
      /\ TurnFits(a) /\ FibersFit(a, spawned, awaiting) /\ ServesFit(heap, a, awaiting)
      /\ WakesFit(heap, a, awaiting) /\ ResultsFit(heap, a, spawned, result)
  BY InvParts
<1>10. a[f] = Tip(stack[f]) /\ a[t] = Tip(stack[t])
  BY <1>1 DEF Tips
<1>11. b = Tips(stack')
  OBVIOUS
<1>12. a[f].kind = "idle"
  <2>1. f > spawned
    BY <1>9
  <2> HIDE DEF f, a
  <2>. QED BY <1>1, <1>9, <2>1 DEF FibersFit
<1>13. JSKinds \subseteq Holders /\ "idle" \notin JSKinds /\ "wake" \notin JSKinds
       /\ "pausing" \notin JSKinds /\ "parked" \notin JSKinds /\ "ending" \notin JSKinds
  BY DEF JSKinds, Holders
<1>14. t # f
  BY <1>7, <1>10, <1>12, <1>13
<1> HIDE DEF f
<1>15. /\ AllBut(a, b, {t, f}) /\ b[t] = w /\ b[f].kind = "body" /\ IsStacks(stack')
       /\ stack'[t] = s /\ stack'[f] = r
       /\ \A u \in Goroutines : u # t /\ u # f => stack'[u] = stack[u]
  <2>1. ChangesTwo(stack, stack', t, s, f, r)
    BY <1>1, <1>14, NewTwoTips
  <2>2. TipsTwo(Tips(stack), Tips(stack'), t, s, f, r)
    BY <1>1, <1>14, NewTwoTips
  <2>3. TipsTwo(a, b, t, s, f, r)
    BY <2>2
  <2> HIDE DEF a, b
  <2>. QED BY <1>5, <1>8, <2>1, <2>3 DEF ChangesTwo, TipsTwo
<1>16. a[t].kind \in JSKinds
  BY <1>7, <1>10
<1>17. /\ f \in 0..MaxFibers /\ res2 \in [Fibers -> Proms \cup {0}] /\ res2[f] = q
       /\ \A g \in 1..spawned : res2[g] = result[g] /\ g # f /\ g \in Goroutines
       /\ \A g \in 1..f : g = f \/ g \in 1..spawned
       /\ \A g \in Fibers : g > f => g > spawned /\ g # f
  BY <1>1, <1>3, <1>9, BoundsAssumption DEF Fibers, f
<1> HIDE DEF a, b, q, res2
<1>18. \A u \in Goroutines : u # t /\ u # f => b[u] = a[u]
  BY <1>15 DEF AllBut
<1>19. TurnFits(b)
  BY <1>1, <1>6, <1>9, <1>12, <1>13, <1>15, <1>16, TurnSpawns
<1>20. \A u \in Goroutines : a[u].kind # "wake"
  BY <1>9, <1>13, <1>16, NobodyServes
<1>21. \A u \in Goroutines : b[u].kind # "wake"
  BY <1>6, <1>15, <1>18, <1>20
<1>22. FibersFit(b, f, awaiting)
  <2>1. ASSUME NEW g \in Fibers
        PROVE  /\ g > f => b[g].kind = "idle"
               /\ awaiting[g] # 0 <=> b[g].kind \in {"pausing", "parked"}
    <3>1. /\ g > spawned => a[g].kind = "idle"
          /\ awaiting[g] # 0 <=> a[g].kind \in {"pausing", "parked"}
      BY <1>9 DEF FibersFit
    <3>2. CASE g # t /\ g # f
      BY <1>17, <1>18, <3>1, <3>2
    <3>3. CASE g = t
      BY <1>6, <1>13, <1>15, <1>16, <1>17, <3>1, <3>3
    <3>4. CASE g = f
      BY <1>12, <1>15, <1>17, <3>1, <3>4
    <3>. QED BY <3>2, <3>3, <3>4
  <2>. QED BY <2>1 DEF FibersFit
<1>23. ServesFit(heap', b, awaiting)
  BY <1>21 DEF ServesFit
<1>24. WakesFit(heap', b, awaiting)
  BY <1>4, <1>9, <1>20, <1>21, WakesKept
<1>25. ResultsFit(heap', b, f, res2)
  <2>1. ResultsFit(heap', b, spawned, result)
    <3>1. ASSUME NEW g \in 1..spawned PROVE Over(b, g) = Over(a, g)
      <4>1. CASE g = t
        BY <1>6, <1>13, <1>15, <1>16, <4>1 DEF Over
      <4>2. CASE g # t
        BY <1>17, <1>18, <4>2 DEF Over
      <4>. QED BY <4>1, <4>2
    <3>. QED BY <1>4, <1>9, <3>1, ResultsStay
  <2>2. ResultFits(heap', q, Over(b, f))
    <3>1. Over(b, f) = FALSE
      BY <1>15 DEF Over
    <3>. QED BY <1>3, <3>1 DEF ResultFits
  <2>3. ASSUME NEW g \in 1..f PROVE ResultFits(heap', res2[g], Over(b, g))
    BY <1>17, <2>1, <2>2 DEF ResultsFit
  <2>4. \A g \in 1..spawned : result[g] # q
    BY <1>3, <1>9 DEF ResultsFit, ResultFits
  <2>5. ASSUME NEW g \in 1..f, NEW e \in 1..f, res2[g] = res2[e] PROVE g = e
    <3>1. \A i, j \in 1..spawned : result[i] = result[j] => i = j
      BY <1>9 DEF ResultsFit
    <3>. QED BY <1>17, <2>4, <2>5, <3>1
  <2>. QED BY <2>3, <2>5 DEF ResultsFit
<1>26. \A u \in Goroutines : stack'[u] = stack[u] \/ StackFits(heap', u, stack'[u])
  BY <1>5, <1>8, <1>15
<1>27. Fits(heap', stack', f, res2, awaiting)
  BY <1>4, <1>9, <1>11, <1>15, <1>17, <1>19, <1>22, <1>23, <1>24, <1>25, <1>26, Together DEF Inv
<1>. QED BY <1>1, <1>27 DEF Inv

(* The fiber that is resumed goes on where it was: there is a body, or what it
   called, below the wait. *)
LEMMA ResumeInv ==
  ASSUME Inv, NEW t \in Goroutines, NEW f \in Fibers, ResumeArrives(t, f)
  PROVE  Inv'
<1> DEFINE w == Doing("woken", f, NoTask)
           s == Append(Front(stack[t]), w)
           r == Front(stack[f])
           aw2 == [awaiting EXCEPT ![f] = 0]
           a == Tips(stack)
           b == Tips(stack')
<1> USE Names
<1>1. /\ Does(t, {"wake"}) /\ Top(t).on = f /\ Does(f, {"parked"}) /\ heap' = heap
      /\ awaiting' = aw2 /\ UNCHANGED <<spawned, result>> /\ f \in Goroutines
  BY DEF ResumeArrives
<1>2. /\ StackFits(heap, t, stack[t]) /\ stack[t] # <<>> /\ Last(stack[t]) = Top(t)
      /\ Top(t).kind = "wake" /\ a[t] = Top(t)
  BY <1>1, DoesTip
<1>3. /\ StackFits(heap, f, stack[f]) /\ stack[f] # <<>> /\ Last(stack[f]).kind = "parked"
      /\ a[f].kind = "parked"
  BY <1>1, DoesTip
<1>4. t # f
  BY <1>2, <1>3
<1>5. stack' = [stack EXCEPT ![t] = s, ![f] = r]
  <2>1. stack' = [[stack EXCEPT ![t] = s] EXCEPT ![f] = Front(@)]
    BY DEF ResumeArrives, Swap
  <2>2. [stack EXCEPT ![t] = s][f] = stack[f]
    BY <1>4
  <2>. QED BY <2>1, <2>2
<1>6. w \in Fitting(heap) /\ w.kind = "woken" /\ w.on = f
  <2>1. f \in Nat /\ "woken" \in Kinds \ {"callback"}
    BY BoundsAssumption DEF Kinds, Fibers
  <2>. QED BY <2>1, Plain
<1> HIDE DEF w
<1>7. StackFits(heap, t, s) /\ Tip(s) = w
  <2>1. Last(stack[t]).kind \notin Bottoms(t)
    BY <1>2 DEF Bottoms
  <2>. QED BY <1>2, <1>6, <2>1, StackSwap
<1>8. StackFits(heap, f, r) /\ Tip(r).kind \in Under
  <2>1. Last(stack[f]).kind \notin Bottoms(f)
    BY <1>3 DEF Bottoms
  <2>. QED BY <1>3, <2>1, StackPop
<1> HIDE DEF s, r
<1>9. ChangesTwo(stack, stack', t, s, f, r)
  BY <1>1, <1>4, <1>5, NewTwoTips
<1>10. TipsTwo(a, b, t, s, f, r)
  BY <1>1, <1>4, <1>5, NewTwoTips
<1>11. /\ spawned \in 0..MaxFibers /\ result \in [Fibers -> Proms \cup {0}]
       /\ awaiting \in [Fibers -> Proms \cup {0}]
       /\ TurnFits(a) /\ FibersFit(a, spawned, awaiting) /\ ServesFit(heap, a, awaiting)
       /\ WakesFit(heap, a, awaiting) /\ ResultsFit(heap, a, spawned, result)
  BY InvParts
<1>12. /\ aw2 \in [Fibers -> Proms \cup {0}] /\ aw2[f] = 0
       /\ \A g \in Fibers : g # f => aw2[g] = awaiting[g]
  BY <1>11
<1>13. b = Tips(stack')
  OBVIOUS
<1> HIDE DEF a, b, aw2
<1>14. /\ a[t].kind = "wake" /\ a[t].on = f /\ a[f].kind = "parked"
       /\ AllBut(a, b, {t, f}) /\ b[t].kind = "woken" /\ b[t].on = f /\ b[f].kind \in Under
  BY <1>1, <1>2, <1>3, <1>6, <1>7, <1>8, <1>10 DEF TipsTwo
<1>15. \A u \in Goroutines : u # t /\ u # f => b[u] = a[u]
  BY <1>14 DEF AllBut
<1>16. "wake" \in Holders /\ "wake" \notin Under /\ "idle" \notin Under /\ "pausing" \notin Under
       /\ "parked" \notin Under /\ "ending" \notin Under
  BY DEF Holders, Under, JSKinds
<1>17. TurnFits(b)
  BY <1>1, <1>11, <1>14, TurnResumes
<1>18. \A u \in Goroutines : a[u].kind = "wake" => u = t
  BY <1>11, <1>14, <1>16 DEF TurnFits
<1>19. \A u \in Goroutines : b[u].kind # "wake"
  BY <1>14, <1>15, <1>16, <1>18
<1>20. Count(heap, Wakes(f)) = 0
  <2>1. Served(a, f)
    BY <1>14 DEF Served
  <2>. QED BY <1>11, <2>1 DEF WakesFit
<1>21. HeapFits(heap, aw2)
  BY <1>12, <1>20, InvHeap, AwaitChanges
<1>22. FibersFit(b, spawned, aw2)
  <2>1. ASSUME NEW g \in Fibers
        PROVE  /\ g > spawned => b[g].kind = "idle"
               /\ aw2[g] # 0 <=> b[g].kind \in {"pausing", "parked"}
    <3>1. /\ g > spawned => a[g].kind = "idle"
          /\ awaiting[g] # 0 <=> a[g].kind \in {"pausing", "parked"}
      BY <1>11 DEF FibersFit
    <3>2. CASE g # t /\ g # f
      BY <1>12, <1>15, <3>1, <3>2
    <3>3. CASE g = t
      BY <1>4, <1>12, <1>14, <3>1, <3>3
    <3>4. CASE g = f
      BY <1>12, <1>14, <1>16, <3>1, <3>4
    <3>. QED BY <3>2, <3>3, <3>4
  <2>. QED BY <2>1 DEF FibersFit
<1>23. ServesFit(heap, b, aw2)
  BY <1>19 DEF ServesFit
<1>24. WakesFit(heap, b, aw2)
  <2>1. \A g \in Fibers : ~ Served(b, g)
    BY <1>19 DEF Served
  <2>2. ASSUME NEW g \in Fibers, g # f PROVE Count(heap, Wakes(g)) = IF aw2[g] # 0 THEN 1 ELSE 0
    <3>1. ~ Served(a, g)
      BY <1>14, <1>18, <2>2 DEF Served
    <3>. QED BY <1>11, <1>12, <2>2, <3>1 DEF WakesFit
  <2>. QED BY <1>12, <1>20, <2>1, <2>2 DEF WakesFit
<1>25. Keeps(heap, heap)
  BY DEF Keeps
<1>26. ResultsFit(heap, b, spawned, result)
  <2>1. ASSUME NEW g \in 1..spawned PROVE Over(b, g) = Over(a, g)
    <3>1. g \in Goroutines
      BY <1>11, BoundsAssumption DEF Fibers
    <3>2. CASE g = t
      BY <1>14, <3>2 DEF Over
    <3>3. CASE g = f
      BY <1>14, <1>16, <3>3 DEF Over
    <3>4. CASE g # t /\ g # f
      BY <1>15, <3>1, <3>4 DEF Over
    <3>. QED BY <3>2, <3>3, <3>4
  <2>. QED BY <1>11, <1>25, <2>1, ResultsStay
<1>27. IsStacks(stack') /\ \A u \in Goroutines : stack'[u] = stack[u] \/ StackFits(heap, u, stack'[u])
  BY <1>7, <1>8, <1>9 DEF ChangesTwo
<1>28. Fits(heap, stack', spawned, result, aw2)
  BY <1>11, <1>12, <1>13, <1>17, <1>21, <1>22, <1>23, <1>24, <1>25, <1>26, <1>27, Together DEF Inv
<1>. QED BY <1>1, <1>28 DEF Inv

(* A fiber pauses, or has ended: whoever waits for that goes on. *)
LEMMA PauseInv ==
  ASSUME Inv, NEW t \in Goroutines, NEW f \in Fibers, PauseArrives(t, f)
  PROVE  Inv'
<1> DEFINE s == Front(stack[t])
           a == Tips(stack)
           b == Tips(stack')
<1> USE Names
<1>1. /\ Does(t, Partners) /\ Top(t).on = f /\ heap' = heap
      /\ UNCHANGED <<spawned, result, awaiting>> /\ f \in Goroutines
      /\ Does(f, {"pausing", "ending"})
  BY DEF PauseArrives, Partners, Does
<1>2. /\ StackFits(heap, t, stack[t]) /\ stack[t] # <<>> /\ Last(stack[t]) = Top(t)
      /\ Top(t).kind \in Partners /\ a[t] = Top(t)
  BY <1>1, DoesTip
<1>3. /\ StackFits(heap, f, stack[f]) /\ stack[f] # <<>>
      /\ Last(stack[f]) = Top(f) /\ a[f] = Top(f) /\ Top(f).kind \in {"pausing", "ending"}
  BY <1>1, DoesTip
<1>4. t # f
  BY <1>2, <1>3 DEF Partners
<1>5. \E r : /\ stack' = [stack EXCEPT ![t] = s, ![f] = r]
             /\ StackFits(heap, f, r)
             /\ \/ a[f].kind = "pausing" /\ Tip(r).kind = "parked"
                \/ a[f].kind = "ending" /\ Tip(r).kind = "idle"
  <2> DEFINE w == Doing("parked", f, NoTask)
             r1 == Append(Front(stack[f]), w)
  <2>1. [stack EXCEPT ![t] = s][f] = stack[f]
    BY <1>4
  <2>2. \/ /\ Does(f, {"pausing"})
           /\ stack' = [[stack EXCEPT ![t] = s] EXCEPT ![f] = Append(Front(@), w)]
        \/ /\ Does(f, {"ending"})
           /\ stack' = [[stack EXCEPT ![t] = s] EXCEPT ![f] = <<>>]
    BY DEF PauseArrives, Pop
  <2>3. CASE /\ Does(f, {"pausing"})
             /\ stack' = [[stack EXCEPT ![t] = s] EXCEPT ![f] = Append(Front(@), w)]
    <3>1. stack' = [stack EXCEPT ![t] = s, ![f] = r1]
      BY <2>1, <2>3
    <3>2. w \in Fitting(heap) /\ w.kind = "parked"
      <4>1. f \in Nat /\ "parked" \in Kinds \ {"callback"}
        BY BoundsAssumption DEF Kinds, Fibers
      <4>. QED BY <4>1, Plain
    <3> HIDE DEF w
    <3>3. Top(f).kind = "pausing"
      BY <2>3 DEF Does
    <3>4. Last(stack[f]).kind \notin Bottoms(f)
      BY <1>3, <3>3 DEF Bottoms
    <3>5. StackFits(heap, f, r1) /\ Tip(r1) = w
      BY <1>3, <3>2, <3>4, StackSwap
    <3>6. a[f].kind = "pausing"
      BY <1>3, <3>3
    <3> HIDE DEF r1
    <3>. QED BY <3>1, <3>2, <3>5, <3>6
  <2>4. CASE /\ Does(f, {"ending"})
             /\ stack' = [[stack EXCEPT ![t] = s] EXCEPT ![f] = <<>>]
    <3>1. stack' = [stack EXCEPT ![t] = s, ![f] = <<>>]
      BY <2>4
    <3>2. StackFits(heap, f, <<>>) /\ Tip(<<>>).kind = "idle"
      BY DEF StackFits, Tip, Idle
    <3>3. a[f].kind = "ending"
      BY <1>3, <2>4 DEF Does
    <3>. QED BY <3>1, <3>2, <3>3
  <2>. QED BY <2>2, <2>3, <2>4
<1>6. PICK r : /\ stack' = [stack EXCEPT ![t] = s, ![f] = r]
               /\ StackFits(heap, f, r)
               /\ \/ a[f].kind = "pausing" /\ Tip(r).kind = "parked"
                  \/ a[f].kind = "ending" /\ Tip(r).kind = "idle"
  BY <1>5
<1>7. StackFits(heap, t, s) /\ Tip(s).kind \in Under
  <2>1. Last(stack[t]).kind \notin Bottoms(t)
    BY <1>2 DEF Bottoms, Partners
  <2>. QED BY <1>2, <2>1, StackPop
<1> HIDE DEF s
<1>8. ChangesTwo(stack, stack', t, s, f, r)
  BY <1>1, <1>4, <1>6, NewTwoTips
<1>9. TipsTwo(a, b, t, s, f, r)
  BY <1>1, <1>4, <1>6, NewTwoTips
<1>10. /\ spawned \in 0..MaxFibers /\ result \in [Fibers -> Proms \cup {0}]
       /\ awaiting \in [Fibers -> Proms \cup {0}]
       /\ TurnFits(a) /\ FibersFit(a, spawned, awaiting) /\ ServesFit(heap, a, awaiting)
       /\ WakesFit(heap, a, awaiting) /\ ResultsFit(heap, a, spawned, result)
  BY InvParts
<1>11. b = Tips(stack')
  OBVIOUS
<1> HIDE DEF a, b
<1>12. /\ a[t].kind \in Partners /\ a[t].on = f
       /\ AllBut(a, b, {t, f}) /\ b[t].kind \in Under
       /\ \/ a[f].kind = "pausing" /\ b[f].kind = "parked"
          \/ a[f].kind = "ending" /\ b[f].kind = "idle"
  BY <1>1, <1>2, <1>6, <1>7, <1>9 DEF TipsTwo
<1>13. \A u \in Goroutines : u # t /\ u # f => b[u] = a[u]
  BY <1>12 DEF AllBut
<1>14. /\ "pausing" \in Holders /\ "ending" \in Holders /\ "wake" \notin Partners
       /\ "wake" \notin Under /\ "idle" \notin Under /\ "pausing" \notin Under
       /\ "parked" \notin Under /\ "ending" \notin Under /\ "idle" \notin Partners
       /\ "pausing" \notin Partners /\ "parked" \notin Partners /\ "ending" \notin Partners
  BY DEF Holders, Under, JSKinds, Partners
<1>15. TurnFits(b)
  <2>1. a[f].kind \in {"pausing", "ending"} /\ b[f].kind \in Asleep
    BY <1>12 DEF Asleep
  <2>. QED BY <1>1, <1>10, <1>12, <2>1, TurnPauses
<1>16. \A u \in Goroutines : a[u].kind = "wake" \/ b[u].kind = "wake" => b[u] = a[u]
  BY <1>12, <1>13, <1>14
<1>17. FibersFit(b, spawned, awaiting)
  <2>1. ASSUME NEW g \in Fibers
        PROVE  /\ g > spawned => b[g].kind = "idle"
               /\ awaiting[g] # 0 <=> b[g].kind \in {"pausing", "parked"}
    <3>1. /\ g > spawned => a[g].kind = "idle"
          /\ awaiting[g] # 0 <=> a[g].kind \in {"pausing", "parked"}
      BY <1>10 DEF FibersFit
    <3>2. CASE g # t /\ g # f
      BY <1>13, <3>1, <3>2
    <3>3. CASE g = t
      BY <1>12, <1>14, <3>1, <3>3
    <3>4. CASE g = f
      BY <1>12, <3>1, <3>4
    <3>. QED BY <3>2, <3>3, <3>4
  <2>. QED BY <2>1 DEF FibersFit
<1>18. Keeps(heap, heap)
  BY DEF Keeps
<1>19. ServesFit(heap, b, awaiting)
  BY <1>10, <1>16, <1>18, ServesKept
<1>20. WakesFit(heap, b, awaiting)
  BY <1>10, <1>16, WakesKept
<1>21. ResultsFit(heap, b, spawned, result)
  <2>1. ASSUME NEW g \in 1..spawned PROVE Over(b, g) = Over(a, g)
    <3>1. g \in Goroutines
      BY <1>10, BoundsAssumption DEF Fibers
    <3>2. CASE g = t
      BY <1>12, <1>14, <3>2 DEF Over
    <3>3. CASE g = f
      BY <1>12, <3>3 DEF Over
    <3>4. CASE g # t /\ g # f
      BY <1>13, <3>1, <3>4 DEF Over
    <3>. QED BY <3>2, <3>3, <3>4
  <2>. QED BY <1>10, <1>18, <2>1, ResultsStay
<1>22. IsStacks(stack') /\ \A u \in Goroutines : stack'[u] = stack[u] \/ StackFits(heap, u, stack'[u])
  BY <1>6, <1>7, <1>8 DEF ChangesTwo
<1>23. HeapFits(heap, awaiting)
  BY InvHeap
<1>24. Fits(heap, stack', spawned, result, awaiting)
  BY <1>10, <1>11, <1>15, <1>17, <1>18, <1>19, <1>20, <1>21, <1>22, <1>23, Together DEF Inv
<1>. QED BY <1>1, <1>24 DEF Inv

-----------------------------------------------------------------------------
(* The invariant is inductive. *)

(* It holds at the start. *)
LEMMA InitInv ==
  ASSUME Init
  PROVE  Inv
<1> DEFINE a == Tips(stack)
<1>1. /\ heap = EmptyHeap /\ stack = [t \in Goroutines |-> <<>>] /\ spawned = 0
      /\ result = [f \in Fibers |-> 0] /\ awaiting = [f \in Fibers |-> 0]
  BY DEF Init
<1>2. EmptyHeap \in Heaps(SubRecord, Values)
  <2>1. <<>> \in Seq(SubRecord) /\ <<>> \in Seq(Proms \cup Values) /\ <<>> \in Seq(Values)
    OBVIOUS
  <2>2. NoVal \in Values /\ 0 \in 0..MaxProms
    BY MaxPromsAssumption DEF Values
  <2>3. FreshSlot \in Slots(SubRecord, Values)
    BY <2>1, <2>2 DEF FreshSlot, Slots, States, Origins
  <2> HIDE DEF FreshSlot
  <2>4. [p \in Proms |-> FreshSlot] \in [Proms -> Slots(SubRecord, Values)]
    BY <2>3
  <2>. QED BY <2>2, <2>4 DEF EmptyHeap, Heaps
<1>3. /\ EmptyHeap.made = 0 /\ EmptyHeap.queue = <<>>
      /\ \A p \in Proms : EmptyHeap.slot[p] = FreshSlot
  BY DEF EmptyHeap
<1>4. Made(EmptyHeap) = {}
  BY <1>3 DEF Made
<1>5. HeapFits(EmptyHeap, awaiting)
  BY <1>2, <1>3, <1>4 DEF HeapFits, Unmade, QueueFits
<1>6. \A t \in Goroutines : a[t] = Idle
  BY <1>1 DEF Tips, Tip
<1>7. \A t \in Goroutines : StackFits(heap, t, stack[t])
  BY <1>1 DEF StackFits
<1>8. Idle.kind = "idle" /\ "idle" \notin Holders /\ "idle" \notin Partners /\ "idle" \in Asleep
  BY DEF Idle, Holders, JSKinds, Partners, Asleep
<1> HIDE DEF a
<1>9. TurnFits(a)
  BY <1>6, <1>8, Names DEF TurnFits
<1>10. \A f \in Fibers : awaiting[f] = 0 /\ a[f] = Idle
  BY <1>1, <1>6, Names
<1>11. FibersFit(a, spawned, awaiting)
  BY <1>8, <1>10 DEF FibersFit
<1>12. ServesFit(heap, a, awaiting)
  BY <1>6, <1>8 DEF ServesFit
<1>13. WakesFit(heap, a, awaiting)
  <2>1. \A at \in Places(heap) : FALSE
    BY <1>1, <1>2, <1>3, <1>4, PlaceCases
  <2>2. \A f : Count(heap, Wakes(f)) = 0
    BY <1>1, <1>2, <2>1, CountFacts
  <2>. QED BY <1>10, <2>2 DEF WakesFit
<1>14. ResultsFit(heap, a, spawned, result)
  BY <1>1 DEF ResultsFit
<1>15. /\ spawned \in 0..MaxFibers /\ result \in [Fibers -> Proms \cup {0}]
       /\ awaiting \in [Fibers -> Proms \cup {0}]
       /\ DOMAIN stack = Goroutines /\ stack = [t \in Goroutines |-> stack[t]]
  BY <1>1, BoundsAssumption
<1>. QED BY <1>1, <1>5, <1>7, <1>9, <1>11, <1>12, <1>13, <1>14, <1>15 DEF Inv, Fits, a

(* Every step keeps it. *)
LEMMA StepInv ==
  ASSUME Inv, [Next]_vars
  PROVE  Inv'
<1>1. CASE UNCHANGED vars
  BY <1>1 DEF vars, Inv
<1>2. CASE EvalStarts
  BY <1>2, EvalInv
<1>3. ASSUME NEW t \in Goroutines,
             Construct(t) \/ CallNative(t) \/ RunAsyncFiber(t)
      PROVE  Inv'
  BY <1>3, ScriptInv, ActivityInv, SpawnInv
<1>4. ASSUME NEW t \in Goroutines, NEW p \in Proms,
             \/ Then(t, p) \/ AwaitInline(t, p) \/ (t \in Fibers /\ AwaitInFiber(t, p))
             \/ \E v \in Vals \cup Proms : CallResolve(t, p, v)
             \/ \E v \in Vals : CallReject(t, p, v)
      PROVE  Inv'
  <2>1. CASE Then(t, p)
    BY <2>1, ScriptInv
  <2>2. CASE AwaitInline(t, p)
    BY <2>2, ActivityInv
  <2>3. CASE t \in Fibers /\ AwaitInFiber(t, p)
    BY <2>3, AwaitInv
  <2>4. CASE \E v \in Vals \cup Proms : CallResolve(t, p, v)
    BY <2>4, ScriptInv
  <2>5. CASE \E v \in Vals : CallReject(t, p, v)
    BY <2>5, ScriptInv
  <2>. QED BY <1>4, <2>1, <2>2, <2>3, <2>4, <2>5
<1>5. ASSUME NEW t \in Goroutines, ActivityEnds(t) PROVE Inv'
  BY <1>5, ActivityInv, CallbackInv, BodyInv DEF ActivityEnds
<1>6. ASSUME NEW t \in Goroutines, Schedule(t) PROVE Inv'
  BY <1>6, DrainOneInv, DrainEndsInv, ResumeInv, PauseInv DEF Schedule
<1>. QED BY <1>1, <1>2, <1>3, <1>4, <1>5, <1>6 DEF Next

-----------------------------------------------------------------------------
(* The theorems. *)

(* The inductive invariant holds in every behaviour: one goroutine has the turn,
   and every fiber and every promise of a fiber is accounted for. *)
THEOREM Invariance == Spec => []Inv
<1>1. Init => Inv
  BY InitInv
<1>2. Inv /\ [Next]_vars => Inv'
  BY StepInv
<1>. QED BY <1>1, <1>2, PTL DEF Spec

(* What a goroutine does, told by the tip of its stack. *)
LEMMA TipTells ==
  ASSUME Inv, NEW a, a = Tips(stack), NEW t \in Goroutines
  PROVE  /\ Busy(t) <=> a[t].kind # "idle"
         /\ Busy(t) => Top(t) = a[t]
         /\ \A kinds : "idle" \notin kinds => (Does(t, kinds) <=> a[t].kind \in kinds)
<1>1. StackFits(heap, t, stack[t]) /\ a[t] = Tip(stack[t])
  BY FitsParts DEF Inv
<1>2. Busy(t) <=> a[t].kind # "idle"
  BY <1>1, TipFacts DEF Busy
<1>3. Busy(t) => Top(t) = a[t]
  BY <1>1, TipFacts DEF Busy, Top
<1>. QED BY <1>2, <1>3 DEF Does

(* A sequence, by its elements. *)
LEMMA SequenceIn ==
  ASSUME NEW S, NEW T, NEW s \in Seq(S), \A i \in 1..Len(s) : s[i] \in T
  PROVE  s \in Seq(T)
<1>1. Len(s) \in Nat /\ s \in [1..Len(s) -> S]
  BY LenProperties
<1>2. s \in [1..Len(s) -> T]
  BY <1>1
<1>. QED BY <1>1, <1>2, SeqDef

(* The types. *)
LEMMA TypesHold ==
  ASSUME Inv
  PROVE  TypeOK
<1>1. /\ HeapFits(heap, awaiting) /\ heap \in Heaps(SubRecord, Values)
      /\ QueueFits(heap, awaiting) /\ Made(heap) \subseteq Proms
  BY InvHeap, HeapParts
<1>2. heap.made \in 0..MaxProms /\ heap.queue \in Seq(Tasks(SubRecord))
  BY <1>1, HeapFields
<1>3. ASSUME NEW p \in Proms
      PROVE  /\ heap.slot[p].state \in {"pending", "fulfilled", "rejected"}
             /\ heap.slot[p].value \in Vals \cup {NoVal}
             /\ heap.slot[p].subs \in Seq(SubRecord)
  <2>1. heap.slot[p] \in Slots(SubRecord, Values)
    BY <1>1, HeapFields
  <2>. QED BY <2>1 DEF Slots, States, Values
<1>4. heap.queue \in Seq(TaskRecord)
  <2>1. ASSUME NEW i \in 1..Len(heap.queue) PROVE heap.queue[i] \in TaskRecord
    <3>1. heap.queue[i] \in Tasks(SubRecord)
      BY <1>2, ElementOfSeq
    <3>2. heap.queue[i].src \in Proms
      BY <1>1 DEF QueueFits, TaskFits
    <3>. QED BY <3>1, <3>2 DEF Tasks, TaskRecord
  <2>. QED BY <1>2, <2>1, SequenceIn
<1>5. stack \in [Goroutines -> Seq(Activities)]
  <2>1. ASSUME NEW t \in Goroutines PROVE stack[t] \in Seq(Activities)
    <3>1. stack[t] \in Seq(Fitting(heap))
      BY InvParts DEF StackFits
    <3>2. \A i \in 1..Len(stack[t]) : stack[t][i] \in Activities
      BY <3>1, ElementOfSeq DEF Fitting
    <3>. QED BY <3>1, <3>2, SequenceIn
  <2>2. DOMAIN stack = Goroutines /\ stack = [t \in Goroutines |-> stack[t]]
    BY DEF Inv, Fits
  <2>. QED BY <2>1, <2>2
<1>6. /\ spawned \in 0..MaxFibers /\ result \in [Fibers -> Proms \cup {0}]
      /\ awaiting \in [Fibers -> Proms \cup {0}]
  BY InvParts
<1>. QED BY <1>2, <1>3, <1>4, <1>5, <1>6 DEF TypeOK, Activities

(* Who has the turn. *)
LEMMA TurnHolds ==
  ASSUME Inv
  PROVE  OneTurn
<1> DEFINE a == Tips(stack)
           H == {t \in Goroutines : HoldsTurn(t)}
<1>1. TurnFits(a)
  BY InvParts
<1>2. "idle" \notin Holders
  BY DEF Holders, JSKinds
<1>3. \A t \in Goroutines : /\ HoldsTurn(t) <=> a[t].kind \in Holders
                            /\ Busy(t) <=> a[t].kind # "idle"
  <2>1. ASSUME NEW t \in Goroutines
        PROVE  /\ Does(t, Holders) <=> a[t].kind \in Holders
               /\ Busy(t) <=> a[t].kind # "idle"
    BY <1>2, TipTells
  <2>. QED BY <2>1 DEF HoldsTurn, Holders
<1> HIDE DEF a
<1>4. CASE Busy(Main)
  <2>1. PICK t \in Goroutines : a[t].kind \in Holders
    BY <1>1, <1>3, <1>4, Names DEF TurnFits
  <2>2. H = {t}
    BY <1>1, <1>3, <2>1 DEF TurnFits
  <2>. QED BY <1>4, <2>2, SingletonCount DEF OneTurn
<1>5. CASE ~ Busy(Main)
  <2>1. \A t \in Goroutines : a[t].kind \notin Holders
    BY <1>1, <1>3, <1>5, Names DEF TurnFits
  <2>2. H = {}
    BY <1>3, <2>1
  <2>. QED BY <1>5, <2>2, FS_EmptySet DEF OneTurn
<1>. QED BY <1>4, <1>5

(* Who waits. *)
LEMMA PartnersHold ==
  ASSUME Inv
  PROVE  PartnersWait
<1> DEFINE a == Tips(stack)
<1>1. TurnFits(a)
  BY InvParts
<1>2. ASSUME NEW t \in Goroutines
      PROVE  /\ Busy(t) <=> a[t].kind # "idle"
             /\ Busy(t) => Top(t) = a[t]
             /\ Does(t, {"wake"}) <=> a[t].kind = "wake"
             /\ Does(t, {"parked"}) <=> a[t].kind = "parked"
             /\ Does(t, Partners) <=> a[t].kind \in Partners
  <2>1. \A kinds : "idle" \notin kinds => (Does(t, kinds) <=> a[t].kind \in kinds)
    BY TipTells
  <2>2. "idle" \notin {"wake"} /\ "idle" \notin {"parked"} /\ "idle" \notin Partners
    BY DEF Partners
  <2>3. (Busy(t) <=> a[t].kind # "idle") /\ (Busy(t) => Top(t) = a[t])
    BY TipTells
  <2> HIDE DEF a
  <2>4. Does(t, {"wake"}) <=> a[t].kind = "wake"
    BY <2>1, <2>2
  <2>5. Does(t, {"parked"}) <=> a[t].kind = "parked"
    BY <2>1, <2>2
  <2>. QED BY <2>1, <2>2, <2>3, <2>4, <2>5
<1> HIDE DEF a
<1>3. ASSUME NEW t \in Goroutines, Does(t, {"wake"}) PROVE Does(Top(t).on, {"parked"})
  <2>1. a[t].kind = "wake" /\ Top(t) = a[t]
    BY <1>2, <1>3 DEF Does
  <2>2. a[t].on \in Fibers /\ a[a[t].on].kind = "parked"
    BY <1>1, <2>1 DEF TurnFits
  <2>. QED BY <1>2, <2>1, <2>2, Names
<1>4. ASSUME NEW f \in Fibers
      PROVE  Cardinality({t \in Goroutines : Waits(t, f)})
               = IF Busy(f) /\ ~ Does(f, {"parked"}) THEN 1 ELSE 0
  <2> DEFINE W == {t \in Goroutines : Waits(t, f)}
  <2>1. \A t \in Goroutines : Waits(t, f) <=> a[t].kind \in Partners /\ a[t].on = f
    <3>1. ASSUME NEW t \in Goroutines
          PROVE  Waits(t, f) <=> a[t].kind \in Partners /\ a[t].on = f
      <4>1. Waits(t, f) <=> Does(t, Partners) /\ Top(t).on = f
        BY DEF Waits, Partners
      <4>2. Does(t, Partners) => Top(t) = a[t]
        BY <1>2 DEF Does
      <4>. QED BY <1>2, <4>1, <4>2
    <3>. QED BY <3>1
  <2>2. (Busy(f) /\ ~ Does(f, {"parked"})) <=> a[f].kind \notin Asleep
    BY <1>2, Names DEF Asleep
  <2>3. CASE a[f].kind \notin Asleep
    <3>1. PICK t \in Goroutines : a[t].kind \in Partners /\ a[t].on = f
      BY <1>1, <2>3 DEF TurnFits
    <3>2. W = {t}
      BY <1>1, <2>1, <3>1 DEF TurnFits
    <3>. QED BY <2>2, <2>3, <3>2, SingletonCount
  <2>4. CASE a[f].kind \in Asleep
    <3>1. W = {}
      BY <1>1, <2>1, <2>4 DEF TurnFits
    <3>. QED BY <2>2, <2>4, <3>1, FS_EmptySet
  <2>. QED BY <2>3, <2>4
<1>. QED BY <1>3, <1>4 DEF PartnersWait

(* The goroutines of an Eval pass one turn around, and whoever blocks on a channel
   of a fiber has exactly one partner: VM.Call, runAsyncFiber and the reaction
   that resumes a fiber never leave two goroutines in the interpreter. *)
THEOREM Turns == Spec => []TurnsSound
<1>1. Inv => TurnsSound
  BY TypesHold, TurnHolds, PartnersHold DEF TurnsSound
<1>. QED BY <1>1, Invariance, PTL

(* The source of the settlement that place at waits for or has got. *)
SourceAt(h, at) == IF at[1] = 0 THEN h.queue[at[2]].src ELSE at[1]

(* The subscriber of every place fits. *)
LEMMA PlacesFit ==
  ASSUME NEW h, NEW aw, HeapFits(h, aw), NEW at \in Places(h)
  PROVE  SubFits(h, SubAt(h, at)) /\ SrcFits(aw, SubAt(h, at), SourceAt(h, at))
<1>1. h \in Heaps(SubRecord, Values)
  BY HeapParts
<1>2. CASE \E i \in 1..Len(h.queue) : at = <<0, i>>
  <2>1. PICK i \in 1..Len(h.queue) : at = <<0, i>>
    BY <1>2
  <2>2. TaskFits(h, aw, h.queue[i])
    BY HeapParts DEF QueueFits
  <2>3. SubAt(h, at) = h.queue[i].sub /\ SourceAt(h, at) = h.queue[i].src
    BY <2>1 DEF SubAt, SourceAt
  <2>. QED BY <2>2, <2>3 DEF TaskFits
<1>3. CASE \E p \in Made(h) : \E i \in 1..Len(h.slot[p].subs) : at = <<p, i>>
  <2>1. PICK p \in Made(h) : \E i \in 1..Len(h.slot[p].subs) : at = <<p, i>>
    BY <1>3
  <2>2. PICK i \in 1..Len(h.slot[p].subs) : at = <<p, i>>
    BY <2>1
  <2>3. SubFits(h, h.slot[p].subs[i]) /\ SrcFits(aw, h.slot[p].subs[i], p)
    BY HeapParts DEF ListFits
  <2>4. p # 0
    BY DEF Made
  <2>5. SubAt(h, at) = h.slot[p].subs[i] /\ SourceAt(h, at) = p
    BY <2>2, <2>4 DEF SubAt, SourceAt
  <2>. QED BY <2>3, <2>5
<1>. QED BY <1>1, <1>2, <1>3, PlaceCases

(* Who serves. *)
LEMMA ServerTells ==
  ASSUME Inv, NEW a, a = Tips(stack), NEW t \in Goroutines
  PROVE  Does(t, {"wake"}) <=> a[t].kind = "wake" /\ Top(t) = a[t]
<1>1. "idle" \notin {"wake"}
  OBVIOUS
<1>2. Does(t, {"wake"}) <=> a[t].kind \in {"wake"}
  BY <1>1, TipTells
<1>3. Does(t, {"wake"}) => Top(t) = a[t]
  BY TipTells DEF Does
<1>. QED BY <1>2, <1>3

(* A fiber that awaits will be woken once. *)
LEMMA WakeupHolds ==
  ASSUME Inv
  PROVE  OneWakeup
<1> DEFINE a == Tips(stack)
<1>1. /\ TurnFits(a) /\ ServesFit(heap, a, awaiting) /\ WakesFit(heap, a, awaiting)
      /\ HeapFits(heap, awaiting)
  BY InvParts, InvHeap
<1>2. \A t \in Goroutines : Does(t, {"wake"}) <=> a[t].kind = "wake" /\ Top(t) = a[t]
  BY ServerTells
<1>3. \A t \in Goroutines : a[t].kind = "wake" => Top(t) = a[t]
  <2>1. ASSUME NEW t \in Goroutines, a[t].kind = "wake" PROVE Top(t) = a[t]
    BY <2>1, TipTells
  <2>. QED BY <2>1
<1> HIDE DEF a
<1>4. ASSUME NEW f \in Fibers
      PROVE  LET Of(sub) == sub.kind = "wake" /\ sub.target = f
                 subscribed == {at \in Places(heap) : Of(SubAt(heap, at))}
                 served == {t \in Goroutines : Does(t, {"wake"}) /\ Top(t).on = f}
             IN /\ Cardinality(subscribed) + Cardinality(served)
                     = IF awaiting[f] = 0 THEN 0 ELSE 1
                /\ \A at \in subscribed :
                     awaiting[f] = IF at[1] = 0 THEN heap.queue[at[2]].src ELSE at[1]
  <2> DEFINE S == {at \in Places(heap) : SubAt(heap, at).kind = "wake" /\ SubAt(heap, at).target = f}
             V == {t \in Goroutines : Does(t, {"wake"}) /\ Top(t).on = f}
  <2>1. Cardinality(S) = Count(heap, Wakes(f))
    <3>1. \A at \in Places(heap) : SubAt(heap, at) \in SubRecord
      BY <1>1, PlacesFit DEF SubFits
    <3>2. S = PlacesIn(heap, Wakes(f))
      BY <3>1 DEF PlacesIn, Wakes
    <3>. QED BY <3>2 DEF Count
  <2>2. \A at \in S : awaiting[f] = IF at[1] = 0 THEN heap.queue[at[2]].src ELSE at[1]
    BY <1>1, PlacesFit DEF SrcFits, SourceAt
  <2>3. V = {t \in Goroutines : a[t].kind = "wake" /\ a[t].on = f}
    BY <1>2, <1>3
  <2>4. Cardinality(V) = IF Served(a, f) THEN 1 ELSE 0
    <3>1. CASE Served(a, f)
      <4>1. PICK t \in Goroutines : a[t].kind = "wake" /\ a[t].on = f
        BY <3>1 DEF Served
      <4>2. "wake" \in Holders
        BY DEF Holders
      <4>3. V = {t}
        BY <1>1, <2>3, <4>1, <4>2 DEF TurnFits
      <4>. QED BY <3>1, <4>3, SingletonCount
    <3>2. CASE ~ Served(a, f)
      <4>1. V = {}
        BY <2>3, <3>2 DEF Served
      <4>. QED BY <3>2, <4>1, FS_EmptySet
    <3>. QED BY <3>1, <3>2
  <2>5. Served(a, f) => awaiting[f] # 0
    <3>1. SUFFICES ASSUME NEW t \in Goroutines, a[t].kind = "wake", a[t].on = f
                   PROVE  awaiting[f] # 0
      BY DEF Served
    <3>2. awaiting[f] = a[t].task.src /\ a[t].task.src \in Made(heap)
      BY <1>1, <3>1 DEF ServesFit
    <3>. QED BY <3>2 DEF Made
  <2>6. Count(heap, Wakes(f)) = IF awaiting[f] # 0 /\ ~ Served(a, f) THEN 1 ELSE 0
    BY <1>1 DEF WakesFit
  <2> HIDE DEF S, V
  <2>7. Cardinality(S) + Cardinality(V) = IF awaiting[f] = 0 THEN 0 ELSE 1
    BY <2>1, <2>4, <2>5, <2>6
  <2>. QED BY <2>2, <2>7 DEF S, V
<1>. QED BY <1>4 DEF OneWakeup

(* No wake-up of an awaiting fiber is lost or doubled, whatever settles the
   promise and wherever the loop runs that serves it. *)
THEOREM Wakeups == Spec => []OneWakeup
<1>1. Inv => OneWakeup
  BY WakeupHolds
<1>. QED BY <1>1, Invariance, PTL

(* What await hands to a body is the settlement of the promise it awaits. *)
THEOREM Outcomes == Spec => []ResumedWithOutcome
<1>1. ASSUME Inv PROVE ResumedWithOutcome
  <2> DEFINE a == Tips(stack)
  <2>1. SUFFICES ASSUME NEW t \in Goroutines, Does(t, {"wake"})
                 PROVE  /\ awaiting[Top(t).on] = Top(t).task.src
                        /\ heap.slot[awaiting[Top(t).on]].state
                             = IF Top(t).task.ok THEN "fulfilled" ELSE "rejected"
    BY DEF ResumedWithOutcome
  <2>2. a[t].kind = "wake" /\ Top(t) = a[t]
    BY <1>1, <2>1, ServerTells
  <2>3. ServesFit(heap, a, awaiting)
    BY <1>1, InvParts
  <2> HIDE DEF a
  <2>. QED BY <2>2, <2>3 DEF ServesFit, SideFits
<1>. QED BY <1>1, Invariance, PTL

(* The promise of a fiber. *)
LEMMA ResultHolds ==
  ASSUME Inv
  PROVE  ResultFollowsBody
<1> DEFINE a == Tips(stack)
<1>1. /\ spawned \in 0..MaxFibers /\ ResultsFit(heap, a, spawned, result)
      /\ HeapFits(heap, awaiting) /\ heap \in Heaps(SubRecord, Values)
  BY InvParts, InvHeap, HeapParts
<1>2. ASSUME NEW f \in Fibers
      PROVE  (Busy(f) /\ ~ Does(f, {"ending"})) <=> ~ Over(a, f)
  <2>1. "idle" \notin {"ending"}
    OBVIOUS
  <2>2. /\ Busy(f) <=> a[f].kind # "idle"
        /\ Does(f, {"ending"}) <=> a[f].kind \in {"ending"}
    BY <2>1, TipTells, Names
  <2> HIDE DEF a
  <2>. QED BY <2>2 DEF Over
<1> HIDE DEF a
<1>3. ASSUME NEW f \in 1..spawned
      PROVE  LET owing == {at \in Owing(heap, result[f]) : SubAt(heap, at).kind # "wake"}
             IN IF Busy(f) /\ ~ Does(f, {"ending"})
                THEN Pending(heap, result[f]) /\ owing = {}
                ELSE Cardinality(owing) = IF Pending(heap, result[f]) THEN 1 ELSE 0
  <2> DEFINE r == result[f]
             O == {at \in Owing(heap, r) : SubAt(heap, at).kind # "wake"}
  <2>1. f \in Fibers
    BY <1>1, BoundsAssumption DEF Fibers
  <2>2. O = PlacesIn(heap, Owes(r))
    <3>1. \A at \in Places(heap) : SubAt(heap, at) \in SubRecord
      BY <1>1, PlacesFit DEF SubFits
    <3>. QED BY <3>1 DEF Owing, PlacesIn, Owes
  <2>3. Cardinality(O) = Count(heap, Owes(r))
    BY <2>2 DEF Count
  <2>4. Count(heap, Owes(r)) = 0 => O = {}
    <3>1. Count(heap, Owes(r)) = 0 => \A at \in Places(heap) : SubAt(heap, at) \notin Owes(r)
      BY <1>1, CountFacts
    <3>. QED BY <2>2, <3>1 DEF PlacesIn
  <2>5. ResultFits(heap, r, Over(a, f))
    BY <1>1 DEF ResultsFit
  <2> HIDE DEF O
  <2>6. CASE Busy(f) /\ ~ Does(f, {"ending"})
    <3>1. Pending(heap, r) /\ O = {}
      BY <1>2, <2>1, <2>4, <2>5, <2>6 DEF ResultFits
    <3>. QED BY <2>6, <3>1 DEF O
  <2>7. CASE ~ (Busy(f) /\ ~ Does(f, {"ending"}))
    <3>1. Cardinality(O) = IF Pending(heap, r) THEN 1 ELSE 0
      BY <1>2, <2>1, <2>3, <2>5, <2>7 DEF ResultFits
    <3>. QED BY <2>7, <3>1 DEF O
  <2>. QED BY <2>6, <2>7
<1>. QED BY <1>3 DEF ResultFollowsBody

(* The promise of an async call is its body's to settle: nobody else settles it
   before the body ends, and afterwards it is settled or somebody will. *)
THEOREM Results == Spec => []ResultFollowsBody
<1>1. Inv => ResultFollowsBody
  BY ResultHolds
<1>. QED BY <1>1, Invariance, PTL
=============================================================================
