------------------------------ MODULE PromiseHeap ------------------------------
(***************************************************************************)
(* The pure part of internal/builtins/promise.go: promiseStorage and the   *)
(* VM's microtask queue as one value, and the functions that change them.  *)
(* A heap h has                                                            *)
(*   made   how many promises exist; they are numbered as newPromise makes *)
(*          them, so 1..h.made are the keys of promiseStorage;             *)
(*   slot   slot[p], the promiseSlots of promise p;                        *)
(*   queue  VM.microtasks, the head first.                                 *)
(* The callback lists onFulfill and onReject always grow and are cleared   *)
(* together, so they are one list of subscribers, each standing for a      *)
(* closure pair (wrapF, wrapR).                                            *)
(***************************************************************************)
EXTENDS Integers, Sequences, SequencesExt

CONSTANTS MaxProms,   \* bound: promises a behaviour makes
          Array,      \* the array value Promise.all fulfils with
          NoVal       \* the value of a pending promise

ASSUME MaxPromsAssumption == MaxProms \in Nat \ {0}

Proms == 1..MaxProms

(* A subscriber: kind says which closures it is, target the promise they
   settle, onF and onR whether then() was given the JS callback, index the
   position in Promise.all's array. *)
Sub(k, p, f, r, i) == [kind |-> k, target |-> p, onF |-> f, onR |-> r, index |-> i]

Adopt(p) == Sub("adopt", p, FALSE, FALSE, 0)

(* A microtask: subscriber sub of promise src, and which of the two closures
   was queued. *)
TaskOtherSide(sub, src, ok) == [sub |-> sub, src |-> src, ok |-> ~ ok]   \* slip

Task(sub, src, ok) == [sub |-> sub, src |-> src, ok |-> ok]

(* by says who made the promise; from is, for a promise made by then(), the
   promise it was called on; items is the array Promise.all was given. *)
FreshSlot == [state |-> "pending", value |-> NoVal, subs |-> <<>>,
              handled |-> FALSE, by |-> "none", from |-> 0,
              items |-> <<>>, results |-> <<>>, left |-> 0]

EmptyHeap == [made |-> 0, slot |-> [p \in Proms |-> FreshSlot], queue |-> <<>>]

Made(h) == 1..h.made

Pending(h, p) == h.slot[p].state = "pending"

-----------------------------------------------------------------------------
(* newPromise, on behalf of by; the new promise is Newest of the result. *)
NewPromise(h, by) == [h EXCEPT !.made = @ + 1, !.slot[h.made + 1].by = by]

Newest(h) == h.made

(* Slips: settling does not look at the state, or leaves the lists as they are. *)
SettleAgain(h, p, state, v) ==
  LET s == h.slot[p]
  IN [h EXCEPT !.slot[p] = [s EXCEPT !.state = state, !.value = v, !.subs = <<>>],
               !.queue = @ \o [i \in DOMAIN s.subs |->
                                 Task(s.subs[i], p, state = "fulfilled")]]

SettleKeepsLists(h, p, state, v) ==
  LET s == h.slot[p]
  IN IF s.state # "pending" THEN h
     ELSE [h EXCEPT !.slot[p] = [s EXCEPT !.state = state, !.value = v],
                    !.queue = @ \o [i \in DOMAIN s.subs |->
                                      Task(s.subs[i], p, state = "fulfilled")]]

Settle(h, p, state, v) ==
  LET s     == h.slot[p]
      Queued(i) == Task(s.subs[i], p, state = "fulfilled")
  IN IF s.state # "pending" THEN h
     ELSE [h EXCEPT !.slot[p] = [s EXCEPT !.state = state, !.value = v, !.subs = <<>>],
                    !.queue = @ \o [i \in DOMAIN s.subs |-> Queued(i)]]

(* Slips: a late subscriber is forgotten, or overtakes the queue. *)
ThenOnPending(h, p, sub) ==
  IF Pending(h, p) THEN [h EXCEPT !.slot[p].subs = Append(@, sub)] ELSE h

ThenFirst(h, p, sub) ==
  IF Pending(h, p)
  THEN [h EXCEPT !.slot[p].subs = Append(@, sub)]
  ELSE [h EXCEPT !.queue = <<Task(sub, p, h.slot[p].state = "fulfilled")>> \o @]

ThenOnSettled(h, p, sub) ==
  IF Pending(h, p)
  THEN [h EXCEPT !.slot[p].subs = Append(@, sub)]
  ELSE [h EXCEPT !.queue = Append(@, Task(sub, p, h.slot[p].state = "fulfilled"))]

(* Resolving with a promise waits on it; p is not settled meanwhile. *)
ResolvePromise(h, p, v) ==
  IF ~ Pending(h, p) THEN h
  ELSE IF v \in Proms THEN ThenOnSettled(h, v, Adopt(p))
  ELSE Settle(h, p, "fulfilled", v)

RejectPromise(h, p, v) == Settle(h, p, "rejected", v)

-----------------------------------------------------------------------------
(* promiseThen on p; catch is then(undefined, r), and finally passes two native
   functions that call the same JS callback, if it was given one. *)
PromiseThen(h, p, kind, f, r) ==
  LET handles == kind = "finally" \/ r
      h1 == [h EXCEPT !.slot[p].handled = @ \/ handles]
      h2 == NewPromise(h1, kind)
      q  == Newest(h2)
      h3 == [h2 EXCEPT !.slot[q].from = p]
  IN ThenOnSettled(h3, p, Sub(kind, q, f, r, 0))

(* The loop body of promiseAll and promiseRace: item x of the array, wrapped
   in a promise of its own when it is none, is subscribed to. *)
SubscribeItem(h, x, sub) ==
  IF x \in Proms THEN ThenOnSettled(h, x, sub)
  ELSE LET h1 == NewPromise(h, "item")
           q  == Newest(h1)
       IN ThenOnSettled(ResolvePromise(h1, q, x), q, sub)

(* The loop itself, in the order of the array. *)
SubscribeItems(h, items, subs) ==
  LET After[i \in 0..Len(items)] ==
        IF i = 0 THEN h ELSE SubscribeItem(After[i - 1], items[i], subs[i])
  IN After[Len(items)]

PromiseAll(h, items) ==
  LET h1 == NewPromise(h, "all")
      p  == Newest(h1)
      h2 == [h1 EXCEPT !.slot[p].items = items,
                       !.slot[p].results = [i \in DOMAIN items |-> NoVal],
                       !.slot[p].left = Len(items)]
  IN IF items = <<>> THEN ResolvePromise(h2, p, Array)
     ELSE SubscribeItems(h2, items,
                         [i \in DOMAIN items |-> Sub("all", p, FALSE, FALSE, i)])

PromiseRace(h, items) ==
  LET h1 == NewPromise(h, "race")
  IN SubscribeItems(h1, items, [i \in DOMAIN items |-> Adopt(Newest(h1))])

(* Slip: the callback jumps the queue. *)
QueueMicrotaskFirst(h) ==
  [h EXCEPT !.queue = <<Task(Sub("task", 0, TRUE, TRUE, 0), 0, TRUE)>> \o @]

QueueMicrotask(h) ==
  [h EXCEPT !.queue = Append(@, Task(Sub("task", 0, TRUE, TRUE, 0), 0, TRUE))]

-----------------------------------------------------------------------------
(* What a microtask does. *)

(* It enters the interpreter: the subscriber has a JS callback for this side. *)
CallsJS(task) == IF task.ok THEN task.sub.onF ELSE task.sub.onR

(* Slip: values are collected in the order they arrive. *)
CollectArrival(h, p, i, v) ==
  LET k  == Len(h.slot[p].items) - h.slot[p].left + 1
      h1 == [h EXCEPT !.slot[p].results[k] = v, !.slot[p].left = @ - 1]
  IN IF h1.slot[p].left = 0 THEN ResolvePromise(h1, p, Array) ELSE h1

(* Promise.all's own reaction to the fulfilment of item i. *)
CollectItem(h, p, i, v) ==
  LET h1 == [h EXCEPT !.slot[p].results[i] = v, !.slot[p].left = @ - 1]
  IN IF h1.slot[p].left = 0 THEN ResolvePromise(h1, p, Array) ELSE h1

(* A microtask without a JS callback passes the settlement on. *)
PassOn(h, task) ==
  LET p == task.sub.target
      v == h.slot[task.src].value
  IN IF ~ task.ok THEN RejectPromise(h, p, v)
     ELSE IF task.sub.kind = "all" THEN CollectItem(h, p, task.sub.index, v)
     ELSE ResolvePromise(h, p, v)

(* Slip: finally answers the value of its callback. *)
CallbackAnswers(h, task, v) ==
  IF task.sub.kind = "task" THEN h ELSE ResolvePromise(h, task.sub.target, v)

(* The JS callback of a microtask returned v: finally ignores it, unless it
   throws, and queueMicrotask ignores both. *)
CallbackReturned(h, task, v) ==
  IF task.sub.kind = "task" THEN h
  ELSE IF task.sub.kind = "finally" THEN PassOn(h, task)
  ELSE ResolvePromise(h, task.sub.target, v)

CallbackThrew(h, task, v) ==
  IF task.sub.kind = "task" THEN h
  ELSE RejectPromise(h, task.sub.target, v)

(* ReportUnhandledRejections: each promise is reported once. *)
Unhandled(h) == {p \in Made(h) : h.slot[p].state = "rejected" /\ ~ h.slot[p].handled}

Reported(h) == [h EXCEPT !.slot = [p \in Proms |->
                  IF p \in Unhandled(h) THEN [h.slot[p] EXCEPT !.handled = TRUE]
                                        ELSE h.slot[p]]]

-----------------------------------------------------------------------------
(* Observations. *)

(* Where a subscriber can wait: <<p, i>> in the list of the pending promise p,
   <<0, i>> in the microtask queue. *)
Places(h) == ({0} \X DOMAIN h.queue)
             \cup UNION {{p} \X DOMAIN h.slot[p].subs : p \in Made(h)}

SubAt(h, at) == IF at[1] = 0 THEN h.queue[at[2]].sub ELSE h.slot[at[1]].subs[at[2]]

(* The places that will settle p when they are served. *)
Owing(h, p) == {at \in Places(h) : SubAt(h, at).target = p}
=============================================================================
