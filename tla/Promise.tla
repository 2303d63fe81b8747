-------------------------------- MODULE Promise --------------------------------
(***************************************************************************)
(* Promises and microtasks as a script and its host drive them:            *)
(* internal/builtins/promise.go over the queue, drainMicrotasks, RunChunk  *)
(* and Call of internal/vm/vm.go.  JS runs in three places: the program of *)
(* an Eval, a callback of a microtask, and a function the host calls       *)
(* through Value.Call; in each it may perform any promise operation.       *)
(* Eval ends by draining the queue, Value.Call does not.                   *)
(***************************************************************************)
EXTENDS PromiseHeap, FiniteSets

CONSTANTS Vals,      \* values scripts settle promises with
          Features,  \* the operations the scripts of this instance use
          MaxTasks,  \* bound: queueMicrotask callbacks queued at once
          MaxWaits,  \* bound: promises one promise is resolved with while pending
          NoTask

ASSUME FeaturesAssumption ==
  Features \subseteq {"then", "finally", "all", "race", "static", "task", "host"}

(* A value is told from a promise. *)
ASSUME ValsAssumption == (Vals \cup {Array, NoVal}) \cap Proms = {}

VARIABLES heap,      \* promiseStorage and VM.microtasks
          phase,     \* who runs: program, callback, drain, host or idle
          task       \* the microtask whose JS callback runs, or NoTask

vars == <<heap, phase, task>>

Init == heap = EmptyHeap /\ phase = "idle" /\ task = NoTask

-----------------------------------------------------------------------------
(* What running JS may do. *)

RunsJS == phase \in {"program", "callback", "host"}

Room(n) == heap.made + n <= MaxProms

(* One call of a promise function: the heap becomes h. *)
Does(h) == RunsJS /\ heap' = h /\ UNCHANGED <<phase, task>>

(* new Promise(executor): the executor runs as part of the calling JS, with the
   resolve and reject functions as its arguments.  An executor that throws
   rejects. *)
Construct == Room(1) /\ Does(NewPromise(heap, "ctor"))

Resolvable(p) == p \in Made(heap) /\ heap.slot[p].by = "ctor"

CallResolve(p, v) ==
  /\ Resolvable(p)
  /\ v \in Proms => v \in Made(heap) /\ Cardinality(Owing(heap, p)) < MaxWaits
  /\ Does(ResolvePromise(heap, p, v))

CallReject(p, v) == Resolvable(p) /\ Does(RejectPromise(heap, p, v))

(* Promise.resolve of a promise returns that promise. *)
StaticResolve(v) ==
  LET h == NewPromise(heap, "static") IN
  "static" \in Features /\ Room(1) /\ Does(ResolvePromise(h, Newest(h), v))

StaticReject(v) ==
  LET h == NewPromise(heap, "static") IN
  "static" \in Features /\ Room(1) /\ Does(RejectPromise(h, Newest(h), v))

Then(p, f, r) == /\ "then" \in Features /\ Room(1) /\ p \in Made(heap)
                 /\ Does(PromiseThen(heap, p, "then", f, r))

(* finally(c): whether c is a function. *)
Finally(p, c) == /\ "finally" \in Features /\ Room(1) /\ p \in Made(heap)
                 /\ Does(PromiseThen(heap, p, "finally", c, c))

(* Promise.all and Promise.race of up to two promises or plain values. *)
Item == Made(heap) \cup Vals

Plain(items) == {i \in DOMAIN items : items[i] \notin Proms}

All(items) == /\ "all" \in Features /\ Room(1 + Cardinality(Plain(items)))
              /\ Does(PromiseAll(heap, items))

Race(items) == /\ "race" \in Features /\ Room(1 + Cardinality(Plain(items)))
               /\ Does(PromiseRace(heap, items))

CallQueueMicrotask ==
  /\ "task" \in Features
  /\ Cardinality({i \in DOMAIN heap.queue : heap.queue[i].sub.kind = "task"}) < MaxTasks
  /\ Does(QueueMicrotask(heap))

Operation ==
  \/ Construct
  \/ \E p \in Proms, v \in Vals \cup Proms : CallResolve(p, v)
  \/ \E p \in Proms, v \in Vals : CallReject(p, v)
  \/ \E v \in Vals : StaticResolve(v) \/ StaticReject(v)
  \/ \E p \in Proms, f, r \in BOOLEAN : Then(p, f, r)
  \/ \E p \in Proms, c \in BOOLEAN : Finally(p, c)
  \/ \E items \in {<<>>} \cup {<<x, y>> : x, y \in Item} : All(items) \/ Race(items)
  \/ CallQueueMicrotask

-----------------------------------------------------------------------------
(* The event loop. *)

(* Eval: RunChunk enters the program, then drains whatever is queued, left
   over from an earlier Value.Call included. *)
EvalStarts == phase = "idle" /\ phase' = "program" /\ UNCHANGED <<heap, task>>

ProgramEnds == phase = "program" /\ phase' = "drain" /\ UNCHANGED <<heap, task>>

(* One round of drainMicrotasks: the head leaves the queue before it runs. *)
RunMicrotask ==
  /\ phase = "drain" /\ heap.queue # <<>>
  /\ LET t == Head(heap.queue)
         h == [heap EXCEPT !.queue = Tail(@)]
     IN IF CallsJS(t)
        THEN heap' = h /\ phase' = "callback" /\ task' = t
        ELSE heap' = PassOn(h, t) /\ UNCHANGED <<phase, task>>

CallbackReturns(v) ==
  /\ phase = "callback"
  /\ heap' = CallbackReturned(heap, task, v)
  /\ phase' = "drain" /\ task' = NoTask

CallbackThrows(v) ==
  /\ phase = "callback"
  /\ heap' = CallbackThrew(heap, task, v)
  /\ phase' = "drain" /\ task' = NoTask

(* With nothing else scheduled, unhandled rejections go to stderr. *)
DrainEnds ==
  /\ phase = "drain" /\ heap.queue = <<>>
  /\ heap' = Reported(heap)
  /\ phase' = "idle" /\ UNCHANGED task

(* Value.Call between two Evals. *)
HostCalls == /\ "host" \in Features /\ phase = "idle"
             /\ phase' = "host" /\ UNCHANGED <<heap, task>>

HostCallEnds == phase = "host" /\ phase' = "idle" /\ UNCHANGED <<heap, task>>

CallbackEnds == \/ \E v \in Vals \cup Made(heap) : CallbackReturns(v)
                \/ \E v \in Vals : CallbackThrows(v)

Loop == ProgramEnds \/ RunMicrotask \/ CallbackEnds \/ DrainEnds

Next == Operation \/ Loop \/ EvalStarts \/ HostCalls \/ HostCallEnds

Spec == Init /\ [][Next]_vars

(* The interpreter goroutine keeps running, and programs and callbacks end:
   the queue is only drained for scripts that terminate. *)
FairSpec == Spec /\ WF_vars(RunMicrotask) /\ WF_vars(CallbackEnds) /\ WF_vars(ProgramEnds)

-----------------------------------------------------------------------------
SubRecord == [kind : {"then", "finally", "all", "adopt", "task"},
              target : Proms \cup {0}, onF : BOOLEAN, onR : BOOLEAN, index : 0..2]

TaskRecord == [sub : SubRecord, src : Proms \cup {0}, ok : BOOLEAN]

ASSUME NoTaskAssumption == NoTask \notin TaskRecord

Makers == {"none", "ctor", "static", "then", "finally", "item", "all", "race"}

(* promiseStorage, the queue and the frames of the event loop keep their types. *)
TypeOK ==
  /\ heap.made \in 0..MaxProms
  /\ \A p \in Proms :
       LET s == heap.slot[p] IN
       /\ s.state \in {"pending", "fulfilled", "rejected"}
       /\ s.value \in Vals \cup {Array, NoVal}
       /\ s.subs \in Seq(SubRecord)
       /\ s.handled \in BOOLEAN /\ s.by \in Makers
       /\ s.left \in 0..2 /\ s.from \in 0..MaxProms
  /\ heap.queue \in Seq(TaskRecord)
  /\ phase \in {"program", "callback", "drain", "host", "idle"}
  /\ task \in TaskRecord \cup {NoTask}
  /\ (phase = "callback") <=> task # NoTask

Derived(p) == heap.slot[p].by \in {"then", "finally"}

(* The running callback will settle p when it ends. *)
Running(p) == task # NoTask /\ task.sub.target = p

(* A reaction is delivered once and is never lost: a promise made by then() or
   finally() that is still pending has exactly one subscription, microtask or
   running callback that will settle it; one that is settled has none. *)
ReactionsDeliveredOnce ==
  \A p \in Made(heap) : Derived(p) =>
    LET owing == Owing(heap, p)
    IN IF Running(p) THEN Pending(heap, p) /\ owing = {}
       ELSE Cardinality(owing) = IF Pending(heap, p) THEN 1 ELSE 0

(* A settled promise has nobody left in its lists, and a queued reaction is for
   the side its source settled on, however long it waits in the queue. *)
ReactionsMatchSource ==
  /\ \A p \in Made(heap) : ~ Pending(heap, p) => heap.slot[p].subs = <<>>
  /\ \A i \in DOMAIN heap.queue :
       LET t == heap.queue[i] IN
       t.sub.kind # "task" =>
         heap.slot[t.src].state = IF t.ok THEN "fulfilled" ELSE "rejected"

(* The heap keeps its types, no reaction is lost or delivered twice, and each is
   on the side its source settled on. *)
ReactionsSound == TypeOK /\ ReactionsDeliveredOnce /\ ReactionsMatchSource

(* Reactions of one promise run in the order they were attached, across the
   lists of a pending promise and the queue: promises made by then() are
   numbered in that order. *)
ReactionsInOrder ==
  \A i, j \in DOMAIN heap.queue :
    LET t == heap.queue[i]
        u == heap.queue[j] IN
    i < j /\ t.src = u.src
      /\ t.sub.kind \in {"then", "finally"} /\ u.sub.kind \in {"then", "finally"}
      => t.sub.target < u.sub.target

(* Promise.all, while pending, still waits for as many items as it counts, and
   once fulfilled holds the value of each item at that item's position,
   whichever order they settled in and whether or not one occurs twice. *)
AllCounts ==
  \A p \in Made(heap) : heap.slot[p].by = "all" =>
    LET s == heap.slot[p]
        Waits == {SubAt(heap, at).index : at \in Owing(heap, p)}
        Value(x) == IF x \in Proms THEN heap.slot[x].value ELSE x
    IN CASE s.state = "pending"   -> Cardinality(Waits) = s.left /\ s.left > 0
         [] s.state = "fulfilled" -> \A i \in DOMAIN s.items :
                                       s.results[i] = Value(s.items[i])
         [] OTHER -> \E i \in DOMAIN s.items :
                       /\ s.items[i] \in Proms
                       /\ heap.slot[s.items[i]].state = "rejected"

(* finally() is transparent: unless its callback throws, the promise it returns
   settles as the one it was called on did, never with the callback's value. *)
FinallyTransparent ==
  \A p \in Made(heap) : heap.slot[p].by = "finally" =>
    /\ heap.slot[p].state = "fulfilled" =>
         LET s == heap.slot[heap.slot[p].from]
         IN s.state = "fulfilled" /\ s.value = heap.slot[p].value
    /\ heap.slot[p].state = "rejected" => ~ Pending(heap, heap.slot[p].from)

(* A promise settles once: neither its state nor its value changes again. *)
SettledForGood ==
  [][\A p \in Proms : ~ Pending(heap, p) =>
       /\ heap'.slot[p].state = heap.slot[p].state
       /\ heap'.slot[p].value = heap.slot[p].value]_vars

(* In scripts whose programs and callbacks end, every reaction that is queued
   during an Eval gets its turn, though each may queue others. *)
ReactionsRun ==
  \A p \in Proms :
    (phase \in {"program", "drain", "callback"}
       /\ \E i \in DOMAIN heap.queue : heap.queue[i].sub.target = p
                                       /\ heap.queue[i].sub.kind = "then")
      ~> ~ (\E i \in DOMAIN heap.queue : heap.queue[i].sub.target = p
                                          /\ heap.queue[i].sub.kind = "then")
=============================================================================
