-------------------------------- MODULE AsyncVM --------------------------------
(***************************************************************************)
(* async/await of internal/vm/vm.go over the promises of PromiseHeap.      *)
(*                                                                         *)
(* VM.Call runs an async function on a fiber, a goroutine of its own; the  *)
(* caller blocks on the unbuffered channel paused until the fiber ends or  *)
(* awaits a pending promise.  A fiber that awaits subscribes to the        *)
(* promise, reports on paused and blocks on resume; the subscription is a  *)
(* microtask that sends on resume and blocks on paused in its turn.        *)
(*                                                                         *)
(* JS outside a fiber body that awaits a pending promise has nothing to    *)
(* suspend: OpAwait runs the microtask loop on the spot.  That is the      *)
(* program itself, a reaction callback, and a callback some native         *)
(* function calls; an async function called by OpCall or OpCallMethod is   *)
(* an ordinary frame and awaits as the JS that calls it does.              *)
(*                                                                         *)
(* A goroutine is the stack of what it is in the middle of, top last.      *)
(***************************************************************************)
EXTENDS PromiseHeap, FiniteSets

CONSTANTS MaxFibers,   \* bound: async functions called through VM.Call
          MaxDepth,    \* bound: a goroutine calls deeper only below this depth
          MaxWaits,    \* bound: promises one promise is resolved with
          Vals,        \* values promises settle with
          NoTask

ASSUME BoundsAssumption == MaxFibers \in Nat /\ MaxDepth \in Nat

(* What a promise settles with is told from a promise: resolvePromise adopts the
   latter and never stores it as a value. *)
ASSUME ValsAssumption == (Vals \cup {NoVal}) \cap Proms = {}

Main == 0
Fibers == 1..MaxFibers
Goroutines == {Main} \cup Fibers

VARIABLES heap,      \* promiseStorage and VM.microtasks
          stack,     \* stack[t]: what goroutine t is doing; <<>> before and after
          spawned,   \* how many fibers there have been
          result,    \* result[f]: the promise runAsyncFiber returned for f
          awaiting   \* awaiting[f]: the promise f awaits, 0 when it does not

vars == <<heap, stack, spawned, result, awaiting>>

(* JS activities: the program of RunChunk; a reaction callback; a JS function
   that a native function calls; the body of the fiber. *)
JSKinds == {"program", "callback", "native", "body"}

(* The others: drainMicrotasks, for RunChunk (on = 0) or for OpAwait of promise
   on; runAsyncFiber at <-ctx.paused of fiber on; the awaited promise's reaction
   at async.resume <- msg and then at <-async.paused; in a fiber, the sends
   paused <- asyncStopAwait and paused <- asyncStopDone, and <-async.resume. *)
Kinds == JSKinds \cup {"drain", "spawn", "wake", "woken", "pausing", "parked", "ending"}

Doing(k, on, task) == [kind |-> k, on |-> on, task |-> task]

JS(k) == Doing(k, 0, NoTask)

Busy(t) == stack[t] # <<>>
Top(t) == Last(stack[t])
Does(t, kinds) == Busy(t) /\ Top(t).kind \in kinds

Push(t, a) == [stack EXCEPT ![t] = Append(@, a)]
Pop(t) == [stack EXCEPT ![t] = Front(@)]
Swap(t, a) == [stack EXCEPT ![t] = Append(Front(@), a)]

Init ==
  /\ heap = EmptyHeap
  /\ stack = [t \in Goroutines |-> <<>>]
  /\ spawned = 0
  /\ result = [f \in Fibers |-> 0]
  /\ awaiting = [f \in Fibers |-> 0]

Room(n) == heap.made + n <= MaxProms

Deep(t) == Len(stack[t]) >= MaxDepth

-----------------------------------------------------------------------------
(* JS on goroutine t. *)

Operate(t, h) == Does(t, JSKinds) /\ heap' = h /\ UNCHANGED <<stack, spawned, result, awaiting>>

Construct(t) == Room(1) /\ Operate(t, NewPromise(heap, "ctor"))

CallResolve(t, p, v) ==
  /\ p \in Made(heap) /\ heap.slot[p].by = "ctor"
  /\ v \in Proms => v \in Made(heap) /\ Cardinality(Owing(heap, p)) < MaxWaits
  /\ Operate(t, ResolvePromise(heap, p, v))

CallReject(t, p, v) ==
  /\ p \in Made(heap) /\ heap.slot[p].by = "ctor"
  /\ Operate(t, RejectPromise(heap, p, v))

Then(t, p) ==
  /\ Room(1) /\ p \in Made(heap)
  /\ Operate(t, PromiseThen(heap, p, "then", TRUE, TRUE))

(* A native function such as Array.prototype.map calls a plain JS function. *)
CallNative(t) ==
  /\ Does(t, JSKinds) /\ ~ Deep(t)
  /\ stack' = Push(t, JS("native"))
  /\ UNCHANGED <<heap, spawned, result, awaiting>>

(* NewPendingPromise; an async function's rejection counts as handled. *)
NewPendingPromise(h) ==
  LET h1 == NewPromise(h, "async") IN [h1 EXCEPT !.slot[Newest(h1)].handled = TRUE]

(* A native function, or then() itself, calls an async function: runAsyncFiber
   spawns the fiber and waits for its first pause. *)
RunAsyncFiber(t) ==
  LET f == spawned + 1 IN
  /\ Does(t, JSKinds) /\ ~ Deep(t) /\ f \in Fibers /\ Room(1)
  /\ heap' = NewPendingPromise(heap)
  /\ spawned' = f
  /\ result' = [result EXCEPT ![f] = Newest(heap')]
  /\ stack' = [stack EXCEPT ![t] = Append(@, Doing("spawn", f, NoTask)),
                            ![f] = <<JS("body")>>]
  /\ UNCHANGED awaiting

(* await of a pending promise in a fiber's own body.  Awaiting a settled
   promise, anywhere, just goes on with its value or throws. *)
AwaitInFiber(f, p) ==
  /\ Does(f, {"body"}) /\ p \in Made(heap) /\ Pending(heap, p)
  /\ heap' = ThenOnSettled(heap, p, Sub("wake", f, FALSE, FALSE, 0))
  /\ awaiting' = [awaiting EXCEPT ![f] = p]
  /\ stack' = Push(f, Doing("pausing", f, NoTask))
  /\ UNCHANGED <<spawned, result>>

(* await of a pending promise in any other JS, with something to drain; with
   an empty queue it throws a TypeError and changes nothing. *)
AwaitInline(t, p) ==
  /\ Does(t, JSKinds \ {"body"}) /\ ~ Deep(t)
  /\ p \in Made(heap) /\ Pending(heap, p) /\ heap.queue # <<>>
  /\ stack' = Push(t, Doing("drain", p, NoTask))
  /\ UNCHANGED <<heap, spawned, result, awaiting>>

(* The end of the JS activity, by a value or an exception. *)

ProgramEnds(t) ==
  /\ Does(t, {"program"})
  /\ stack' = Swap(t, Doing("drain", 0, NoTask))
  /\ UNCHANGED <<heap, spawned, result, awaiting>>

NativeEnds(t) ==
  /\ Does(t, {"native"}) /\ stack' = Pop(t)
  /\ UNCHANGED <<heap, spawned, result, awaiting>>

CallbackReturns(t, v) ==
  /\ Does(t, {"callback"}) /\ stack' = Pop(t)
  /\ heap' = CallbackReturned(heap, Top(t).task, v)
  /\ UNCHANGED <<spawned, result, awaiting>>

CallbackThrows(t, v) ==
  /\ Does(t, {"callback"}) /\ stack' = Pop(t)
  /\ heap' = CallbackThrew(heap, Top(t).task, v)
  /\ UNCHANGED <<spawned, result, awaiting>>

(* OpReturn wraps a plain value in a fulfilled promise, so the fiber resolves
   its own promise with a promise, and that settles a microtask later. *)
BodyReturns(f, v) ==
  /\ Does(f, {"body"})
  /\ v \notin Proms => Room(1)
  /\ LET h == IF v \in Proms THEN heap
              ELSE LET h1 == NewPromise(heap, "static")
                   IN ResolvePromise(h1, Newest(h1), v)
         q == IF v \in Proms THEN v ELSE Newest(h)
     IN heap' = ResolvePromise(h, result[f], q)
  /\ stack' = Swap(f, Doing("ending", f, NoTask))
  /\ UNCHANGED <<spawned, result, awaiting>>

(* Slip: the error of the body is dropped, as advance drops a generator's. *)
BodyThrowsDropped(f, v) ==
  /\ Does(f, {"body"}) /\ UNCHANGED heap
  /\ stack' = Swap(f, Doing("ending", f, NoTask))
  /\ UNCHANGED <<spawned, result, awaiting>>

BodyThrows(f, v) ==
  /\ Does(f, {"body"})
  /\ heap' = RejectPromise(heap, result[f], v)
  /\ stack' = Swap(f, Doing("ending", f, NoTask))
  /\ UNCHANGED <<spawned, result, awaiting>>

-----------------------------------------------------------------------------
(* drainMicrotasks, wherever it was entered. *)

DrainOne(t) ==
  /\ Does(t, {"drain"}) /\ heap.queue # <<>>
  /\ LET task == Head(heap.queue)
         h == [heap EXCEPT !.queue = Tail(@)]
     IN CASE task.sub.kind = "wake" ->
               /\ heap' = h
               /\ stack' = Push(t, Doing("wake", task.sub.target, task))
          [] task.sub.kind # "wake" /\ CallsJS(task) ->
               /\ heap' = h
               /\ stack' = Push(t, Doing("callback", 0, task))
          [] OTHER -> heap' = PassOn(h, task) /\ UNCHANGED stack
  /\ UNCHANGED <<spawned, result, awaiting>>

(* Slip: the loop does not look at what the last microtask queued. *)
DrainEndsEarly(t) ==
  /\ Does(t, {"drain"})
  /\ heap' = Reported(heap)
  /\ stack' = Pop(t)
  /\ UNCHANGED <<spawned, result, awaiting>>

(* The queue is empty: back to the host, or to the JS that awaits, which gets
   the value, the rejection, or a TypeError if the promise is still pending. *)
DrainEnds(t) ==
  /\ Does(t, {"drain"}) /\ heap.queue = <<>>
  /\ heap' = Reported(heap)
  /\ stack' = Pop(t)
  /\ UNCHANGED <<spawned, result, awaiting>>

EvalStarts ==
  /\ ~ Busy(Main) /\ stack' = Push(Main, JS("program"))
  /\ UNCHANGED <<heap, spawned, result, awaiting>>

-----------------------------------------------------------------------------
(* The two channels of fiber f; t is at the other end. *)

(* Slip: the reaction does not wait for the fiber to pause again. *)
ResumeAndGoOn(t, f) ==
  /\ Does(t, {"wake"}) /\ Top(t).on = f /\ Does(f, {"parked"})
  /\ stack' = [Pop(t) EXCEPT ![f] = Front(@)]
  /\ awaiting' = [awaiting EXCEPT ![f] = 0]
  /\ UNCHANGED <<heap, spawned, result>>

ResumeArrives(t, f) ==
  /\ Does(t, {"wake"}) /\ Top(t).on = f /\ Does(f, {"parked"})
  /\ stack' = [Swap(t, Doing("woken", f, NoTask)) EXCEPT ![f] = Front(@)]
  /\ awaiting' = [awaiting EXCEPT ![f] = 0]
  /\ UNCHANGED <<heap, spawned, result>>

PauseArrives(t, f) ==
  /\ Does(t, {"spawn", "woken"}) /\ Top(t).on = f
  /\ \/ /\ Does(f, {"pausing"})
        /\ stack' = [Pop(t) EXCEPT ![f] = Append(Front(@), Doing("parked", f, NoTask))]
     \/ /\ Does(f, {"ending"})
        /\ stack' = [Pop(t) EXCEPT ![f] = <<>>]
  /\ UNCHANGED <<heap, spawned, result, awaiting>>

-----------------------------------------------------------------------------
ActivityEnds(t) ==
  \/ ProgramEnds(t)
  \/ NativeEnds(t)
  \/ \E v \in Vals \cup Made(heap) : CallbackReturns(t, v)
  \/ \E v \in Vals : CallbackThrows(t, v)
  \/ t \in Fibers /\ \E v \in Vals \cup Made(heap) : BodyReturns(t, v)
  \/ t \in Fibers /\ \E v \in Vals : BodyThrows(t, v)

Schedule(t) ==
  DrainOne(t) \/ DrainEnds(t) \/ \E f \in Fibers : ResumeArrives(t, f) \/ PauseArrives(t, f)

Next ==
  \/ EvalStarts
  \/ \E t \in Goroutines :
       \/ Construct(t) \/ CallNative(t) \/ RunAsyncFiber(t)
       \/ \E p \in Proms : \/ Then(t, p)
                           \/ AwaitInline(t, p)
                           \/ t \in Fibers /\ AwaitInFiber(t, p)
                           \/ \E v \in Vals \cup Proms : CallResolve(t, p, v)
                           \/ \E v \in Vals : CallReject(t, p, v)
       \/ ActivityEnds(t)
       \/ Schedule(t)

Spec == Init /\ [][Next]_vars

(* The Go scheduler runs a goroutine that can communicate and the loop of
   whoever drains; of the script it is assumed that each JS activity, at its
   depth of the stack, ends, however often it calls or awaits meanwhile. *)
FairSpec ==
  /\ Spec
  /\ \A t \in Goroutines :
       /\ WF_vars(Schedule(t))
       /\ \A d \in 1..(MaxDepth + 1) : SF_vars(Len(stack[t]) = d /\ ActivityEnds(t))

-----------------------------------------------------------------------------
SubRecord == [kind : {"then", "adopt", "wake"}, target : Nat,
              onF : BOOLEAN, onR : BOOLEAN, index : {0}]

TaskRecord == [sub : SubRecord, src : Proms, ok : BOOLEAN]

(* The heap, the stacks of the goroutines and what they wait for keep their types. *)
TypeOK ==
  /\ heap.made \in 0..MaxProms
  /\ \A p \in Proms : /\ heap.slot[p].state \in {"pending", "fulfilled", "rejected"}
                      /\ heap.slot[p].value \in Vals \cup {NoVal}
                      /\ heap.slot[p].subs \in Seq(SubRecord)
  /\ heap.queue \in Seq(TaskRecord)
  /\ stack \in [Goroutines -> Seq([kind : Kinds, on : Nat,
                                   task : TaskRecord \cup {NoTask}])]
  /\ spawned \in 0..MaxFibers
  /\ result \in [Fibers -> Proms \cup {0}]
  /\ awaiting \in [Fibers -> Proms \cup {0}]

(* A goroutine that runs the interpreter or offers on a channel. *)
HoldsTurn(t) == Does(t, JSKinds \cup {"drain", "wake", "pausing", "ending"})

(* "only one of {main, fiber} is interacting with the VM at any moment": one
   goroutine has the turn while an Eval runs, none between two. *)
OneTurn ==
  Cardinality({t \in Goroutines : HoldsTurn(t)}) = IF Busy(Main) THEN 1 ELSE 0

(* The goroutine at the other end of f's paused channel. *)
Waits(t, f) == Does(t, {"spawn", "woken"}) /\ Top(t).on = f

(* No channel operation of a fiber blocks for ever: a reaction that resumes a
   fiber finds it parked, and a fiber that is not parked has one goroutine, on
   whichever stack the drain happened to be, that waits for its next pause. *)
PartnersWait ==
  /\ \A t \in Goroutines : Does(t, {"wake"}) => Does(Top(t).on, {"parked"})
  /\ \A f \in Fibers :
       Cardinality({t \in Goroutines : Waits(t, f)})
         = IF Busy(f) /\ ~ Does(f, {"parked"}) THEN 1 ELSE 0

(* The goroutines of an Eval pass one turn around: the stacks keep their types,
   one goroutine interprets, and whoever waits on a channel has its partner. *)
TurnsSound == TypeOK /\ OneTurn /\ PartnersWait

(* No wakeup is lost or doubled: a fiber that awaits has exactly one
   subscription, on the list of the promise it awaits, in the queue or being
   served; a fiber that does not await has none. *)
OneWakeup ==
  \A f \in Fibers :
    LET Of(sub) == sub.kind = "wake" /\ sub.target = f
        subscribed == {at \in Places(heap) : Of(SubAt(heap, at))}
        served == {t \in Goroutines : Does(t, {"wake"}) /\ Top(t).on = f}
    IN /\ Cardinality(subscribed) + Cardinality(served)
            = IF awaiting[f] = 0 THEN 0 ELSE 1
       /\ \A at \in subscribed :
            awaiting[f] = IF at[1] = 0 THEN heap.queue[at[2]].src ELSE at[1]

(* What await hands to a body is the settlement of the promise it awaits. *)
ResumedWithOutcome ==
  \A t \in Goroutines : Does(t, {"wake"}) =>
    LET task == Top(t).task
        p    == awaiting[Top(t).on]
    IN p = task.src /\ heap.slot[p].state = IF task.ok THEN "fulfilled" ELSE "rejected"

(* The promise of an async call is the body's to settle: pending while the body
   is anywhere between its start and its end, and after the end settled or
   waiting for exactly the promise the body returned. *)
ResultFollowsBody ==
  \A f \in 1..spawned :
    LET owing == {at \in Owing(heap, result[f]) : SubAt(heap, at).kind # "wake"}
    IN IF Busy(f) /\ ~ Does(f, {"ending"})
       THEN Pending(heap, result[f]) /\ owing = {}
       ELSE Cardinality(owing) = IF Pending(heap, result[f]) THEN 1 ELSE 0

(* In scripts that terminate, a fiber whose promise has settled during an Eval
   is resumed. *)
AwaitsEnd ==
  \A f \in Fibers :
    (Busy(Main) /\ awaiting[f] # 0 /\ ~ Pending(heap, awaiting[f]))
      ~> awaiting[f] = 0
=============================================================================
