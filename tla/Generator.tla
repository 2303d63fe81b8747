------------------------------- MODULE Generator -------------------------------
(***************************************************************************)
(* Generators of internal/vm/vm.go.  Every generator body runs on a        *)
(* goroutine of its own; next() and OpYield hand control back and forth    *)
(* over two unbuffered channels, yieldCh (body to caller) and sentCh       *)
(* (caller to body), and return() closes the channel stop, on which the    *)
(* body selects whenever it is suspended.  The VM itself has no lock: the  *)
(* channels are what keeps two goroutines from interpreting at once.       *)
(*                                                                         *)
(* The script is arbitrary: whichever activation executes JS may call      *)
(* next() or return() on any generator, yield, or finish.  Reentrant says  *)
(* whether it may call them on a generator whose body is executing.        *)
(***************************************************************************)
CONSTANTS Gens,       \* generator objects; g also names the goroutine of its body
          Main,       \* the goroutine that entered RunChunk
          Vals,       \* values passed in and out
          Undefined,  \* the JS value undefined
          NoGen,      \* not inside next()
          Reentrant   \* BOOLEAN: scripts may step a generator from its own body

ASSUME NamesAssumption == Main \notin Gens /\ NoGen \notin Gens \cup {Main}

ASSUME ReentrantAssumption == Reentrant \in BOOLEAN

Goroutines == Gens \cup {Main}

VARIABLES started,  \* genState.started
          done,     \* genState.done
          stop,     \* stop[g]: the channel genCtx.stop is closed
          pc,       \* pc[t]: where goroutine t stands
          callee,   \* callee[t]: the generator whose next() t is inside
          offer,    \* offer[t]: the value t holds out on a channel
          got,      \* got[g]: the value g's last OpYield pushed
          answer    \* answer[t]: what t's last next() or return() answered

vars == <<started, done, stop, pc, callee, offer, got, answer>>

(* js         executes bytecode;
   sending    in advance, at  g.ctx.sentCh <- sent;
   receiving  in advance, at  msg := <-g.ctx.yieldCh;
   yielding   in OpYield, at the select that offers the yielded value;
   parked     in OpYield, at the select that waits for the next one;
   returning  after the body, at the select that offers its result;
   unborn, gone: no goroutine yet, or no more. *)
Places == {"unborn", "js", "sending", "receiving", "yielding", "parked",
           "returning", "gone"}

Init ==
  /\ started = [g \in Gens |-> FALSE]
  /\ done = [g \in Gens |-> FALSE]
  /\ stop = [g \in Gens |-> FALSE]
  /\ pc = [t \in Goroutines |-> IF t = Main THEN "js" ELSE "unborn"]
  /\ callee = [t \in Goroutines |-> NoGen]
  /\ offer = [t \in Goroutines |-> Undefined]
  /\ got = [g \in Gens |-> Undefined]
  /\ answer = [t \in Goroutines |-> [value |-> Undefined, done |-> FALSE]]

Answered(t, v, d) == answer' = [answer EXCEPT ![t] = [value |-> v, done |-> d]]

(* The body of g is somewhere between its resumption and its next yield. *)
Executing(g) == pc[g] \in {"js", "sending", "receiving", "yielding", "returning"}

MayStep(g) == Reentrant \/ ~ Executing(g)

-----------------------------------------------------------------------------
(* next(v), called by the JS that runs on t: genState.advance. *)

AdvanceDone(t, g) ==
  /\ pc[t] = "js" /\ MayStep(g) /\ done[g]
  /\ Answered(t, Undefined, TRUE)
  /\ UNCHANGED <<started, done, stop, pc, callee, offer, got>>

(* The first next() spawns the body; its argument goes nowhere. *)
AdvanceStart(t, g) ==
  /\ pc[t] = "js" /\ MayStep(g) /\ ~ done[g] /\ ~ started[g]
  /\ started' = [started EXCEPT ![g] = TRUE]
  /\ pc' = [pc EXCEPT ![t] = "receiving", ![g] = "js"]
  /\ callee' = [callee EXCEPT ![t] = g]
  /\ UNCHANGED <<done, stop, offer, got, answer>>

(* Slips: next() forgets that the generator is closed, or not started. *)
AdvanceSendClosed(t, g, v) ==
  /\ pc[t] = "js" /\ MayStep(g) /\ started[g]
  /\ pc' = [pc EXCEPT ![t] = "sending"]
  /\ callee' = [callee EXCEPT ![t] = g]
  /\ offer' = [offer EXCEPT ![t] = v]
  /\ UNCHANGED <<started, done, stop, got, answer>>

AdvanceSendUnstarted(t, g, v) ==
  /\ pc[t] = "js" /\ MayStep(g) /\ ~ done[g]
  /\ pc' = [pc EXCEPT ![t] = "sending"]
  /\ callee' = [callee EXCEPT ![t] = g]
  /\ offer' = [offer EXCEPT ![t] = v]
  /\ UNCHANGED <<started, done, stop, got, answer>>

AdvanceSend(t, g, v) ==
  /\ pc[t] = "js" /\ MayStep(g) /\ ~ done[g] /\ started[g]
  /\ pc' = [pc EXCEPT ![t] = "sending"]
  /\ callee' = [callee EXCEPT ![t] = g]
  /\ offer' = [offer EXCEPT ![t] = v]
  /\ UNCHANGED <<started, done, stop, got, answer>>

(* return(v): genState.terminate, then the result object. *)
Terminate(t, g, v) ==
  /\ pc[t] = "js" /\ MayStep(g)
  /\ IF done[g] THEN UNCHANGED <<done, stop>>
                ELSE /\ done' = [done EXCEPT ![g] = TRUE]
                     /\ stop' = [stop EXCEPT ![g] = TRUE]
  /\ Answered(t, v, TRUE)
  /\ UNCHANGED <<started, pc, callee, offer, got>>

-----------------------------------------------------------------------------
(* The body. *)

OpYield(g, v) ==
  /\ pc[g] = "js"
  /\ pc' = [pc EXCEPT ![g] = "yielding"]
  /\ offer' = [offer EXCEPT ![g] = v]
  /\ UNCHANGED <<started, done, stop, callee, got, answer>>

(* invoke comes back.  An exception the body does not catch is dropped by
   advance, which answers as if the body had returned undefined. *)
BodyEnds(g, v) ==
  /\ pc[g] = "js"
  /\ pc' = [pc EXCEPT ![g] = "returning"]
  /\ offer' = [offer EXCEPT ![g] = v]
  /\ UNCHANGED <<started, done, stop, callee, got, answer>>

-----------------------------------------------------------------------------
(* Communications.  An unbuffered send and its receive are one step; a
   select with several ready cases may take any of them. *)

(* sentCh: the suspended body gets its value and executes on. *)
SendArrives(t, g) ==
  /\ pc[t] = "sending" /\ callee[t] = g /\ pc[g] = "parked"
  /\ pc' = [pc EXCEPT ![t] = "receiving", ![g] = "js"]
  /\ got' = [got EXCEPT ![g] = offer[t]]
  /\ UNCHANGED <<started, done, stop, callee, offer, answer>>

(* Slips: the body goes on after a yield without waiting for the next next(),
   or its value goes to the main goroutine, whoever called. *)
YieldArrivesRunning(t, g) ==
  /\ pc[g] = "yielding" /\ pc[t] = "receiving" /\ callee[t] = g
  /\ pc' = [pc EXCEPT ![t] = "js", ![g] = "js"]
  /\ callee' = [callee EXCEPT ![t] = NoGen]
  /\ Answered(t, offer[g], FALSE)
  /\ UNCHANGED <<started, done, stop, offer, got>>

YieldArrivesAtMain(t, g) ==
  /\ pc[g] = "yielding" /\ pc[t] = "receiving" /\ callee[t] = g
  /\ pc' = [pc EXCEPT ![t] = "js", ![g] = "parked"]
  /\ callee' = [callee EXCEPT ![t] = NoGen]
  /\ Answered(Main, offer[g], FALSE)
  /\ UNCHANGED <<started, done, stop, offer, got>>

(* yieldCh, from OpYield: the caller executes on, the body is suspended. *)
YieldArrives(t, g) ==
  /\ pc[g] = "yielding" /\ pc[t] = "receiving" /\ callee[t] = g
  /\ pc' = [pc EXCEPT ![t] = "js", ![g] = "parked"]
  /\ callee' = [callee EXCEPT ![t] = NoGen]
  /\ Answered(t, offer[g], FALSE)
  /\ UNCHANGED <<started, done, stop, offer, got>>

(* yieldCh, from the end of the body. *)
ResultArrives(t, g) ==
  /\ pc[g] = "returning" /\ pc[t] = "receiving" /\ callee[t] = g
  /\ pc' = [pc EXCEPT ![t] = "js", ![g] = "gone"]
  /\ callee' = [callee EXCEPT ![t] = NoGen]
  /\ done' = [done EXCEPT ![g] = TRUE]
  /\ Answered(t, offer[g], TRUE)
  /\ UNCHANGED <<started, stop, offer, got>>

(* Slips: OpYield's second select lacks its stop case, or the selects have a
   default case that gives up. *)
StopObservedLate(g) ==
  /\ pc[g] \in {"yielding", "returning"} /\ stop[g]
  /\ pc' = [pc EXCEPT ![g] = "gone"]
  /\ UNCHANGED <<started, done, stop, callee, offer, got, answer>>

StopByDefault(g) ==
  /\ pc[g] \in {"yielding", "parked", "returning"}
  /\ pc' = [pc EXCEPT ![g] = "gone"]
  /\ UNCHANGED <<started, done, stop, callee, offer, got, answer>>

(* The stop case of the three selects of the body. *)
StopObserved(g) ==
  /\ pc[g] \in {"yielding", "parked", "returning"} /\ stop[g]
  /\ pc' = [pc EXCEPT ![g] = "gone"]
  /\ UNCHANGED <<started, done, stop, callee, offer, got, answer>>

Communicate(g) == \/ \E t \in Goroutines : \/ SendArrives(t, g)
                                           \/ YieldArrives(t, g)
                                           \/ ResultArrives(t, g)
                  \/ StopObserved(g)

Next ==
  \E g \in Gens :
    \/ \E t \in Goroutines : \/ AdvanceDone(t, g)
                             \/ AdvanceStart(t, g)
                             \/ \E v \in Vals : \/ AdvanceSend(t, g, v)
                                                \/ Terminate(t, g, v)
    \/ \E v \in Vals : OpYield(g, v)
    \/ \E v \in Vals \cup {Undefined} : BodyEnds(g, v)
    \/ Communicate(g)

Spec == Init /\ [][Next]_vars

(* The Go scheduler runs a goroutine whose channel operation can proceed.
   Nothing is assumed of the script: it may compute for ever. *)
FairSpec == Spec /\ \A g \in Gens : WF_vars(Communicate(g))

-----------------------------------------------------------------------------
(* The fields of genCtx and genState and the places a goroutine can be at. *)
TypeOK ==
  LET Payloads == Vals \cup {Undefined} IN
  /\ started \in [Gens -> BOOLEAN]
  /\ done \in [Gens -> BOOLEAN]
  /\ stop \in [Gens -> BOOLEAN]
  /\ pc \in [Goroutines -> Places]
  /\ callee \in [Goroutines -> Gens \cup {NoGen}]
  /\ offer \in [Goroutines -> Payloads]
  /\ got \in [Gens -> Payloads]
  /\ answer \in [Goroutines -> [value : Payloads, done : BOOLEAN]]

(* A goroutine that executes, or holds out a value its partner waits for. *)
HoldsTurn(t) == pc[t] \in {"js", "sending", "yielding", "returning"}

(* "the caller and body alternate": the lock-free interpreter state is never
   used by two goroutines, because one goroutine at most has the turn, and it
   passes it on only by a channel operation.  True of every script. *)
OneTurn == \A t, u \in Goroutines : HoldsTurn(t) /\ HoldsTurn(u) => t = u

(* No generator operation blocks for ever in a script without re-entrance:
   whoever holds out a value on an unbuffered channel has its partner waiting
   at the other end, and an executing body has exactly one caller to answer. *)
PartnersWait ==
  /\ \A t \in Goroutines : pc[t] = "sending" => pc[callee[t]] = "parked"
  /\ \A g \in Gens : Executing(g) <=>
       \E t \in Goroutines : pc[t] = "receiving" /\ callee[t] = g
  /\ \A t, u \in Goroutines :
       pc[t] = "receiving" /\ pc[u] = "receiving" /\ callee[t] = callee[u] => t = u

(* Once closed, a generator never answers another value of the body: return()
   between two yields is final, whichever goroutine gets to run first. *)
ClosedForGood ==
  [][\A g \in Gens : done[g] => /\ done'[g]
                                /\ got'[g] = got[g]
                                /\ ~ (pc[g] = "yielding" /\ pc'[g] = "parked")]_vars

(* The promise of terminate's comment: the goroutine of a generator that was
   return()ed unwinds, whatever the script does afterwards. *)
StoppedBodiesUnwind ==
  \A g \in Gens : stop[g] ~> pc[g] \in {"unborn", "gone"}

(* A caller of next() whose body has yielded or ended gets its answer. *)
CallersAnswered ==
  \A t \in Goroutines, g \in Gens :
    (pc[t] = "receiving" /\ callee[t] = g /\ pc[g] \in {"yielding", "returning"})
      ~> pc[t] = "js"

-----------------------------------------------------------------------------
(* The script's view: a parked body is suspended, and who has the turn runs. *)

CallerOf(g) ==
  IF \E t \in Goroutines : pc[t] = "receiving" /\ callee[t] = g
  THEN CHOOSE t \in Goroutines : pc[t] = "receiving" /\ callee[t] = g
  ELSE NoGen

Life(g) == IF done[g] THEN "closed"
           ELSE IF ~ started[g] THEN "fresh"
           ELSE IF pc[g] = "parked" THEN "suspended" ELSE "active"

Protocol == INSTANCE IteratorProtocol
            WITH life    <- [g \in Gens |-> Life(g)],
                 caller  <- [g \in Gens |-> CallerOf(g)],
                 running <- CHOOSE t \in Goroutines : HoldsTurn(t),
                 Nobody  <- NoGen

(* Two goroutines, two channels and a close amount to a coroutine: control
   alternates between a caller and the body, the answer of a step reaches the
   caller that asked for it, and a closed generator is never resumed. *)
ImplementsProtocol == Protocol!Spec
=============================================================================
