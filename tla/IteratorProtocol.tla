--------------------------- MODULE IteratorProtocol ---------------------------
(***************************************************************************)
(* What makeGenerator (internal/vm/vm.go) promises a script: a generator   *)
(* is a coroutine of whoever calls next().  One activation runs at a time; *)
(* next(v) resumes the body, which sees v as the value of its yield, and   *)
(* answers the value the body yields or returns; return(v) closes the      *)
(* generator.  No goroutine, channel or select exists at this level;       *)
(* Generator is shown to implement it.                                     *)
(***************************************************************************)
CONSTANTS Gens,       \* generator objects
          Main,       \* the activation that is no generator's body
          Vals,       \* values passed in and out
          Undefined,  \* the JS value undefined
          Nobody      \* no activation

Activations == Gens \cup {Main}

VARIABLES life,     \* life[g]: fresh, active, suspended or closed
          caller,   \* caller[g]: who waits for g's next yield, or Nobody
          running,  \* the activation that executes
          got,      \* got[g]: the value g's last yield evaluated to
          answer    \* answer[t]: what t's last next() or return() answered

absVars == <<life, caller, running, got, answer>>

Answered(t, v, d) == answer' = [answer EXCEPT ![t] = [value |-> v, done |-> d]]

Init ==
  /\ life = [g \in Gens |-> "fresh"]
  /\ caller = [g \in Gens |-> Nobody]
  /\ running = Main
  /\ got = [g \in Gens |-> Undefined]
  /\ answer = [t \in Activations |-> [value |-> Undefined, done |-> FALSE]]

(* next(v) on a generator that has not finished: the first argument a body
   is started with is lost, a later one becomes the value of the yield. *)
Resume(t, g, v) ==
  /\ running = t /\ life[g] \in {"fresh", "suspended"}
  /\ life' = [life EXCEPT ![g] = "active"]
  /\ caller' = [caller EXCEPT ![g] = t]
  /\ running' = g
  /\ got' = IF life[g] = "fresh" THEN got ELSE [got EXCEPT ![g] = v]
  /\ UNCHANGED answer

(* next(v) or return(v) on a closed generator. *)
AnswerClosed(t, g, v) ==
  /\ running = t /\ life[g] = "closed"
  /\ Answered(t, v, TRUE)
  /\ UNCHANGED <<life, caller, running, got>>

(* The running body hands a value to the activation that resumed it, and
   waits or is over. *)
HandBack(g, v, d) ==
  /\ running = g
  /\ life' = [life EXCEPT ![g] = IF d THEN "closed" ELSE "suspended"]
  /\ running' = caller[g]
  /\ caller' = [caller EXCEPT ![g] = Nobody]
  /\ Answered(caller[g], v, d)
  /\ UNCHANGED got

(* return(v) on a generator that is not running. *)
Close(t, g, v) ==
  /\ running = t /\ life[g] \in {"fresh", "suspended"}
  /\ life' = [life EXCEPT ![g] = "closed"]
  /\ Answered(t, v, TRUE)
  /\ UNCHANGED <<caller, running, got>>

Next == \E g \in Gens, v \in Vals \cup {Undefined} :
          \/ \E t \in Activations : \/ Resume(t, g, v)
                                    \/ AnswerClosed(t, g, v)
                                    \/ Close(t, g, v)
          \/ \E d \in BOOLEAN : HandBack(g, v, d)

Spec == Init /\ [][Next]_absVars
=============================================================================
