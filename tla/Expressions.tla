----------------------------- MODULE Expressions -----------------------------
(***************************************************************************)
(* The parser, the compiler of expressions and patterns, the machine that  *)
(* runs its code, how sources are written and what they mean, together:    *)
(* the properties.                                                         *)
(***************************************************************************)
EXTENDS ExprMachine, FiniteSets

Outcomes == {"reading", "read", "rejected", "panicked", "running", "done", "thrown", "failed"}

WellFormed(v) ==
  CASE Type(v) \in {"object", "array"} ->
         Payload(v) \in DOMAIN heap /\ heap[Payload(v)].kind = Type(v)
    [] Type(v) = "function" -> Payload(v) \in Natives
    [] OTHER -> Type(v) \in {"undefined", "null", "boolean", "number", "string"}

(* Variables, operands, elements and properties hold values, a reference is to
   an object of its kind, and the instruction pointer stays in the code or just
   behind it. *)
TypeOK ==
  /\ pc \in 1 .. Len(code) + 1 /\ outcome \in Outcomes
  /\ \A i \in DOMAIN stack : WellFormed(stack[i])
  /\ \A x \in DOMAIN env : WellFormed(env[x])
  /\ \A i \in DOMAIN heap :
       /\ \A k \in DOMAIN heap[i].items : WellFormed(heap[i].items[k])
       /\ \A k \in DOMAIN heap[i].props : WellFormed(heap[i].props[k].val)

(* Whatever the tokens of a source are, parsing ends with a program or with an
   error: it never reads behind the end of input, which would panic. *)
ParserNeverPanics == outcome # "panicked"

(* A tree written down after the grammar of the language, with the parentheses
   its precedences ask for or with all that are allowed, is read as itself. *)
ReadsBack == (outcome # "reading" /\ prog.whole) => body = prog.trees

(* The compiler keeps no count of the operand stack: every emit function relies
   on what its comments say of it.  Whatever jumps are taken, an instruction
   finds as many operands as the code before it was meant to leave, and the
   program ends with its value and nothing else. *)
OperandsBalanced ==
  /\ (outcome = "running" /\ pc <= Len(code)) => Len(stack) = Instr.at
  /\ outcome = "done" => Len(stack) = 1

(* Values are well formed, and the operand stack is as deep as the emitters meant
   it to be. *)
OperandsSound == TypeOK /\ OperandsBalanced

(* What a script can see of the heap from a set of places. *)
Mentioned(h, i) ==
  {Payload(v) : v \in {w \in Range(h[i].items) \cup {p.val : p \in Range(LiveProps(h[i]))} :
                         Type(w) \in {"object", "array"}}}

RECURSIVE Closure(_, _)
Closure(h, S) ==
  LET T == S \cup UNION {Mentioned(h, i) : i \in S} IN IF T = S THEN S ELSE Closure(h, T)

Roots(vs) == {Payload(v) : v \in {w \in vs : Type(w) \in {"object", "array"}}}

Seen(e, h, v) ==
  LET places == Closure(h, Roots({e[x] : x \in DOMAIN Globals} \cup {v}))
  IN [i \in places |-> <<h[i].kind, h[i].items, LiveProps(h[i])>>]

(* When the code has run, the value, the variables, the objects in reach and the
   calls made, with their receivers and arguments, in their order, are those of
   the source; and it throws or fails where the source does. *)
ExpressionsFollowSource ==
  outcome \in {"done", "thrown", "failed"} =>
    LET m == prog.meaning
    IN /\ outcome = IF m.stop = "" THEN "done" ELSE m.stop
       /\ \A x \in DOMAIN Globals : env[x] = m.env[x]
       /\ log = m.log
       /\ outcome = "done" =>
            /\ stack[Len(stack)] = m.val
            /\ Seen(env, heap, m.val) = Seen(m.env, m.heap, m.val)
       /\ outcome # "done" => Seen(env, heap, Undefined) = Seen(m.env, m.heap, Undefined)
=============================================================================
