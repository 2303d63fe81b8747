------------------------------ MODULE ControlFlow ------------------------------
(***************************************************************************)
(* The compiler and the interpreter together: programs lowered as Lowering *)
(* says, run by StackMachine, against what Completions says they mean.  A  *)
(* program is a record with the statements of the script (main) and of one *)
(* function (f) that it may call.                                          *)
(***************************************************************************)
EXTENDS StackMachine, Lowering, Completions

Compiled(p) ==
  [source |-> p, chunk |-> [main |-> Compile(p.main), f |-> CompileFunction(p.f)]]

(* No break or continue leaves behind what an inner for-of or switch keeps on
   the operand stack. *)
KeepsContract(p) == Jumps(p.main) \cup Jumps(p.f) \subseteq {0}

(* The statements a statement in completion position passes that position on to. *)
RECURSIVE Completing(_)
Completing(ss) ==
  IF ss = <<>> THEN {}
  ELSE LET s == Last(ss)
           Parts == UNION {Completing(<<s.parts[i]>>) : i \in DOMAIN s.parts}
           Arms == DOMAIN s.parts \ (IF s.kind = "try-catch" THEN {} ELSE {Len(s.parts)})
       IN {s} \cup CASE s.kind \in {"if", "labelled"} -> Parts
                      [] s.kind \in TryKinds ->
                           UNION {Completing(s.parts[i].parts) : i \in Arms}
                      [] OTHER -> {}

RECURSIVE HasTry(_)
HasTry(s) == s.kind \in TryKinds \/ \E i \in DOMAIN s.parts : HasTry(s.parts[i])

(* The finally block of a try in the completion position of the script runs
   above the value of the try, which the handlers in it do not count. *)
FinallyPlain(p) ==
  \A s \in Completing(p.main) :
    s.kind \in {"try-finally", "try-catch-finally"} => ~ HasTry(Last(s.parts))

Disciplined(p) == KeepsContract(p) /\ FinallyPlain(p)

(* What the program means, given how its conditions came out. *)
Meaning(rethrows) == Run(prog.source.main, Start(taken, prog.source, MaxCalls, rethrows))

Halted == outcome # "running"

(* The two ways of saying how a program ended. *)
SameEnd(r) == outcome = CASE r.done = "normal" -> "returned"
                          [] r.done = "throw"  -> "thrown"
                          [] OTHER -> r.done

-----------------------------------------------------------------------------
(* The code of a disciplined program agrees with itself about the depth of the
   operand stack: loops keep the "stack contract" of emitForOf, break and the
   normal exit reach the end of a switch alike, handlers record the depth at
   the entry of their try. *)
DisciplinedVerified ==
  Disciplined(prog.source) => \A f \in Fns : Verified(prog.chunk[f])

(* The compiled program executes the statements the source says, in that order,
   and ends as it says, with finally where emit_stmt.go places it: loops,
   labels, fall-through, handlers of every nesting, calls and limits. *)
Faithful == Halted /\ Disciplined(prog.source) =>
              LET r == Meaning(FALSE) IN r.log = log /\ r.left = <<>> /\ SameEnd(r)

(* emitStmt on a try without catch: the exception is rethrown "so a finally
   clause still runs". *)
FinallyRuns == Halted /\ Disciplined(prog.source) => Meaning(TRUE).log = log
=============================================================================
