------------------------------ MODULE Completions ------------------------------
(***************************************************************************)
(* What the statements of Lowering mean.  An execution is a record: the    *)
(* outcomes of conditions and iterator steps still to come, the expression *)
(* statements so far and how the last statement completed.  A finally      *)
(* block runs on the normal exit of its try and after a caught exception,  *)
(* as the comment above its lowering says; the field rethrows says whether *)
(* it also runs when there is no catch and the try throws.                 *)
(***************************************************************************)
EXTENDS Integers, Sequences, SequencesExt

(* body[f]: the statements of function f; calls: how many are on the way. *)
Start(choices, body, limit, rethrows) ==
  [left |-> choices, log |-> <<>>, done |-> "normal", label |-> "",
   calls |-> 0, body |-> body, limit |-> limit, rethrows |-> rethrows]

Normal(r) == r.done = "normal"

Completes(r, how) == [r EXCEPT !.done = how]

Logged(r, name) == [r EXCEPT !.log = Append(@, name)]

(* The next outcome is used up; with none left the execution is out. *)
Asked(r) == IF r.left = <<>> THEN Completes(r, "out") ELSE [r EXCEPT !.left = Tail(@)]

(* A break or continue that is for the statement labelled l. *)
Meant(r, how, l) == r.done = how /\ r.label \in {"", l}

RECURSIVE Exec(_, _, _), Run(_, _), Round(_, _, _), Again(_, _, _), Match(_, _, _)

Run(ss, r) == IF ss = <<>> \/ ~ Normal(r) THEN r
              ELSE Run(Tail(ss), Exec(Head(ss), "", r))

ExecIf(s, r) ==
  LET a == Asked(r)
      arm == IF Normal(a) /\ Head(r.left) = "yes" THEN 1 ELSE 2
  IN IF arm \in DOMAIN s.parts /\ Normal(a) THEN Exec(s.parts[arm], "", a) ELSE a

(* A loop, from its test (or next()) on, and from the end of its body on. *)
Round(s, l, r) ==
  LET a == Asked(r)
  IN IF ~ Normal(a) \/ Head(r.left) \in {"no", "last"} THEN a
     ELSE IF Head(r.left) = "throws" THEN Completes(a, "throw")
     ELSE Again(s, l, Exec(s.parts[1], "", a))

Again(s, l, r) ==
  LET a == Completes(r, "normal")
  IN IF Normal(r) \/ Meant(r, "continue", l)
     THEN Round(s, l, IF s.kind = "for" THEN Logged(a, "update") ELSE a)
     ELSE IF Meant(r, "break", l) THEN a ELSE r

(* A switch, from the test of clause i on. *)
Match(s, i, r) ==
  LET a == Asked(r)
  IN IF i > Len(s.parts) THEN IF s.kind = "switch" THEN r ELSE Run(s.parts, r)
     ELSE IF ~ Normal(a) THEN a
     ELSE IF Head(r.left) = "yes" THEN Run(SubSeq(s.parts, i, Len(s.parts)), a)
     ELSE Match(s, i + 1, a)

ExecSwitch(s, l, r) ==
  LET a == Match(s, IF s.kind = "switch" THEN 1 ELSE 2, r)
  IN IF Meant(a, "break", l) THEN Completes(a, "normal") ELSE a

ExecTry(s, r) ==
  LET b == Run(s.parts[1].parts, r)
      c == IF s.kind # "try-finally" /\ b.done = "throw"
           THEN Run(s.parts[2].parts, Completes(b, "normal")) ELSE b
      f == Run(Last(s.parts).parts, Completes(c, "normal"))
      runs == Normal(c) \/ (r.rethrows /\ s.kind = "try-finally" /\ c.done = "throw")
  IN IF s.kind = "try-catch" \/ ~ runs THEN c
     ELSE IF Normal(f) THEN [f EXCEPT !.done = c.done, !.label = c.label] ELSE f

ExecCall(s, r) ==
  LET b == Run(r.body[s.label], [r EXCEPT !.calls = @ + 1])
      a == [b EXCEPT !.calls = r.calls]
  IN IF r.calls >= r.limit THEN Completes(r, "throw")
     ELSE IF b.done = "return" THEN Completes(a, "normal") ELSE a

(* Statement s, directly under label l. *)
Exec(s, l, r) ==
  CASE s.kind = "expr"     -> Logged(r, s.label)
    [] s.kind = "call"     -> ExecCall(s, r)
    [] s.kind = "block"    -> Run(s.parts, r)
    [] s.kind = "if"       -> ExecIf(s, r)
    [] s.kind \in {"for", "while", "forof"} -> Round(s, l, r)
    [] s.kind = "dowhile"  -> Again(s, l, Exec(s.parts[1], "", r))
    [] s.kind \in {"switch", "switch-default"} -> ExecSwitch(s, l, r)
    [] s.kind \in {"return", "throw"} -> Completes(r, s.kind)
    [] s.kind \in {"break", "continue"} -> [Completes(r, s.kind) EXCEPT !.label = s.label]
    [] s.kind = "labelled" -> Exec(s.parts[1], s.label, r)
    [] s.kind \in {"try-catch", "try-finally", "try-catch-finally"} -> ExecTry(s, r)
=============================================================================
