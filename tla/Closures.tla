------------------------------- MODULE Closures -------------------------------
(***************************************************************************)
(* Scopes and Frames together against what the programs mean: a variable   *)
(* is a location of its own, made when its declaration or its function is  *)
(* entered, and a function is its text with the names visible where it was *)
(* made.                                                                   *)
(***************************************************************************)
EXTENDS Frames, Scopes

(* Variables: env maps names to locations, store holds their values. *)
Bound(st, x, v) ==
  [st EXCEPT !.store = Append(@, v),
             !.env = [y \in DOMAIN @ \cup {x} |-> IF y = x THEN Len(st.store) + 1 ELSE @[y]]]

Lookup(st, x) == IF x \in DOMAIN st.env THEN st.store[st.env[x]] ELSE st.globals[x]

Assigned(st, x, v) == IF x \in DOMAIN st.env THEN [st EXCEPT !.store[st.env[x]] = v]
                      ELSE [st EXCEPT !.globals[x] = v]

(* In the script, names are globals. *)
Declared(st, x, v) == IF st.inner THEN Bound(st, x, v) ELSE Assigned(st, x, v)

Made(st, s) == [st EXCEPT !.funs = Append(@, [text |-> s, env |-> st.env])]

RECURSIVE BoundAhead(_, _, _)
BoundAhead(st, ds, n) ==
  IF ds = <<>> THEN st
  ELSE IF Head(ds).kind = "let" THEN BoundAhead(Declared(st, Head(ds).name, Undefined), Tail(ds), n)
  ELSE BoundAhead(Declared(st, Head(ds).name, Fn(n)), Tail(ds), n + 1)

(* The names that a list of statements declares are visible in all of it; its
   functions exist before the first statement, and see one another and
   themselves. *)
Hoisted(ss, st) ==
  LET Kind(k) == SelectSeq(ss, LAMBDA s : s.kind \in k)
      fs  == Kind({"function"})
      st1 == BoundAhead(st, Kind({"let", "function"}), Len(st.funs) + 1)
  IN [st1 EXCEPT !.funs = @ \o [i \in DOMAIN fs |-> [text |-> fs[i], env |-> st1.env]]]

FieldOf(x) == IF x.tag = "obj" THEN [tag |-> "num", n |-> x.n] ELSE Undefined

(* The names of a pattern take the fields of x: OpGetProp of undefined is no
   exception here, but undefined. *)
RECURSIVE BoundFields(_, _, _)
BoundFields(st, xs, x) ==
  IF xs = <<>> THEN st ELSE BoundFields(Bound(st, Head(xs), FieldOf(x)), Tail(xs), x)

(* The parameters ps for n arguments x: undefined where there is none. *)
RECURSIVE BoundParams(_, _, _, _)
BoundParams(st, ps, n, x) ==
  IF ps = <<>> THEN st
  ELSE LET p   == Head(ps)
           arg == IF p.rest THEN [tag |-> "rest", n |-> n] ELSE IF n > 0 THEN x ELSE Undefined
       IN BoundParams(BoundFields(Bound(st, p.name, arg), p.pattern, arg),
                      Tail(ps), IF n > 0 THEN n - 1 ELSE 0, x)

(* The scope of a call of fun with n arguments x. *)
Entered(st, fun, n, x) ==
  LET st1 == BoundParams([st EXCEPT !.env = fun.env, !.inner = TRUE], fun.text.params, n, x)
  IN IF fun.text.kind = "fun" THEN st1 ELSE Bound(st1, "arguments", [tag |-> "args", n |-> n])

RECURSIVE Exec(_, _), Run(_, _), RunList(_, _), RunBlock(_, _), RunCall(_, _)

Run(ss, st) == IF ss = <<>> \/ st.done # "normal" THEN st ELSE Run(Tail(ss), Exec(Head(ss), st))

RunList(ss, st) == Run(ss, Hoisted(ss, st))

(* The block's bindings end with it. *)
RunBlock(ss, st) == [RunList(ss, st) EXCEPT !.env = st.env]

RunCall(s, st) ==
  LET v      == Lookup(st, s.name)
      deeper == IF s.kind = "native" THEN [st EXCEPT !.natives = @ + 1, !.depth = 0]
                ELSE [st EXCEPT !.depth = @ + 1]
      fun    == st.funs[v.n]
      r      == RunList(fun.text.body, Entered(deeper, fun, s.n, s.val))
  IN IF \/ v.tag # "fn"
        \/ s.kind = "native" /\ st.natives = MaxNative
        \/ s.kind = "call" /\ st.depth = MaxCalls
       THEN [st EXCEPT !.done = "throw"]
     ELSE [r EXCEPT !.env = st.env, !.inner = st.inner, !.depth = st.depth, !.natives = st.natives,
                    !.done = IF r.done = "throw" THEN "throw" ELSE "normal"]

Exec(s, st) ==
  CASE s.kind \in {"let", "set"} -> Assigned(st, s.name, s.val)
    [] s.kind = "log" -> [st EXCEPT !.log = Append(@, Lookup(st, s.name))]
    [] s.kind = "fun" -> Assigned(Made(st, s), s.name, Fn(Len(st.funs) + 1))
    [] s.kind = "function" -> st
    [] s.kind \in {"call", "native"} -> RunCall(s, st)
    [] s.kind \in {"throw", "return"} -> [st EXCEPT !.done = s.kind]
    [] s.kind = "block" -> RunBlock(s.body, st)
    [] s.kind = "try" ->
         LET r == RunBlock(s.body, st)
         IN IF r.done = "throw" THEN RunBlock(s.handler, [r EXCEPT !.done = "normal"]) ELSE r

Meaning(ss) ==
  RunList(ss, [env |-> <<>>, store |-> <<>>, funs |-> <<[text |-> None]>>, inner |-> FALSE,
           globals |-> [x \in Names |-> Undefined], log |-> <<>>, done |-> "normal",
           depth |-> 0, natives |-> 0])

(* A program to run: its code, and what it means. *)
Program(ss) == [protos |-> Compile(ss), meaning |-> Meaning(ss)]

-----------------------------------------------------------------------------
(* Functions are compared as functions, not by when they were made. *)
Shown(f) == [x \in DOMAIN f |-> IF f[x].tag = "fn" THEN Fn(0) ELSE f[x]]

(* What the compiler emits is what the interpreter relies on; in particular a
   function is marked when a function inside it, at any depth, captures one of
   its variables: the pool is safe only because of that (LocalsEscape). *)
CompilerMarks == WellFormed(prog)

(* UpvalueDesc: closures that captured the same local share it, "the by-
   reference closure semantics JS expects".  A program logs what it means:
   names find the binding in scope, closures see later writes and keep their
   variables after the return of the function, each call has new variables,
   absent parameters are undefined although their slots are recycled. *)
ClosureSemantics ==
  outcome # "running" =>
    LET r == prog.meaning
    IN r.log = log /\ Shown(r.globals) = Shown(globals) /\ (r.done = "throw") = (outcome = "thrown")
=============================================================================
