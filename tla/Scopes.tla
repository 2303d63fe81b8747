-------------------------------- MODULE Scopes --------------------------------
(***************************************************************************)
(* How internal/compiler gives names to slots, upvalues and globals, and   *)
(* what code functions become, for Frames.  The compilers of a function    *)
(* and of those around it are a stack, the script's first; protos are the  *)
(* functions already compiled.                                             *)
(*                                                                         *)
(* Statements are records: let x = v, set (x = v), log x, fun (x = arrow   *)
(* function), function (a declaration), call and native (a call of x from  *)
(* the script, or through a native function), block, try, throw, return.   *)
(***************************************************************************)
EXTENDS Integers, Sequences, SequencesExt

None == [kind |-> "global", slot |-> 0, name |-> "undefined"]
Undef == [tag |-> "undef", n |-> 0]

NewCompiler == [code |-> <<>>, handlers |-> <<>>, scopes |-> <<[locals |-> <<>>, start |-> 0]>>,
                next |-> 0, max |-> 0, upvalues |-> <<>>, descs |-> <<>>,
                localsEscape |-> FALSE, usesArguments |-> FALSE]

Top(c) == c.stack[Len(c.stack)]
WithTop(c, k) == [c EXCEPT !.stack[Len(c.stack)] = k]

-----------------------------------------------------------------------------
(* Scopes: the locals of a scope are a sequence of <<name, slot>>. *)

EnterScope(c) ==
  WithTop(c, [Top(c) EXCEPT !.scopes = Append(@, [locals |-> <<>>, start |-> Top(c).next])])

ExitScope(c) ==
  WithTop(c, [Top(c) EXCEPT !.scopes = Front(@), !.next = Last(Top(c).scopes).start])

Redeclares(c, x) == \E i \in DOMAIN Last(Top(c).scopes).locals :
                      Last(Top(c).scopes).locals[i][1] = x

(* The script's own names are globals. *)
Declare(c, x) ==
  IF Len(c.stack) = 1 THEN c
  ELSE IF Redeclares(c, x) THEN [c EXCEPT !.error = TRUE]
  ELSE LET k == Top(c)
           n == k.next + 1
       IN WithTop(c, [k EXCEPT !.scopes[Len(k.scopes)].locals = Append(@, <<x, n>>),
                               !.next = n, !.max = IF n > @ THEN n ELSE @])

Holding(k, x) == {s \in DOMAIN k.scopes : \E i \in DOMAIN k.scopes[s].locals :
                                            k.scopes[s].locals[i][1] = x}
Largest(S) == CHOOSE i \in S : \A j \in S : j <= i
(* Slip: the outermost scope that has the name is taken. *)
SlotOfOuter(k, x) == LET ls == k.scopes[CHOOSE s \in Holding(k, x) :
                                          \A t \in Holding(k, x) : s <= t].locals
                     IN (CHOOSE l \in ToSet(ls) : l[1] = x)[2]

SlotOf(k, x) == LET ls == k.scopes[Largest(Holding(k, x))].locals
                IN (CHOOSE l \in ToSet(ls) : l[1] = x)[2]

(* addUpvalue: the function at depth d captures slot or upvalue i of the one around. *)
AddUpvalue(c, d, x, i, isLocal) ==
  [c EXCEPT !.stack[d].upvalues = Append(@, x),
            !.stack[d].descs = Append(@, [index |-> i, isLocal |-> isLocal])]

(* Slip: the function that captures is marked, not the one captured from. *)
MarkCapturer(c, d) == [c EXCEPT !.stack[d].localsEscape = TRUE]

MarkOwner(c, d) == [c EXCEPT !.stack[d - 1].localsEscape = TRUE]

(* resolve: the reference x is at depth d, and the compilers afterwards. *)
RECURSIVE Resolve(_, _, _)
Resolve(c0, d, x) ==
  LET c == IF x = "arguments" THEN [c0 EXCEPT !.stack[d].usesArguments = TRUE] ELSE c0
      k == c.stack[d]
      known == {i \in DOMAIN k.upvalues : k.upvalues[i] = x}
  IN IF Holding(k, x) # {}
       THEN [c |-> c, ref |-> [kind |-> "local", slot |-> SlotOf(k, x), name |-> x]]
     ELSE IF known # {}
       THEN [c |-> c, ref |-> [kind |-> "up", slot |-> Largest(known), name |-> x]]
     ELSE IF d = 1 THEN [c |-> c, ref |-> [kind |-> "global", slot |-> 0, name |-> x]]
     ELSE LET r == Resolve(c, d - 1, x)
              up == [kind |-> "up", slot |-> Len(k.upvalues) + 1, name |-> x]
          IN CASE r.ref.kind = "global" -> r
               [] r.ref.kind = "local" ->
                    [c |-> AddUpvalue(MarkOwner(r.c, d), d, x, r.ref.slot, TRUE), ref |-> up]
               [] r.ref.kind = "up" ->
                    [c |-> AddUpvalue(r.c, d, x, r.ref.slot, FALSE), ref |-> up]

Resolved(c, x) == Resolve(c, Len(c.stack), x)

-----------------------------------------------------------------------------
(* Code. *)

Emit(c, op, ref, val, n) ==
  WithTop(c, [Top(c) EXCEPT !.code = Append(@, [op |-> op, ref |-> ref, val |-> val, n |-> n])])

Here(c) == Len(Top(c).code) + 1

(* A statement about x with the operands v and n. *)
EmitRef(c, op, x, v, n) == LET r == Resolved(c, x) IN Emit(r.c, op, r.ref, v, n)

(* emitDestructure of the object in slot n into new locals xs. *)
RECURSIVE Destructure(_, _, _)
Destructure(c, n, xs) ==
  IF xs = <<>> \/ c.error THEN c
  ELSE Destructure(EmitRef(Declare(c, Head(xs)), "field", Head(xs), Undef, n), n, Tail(xs))

(* declareParams: a slot per parameter, in order; a pattern declares its names
   after the slot it takes apart. *)
RECURSIVE DeclareParams(_, _)
DeclareParams(c, ps) ==
  IF ps = <<>> \/ c.error THEN c
  ELSE LET d == Declare(c, Head(ps).name)
       IN DeclareParams(Destructure(d, Top(d).next, Head(ps).pattern), Tail(ps))

RECURSIVE EmitStmt(_, _), EmitAll(_, _), CompileFunction(_, _, _), EmitBlock(_, _)

EmitAll(c, ss) == IF ss = <<>> \/ c.error THEN c ELSE EmitAll(EmitStmt(c, Head(ss)), Tail(ss))

(* compileFunction and compileArrowFunction: the compiled function is the last
   of protos; only a function that is no arrow has a slot for arguments. *)
CompileFunction(c, f, arrow) ==
  LET c1 == DeclareParams([c EXCEPT !.stack = Append(@, NewCompiler)], f.params)
      c2 == IF arrow THEN c1 ELSE Declare(c1, "arguments")
      c3 == Emit(EmitAll(c2, f.body), "return", None, Undef, 0)
      k  == Top(c3)
      rest == f.params # <<>> /\ Last(f.params).rest
  IN [error |-> c3.error, stack |-> Front(c3.stack),
      protos |-> Append(c3.protos,
        [code |-> k.code, handlers |-> k.handlers, size |-> k.max,
         arity |-> Len(f.params) - (IF rest THEN 1 ELSE 0), hasRest |-> rest,
         hasArguments |-> ~ arrow /\ k.usesArguments,
         argumentsSlot |-> IF arrow THEN 0 ELSE SlotOf(k, "arguments"),
         descs |-> k.descs, localsEscape |-> k.localsEscape])]

(* OpClosure on the function just compiled, stored at r. *)
EmitClosure(c, ref) == Emit(c, "closure", ref, Undef, Len(c.protos))

EmitBlock(c, ss) == ExitScope(EmitAll(EnterScope(c), ss))

EmitStmt(c, s) ==
  CASE s.kind = "let" ->
         EmitRef(Declare(c, s.name), "store", s.name, s.val, 0)
    [] s.kind = "set" -> EmitRef(c, "store", s.name, s.val, 0)
    [] s.kind = "log" -> EmitRef(c, "log", s.name, Undef, 0)
    [] s.kind = "fun" ->                                \* the target is resolved first
         LET r == Resolved(c, s.name)
         IN EmitClosure(CompileFunction(r.c, s, TRUE), r.ref)
    [] s.kind = "function" ->                           \* the name is declared last
         LET d == Declare(CompileFunction(c, s, FALSE), s.name)
             r == Resolved(d, s.name)
         IN EmitClosure(r.c, r.ref)
    [] s.kind \in {"call", "native"} -> EmitRef(c, s.kind, s.name, s.val, s.n)
    [] s.kind = "throw" -> Emit(c, "throw", None, Undef, 0)
    [] s.kind = "return" -> Emit(c, "return", None, Undef, 0)
    [] s.kind = "block" -> EmitBlock(c, s.body)
    [] s.kind = "try" ->
         LET c1   == EmitBlock(c, s.body)
             jump == Here(c1)
             c2   == EmitBlock(Emit(c1, "jump", None, Undef, 0), s.handler)
         IN WithTop(c2, [Top(c2) EXCEPT
              !.code[jump].n = Here(c2),
              !.handlers = Append(@, [start |-> Here(c), end |-> jump, pc |-> jump + 1])])

(* Compile: the script; its proto is the first, those inside follow.  Nothing
   comes of a program that declares a name twice in a scope. *)
Compile(ss) ==
  LET Hole == [code |-> <<>>]
      c == Emit(EmitAll([error |-> FALSE, stack |-> <<NewCompiler>>, protos |-> <<Hole>>], ss),
                "return", None, Undef, 0)
  IN IF c.error THEN <<>> ELSE
     [c.protos EXCEPT ![1] =
        [code |-> Top(c).code, handlers |-> Top(c).handlers, size |-> Top(c).max,
         arity |-> 0, hasRest |-> FALSE, hasArguments |-> FALSE, argumentsSlot |-> 0,
         descs |-> <<>>, localsEscape |-> Top(c).localsEscape]]
=============================================================================
