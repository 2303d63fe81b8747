------------------------------- MODULE Lowering -------------------------------
(***************************************************************************)
(* How internal/compiler/emit_stmt.go lowers the statements that steer     *)
(* control to code for StackMachine, with the pieces of bytecode.go it     *)
(* uses (Emit, EmitJump, PatchJumpTo, AddHandler).  A statement is a       *)
(* record: its kind, its label (of break, continue and labelled; the name  *)
(* of an expression statement) and its parts.  Only TLC evaluates this     *)
(* module: emitStmt is recursive and so are the operators here.            *)
(***************************************************************************)
EXTENDS Bytecode, Sequences, SequencesExt, FiniteSets

Stmt(k, l, ps) == [kind |-> k, label |-> l, parts |-> ps]

Expr(name) == Stmt("expr", name, <<>>)
Leaf(k, l) == Stmt(k, l, <<>>)
Compound(k, ps) == Stmt(k, "", ps)

LoopKinds == {"for", "while", "dowhile", "forof"}
SwitchKinds == {"switch", "switch-default"}   \* the default clause comes first
TryKinds == {"try-catch", "try-finally", "try-catch-finally"}

-----------------------------------------------------------------------------
(* The compiler: chunk, loop stack, pendingLabel.  depth is the depth of the
   operand stack at this point of the code, which the Go code leaves implicit. *)

NewCompiler == [code |-> <<>>, handlers |-> <<>>, loops |-> <<>>,
                pendingLabel |-> "", depth |-> 0]

EmitArg(c, op, arg) ==
  [c EXCEPT !.code = Append(@, [op |-> op, to |-> 0, arg |-> arg, at |-> c.depth]),
            !.depth = @ + Effect(op)]

Emit(c, op) == EmitArg(c, op, "")

RECURSIVE EmitAll(_, _)
EmitAll(c, ops) == IF ops = <<>> THEN c ELSE EmitAll(Emit(c, Head(ops)), Tail(ops))

Here(c) == Len(c.code) + 1

Last1(c) == Len(c.code)       \* the jump just emitted

AtDepth(c, d) == [c EXCEPT !.depth = d]

PatchJumpTo(c, jumps, target) ==
  [c EXCEPT !.code = [i \in DOMAIN @ |->
     IF i \in jumps THEN [@[i] EXCEPT !.to = target] ELSE @[i]]]

EmitBackJump(c, op, target) ==
  LET d == Emit(c, op) IN PatchJumpTo(d, {Last1(d)}, target)

(* loopFrame *)
EnterLoop(c, catchesContinue, items) ==
  [c EXCEPT !.loops = Append(@, [catchContinue |-> catchesContinue, label |-> c.pendingLabel,
                                 stackItems |-> items, breakJumps |-> {},
                                 continueJumps |-> {}]),
            !.pendingLabel = ""]

LeaveLoop(c, breakTarget, continueTarget) ==
  LET lf == Last(c.loops)
      d  == PatchJumpTo(PatchJumpTo(c, lf.continueJumps, continueTarget),
                        lf.breakJumps, breakTarget)
  IN [d EXCEPT !.loops = Front(@)]

(* The frame a break or continue with this label means, 0 if there is none. *)
Innermost(S) == IF S = {} THEN 0 ELSE CHOOSE i \in S : \A j \in S : j <= i

BreakTarget(loops, l) ==
  Innermost({i \in DOMAIN loops : l = "" \/ loops[i].label = l})

ContinueTarget(loops, l) ==
  Innermost({i \in DOMAIN loops : loops[i].catchContinue /\ (l = "" \/ loops[i].label = l)})

StackItems(loops) == FoldLeft(LAMBDA n, lf : n + lf.stackItems, 0, loops)

(* Slip: a try inside a for-of or a switch takes no account of it. *)
HandlerDepthNone(loops) == 0

HandlerDepth(loops) == StackItems(loops)

AddHandler(c, from, to, depth) ==
  [c EXCEPT !.handlers = Append(@, [start |-> from, end |-> to, pc |-> Here(c),
                                    depth |-> depth])]

-----------------------------------------------------------------------------
(* Statements that leave by a jump leave the rest of the code unreachable, at
   the depth a completed statement would have. *)
Unreachable(c, d, keep) == AtDepth(c, IF keep THEN d + 1 ELSE d)

KeepUndefined(c, keep) == IF keep THEN Emit(c, "const") ELSE c

RECURSIVE EmitStmt(_, _, _), EmitStmts(_, _), EmitStmtsKeepLast(_, _, _)

EmitStmts(c, ss) ==
  IF ss = <<>> THEN c ELSE EmitStmts(EmitStmt(c, Head(ss), FALSE), Tail(ss))

EmitStmtsKeepLast(c, ss, keep) ==
  IF ss = <<>> THEN KeepUndefined(c, keep)
  ELSE EmitStmt(EmitStmts(c, Front(ss)), Last(ss), keep)

EmitExprStmt(c, op, arg, keep) ==
  LET d == EmitArg(c, op, arg) IN IF keep THEN d ELSE Emit(d, "pop")

EmitIf(c, s, keep) ==
  LET c1   == EmitAll(c, <<"test", "jumpIfFalse">>)
      c2   == EmitStmt(c1, s.parts[1], keep)
      c3   == Emit(c2, "jump")
      c4   == AtDepth(PatchJumpTo(c3, {Last1(c1)}, Here(c3)), c1.depth)
      c5   == IF Len(s.parts) = 2 THEN EmitStmt(c4, s.parts[2], keep) ELSE Emit(c4, "const")
  IN IF Len(s.parts) = 1 /\ ~ keep
     THEN PatchJumpTo(c2, {Last1(c1)}, Here(c2))
     ELSE PatchJumpTo(c5, {Last1(c3)}, Here(c5))

(* for (; test; update) body *)
EmitFor(c, s) ==
  LET c1 == EmitAll(EnterLoop(c, TRUE, 0), <<"test", "jumpIfFalse">>)
      c2 == EmitStmt(c1, s.parts[1], FALSE)
      c3 == EmitBackJump(EmitExprStmt(c2, "expr", "update", FALSE), "jump", Here(c))
      c4 == PatchJumpTo(c3, {Last1(c1)}, Here(c3))
  IN LeaveLoop(c4, Here(c4), Here(c2))

EmitDoWhile(c, s) ==
  LET c1 == EmitStmt(EnterLoop(c, TRUE, 0), s.parts[1], FALSE)
      c2 == EmitBackJump(Emit(c1, "test"), "jumpIfTrue", Here(c))
  IN LeaveLoop(c2, Here(c2), Here(c1))

EmitWhile(c, s) ==
  LET c1 == EmitAll(EnterLoop(c, TRUE, 0), <<"test", "jumpIfFalse">>)
      c2 == EmitBackJump(EmitStmt(c1, s.parts[1], FALSE), "jump", Here(c))
      c3 == PatchJumpTo(c2, {Last1(c1)}, Here(c2))
  IN LeaveLoop(c3, Here(c3), Here(c))

(* for-of; for-in differs in where the iterator comes from. *)
EmitForOf(c, s) ==
  LET c0 == EnterLoop(Emit(c, "iter"), TRUE, 1)
      c1 == EmitAll(c0, <<"next", "done", "jumpIfTrue">>)
      c2 == EmitAll(c1, <<"value", "pop">>)
      c3 == EmitBackJump(EmitStmt(c2, s.parts[1], FALSE), "jump", Here(c0))
      c4 == PatchJumpTo(AtDepth(c3, c1.depth), {Last1(c1)}, Here(c3))
      c5 == Emit(c4, "pop")
  IN LeaveLoop(Emit(c5, "pop"), Here(c5), Here(c0))

SwitchEnd(c) == Here(c)

EmitSwitch(c, s) ==
  LET first  == IF s.kind = "switch" THEN 1 ELSE 2     \* the first case with a test
      tested == first..Len(s.parts)
      c0 == EnterLoop(Emit(c, "const"), FALSE, 1)
      c1 == EmitAll(c0, FlattenSeq([i \in 1..Cardinality(tested) |-> <<"case", "jumpIfTrue">>]))
      c2 == Emit(c1, "jump")
      BodyStart(i) == Here(EmitStmts(c2, SubSeq(s.parts, 1, i - 1)))
      c3 == EmitStmts(c2, s.parts)
      Probe(i) == Last1(c0) + 2 * (i - first + 1)
      RECURSIVE PatchProbes(_, _)
      PatchProbes(d, i) ==
        IF i \notin tested THEN d
        ELSE PatchProbes(PatchJumpTo(d, {Probe(i)}, BodyStart(i)), i + 1)
      c4 == PatchJumpTo(PatchProbes(c3, first), {Last1(c2)},
                        IF s.kind = "switch" THEN Here(c3) ELSE BodyStart(1))
  IN LeaveLoop(Emit(c4, "pop"), SwitchEnd(c4), 0)

EmitTry(c, s, keep) ==
  LET hasCatch   == s.kind # "try-finally"
      hasFinally == s.kind # "try-catch"
      c1 == EmitStmtsKeepLast(c, s.parts[1].parts, keep)
      c2 == Emit(c1, "jump")
      c3 == AtDepth(AddHandler(c2, Here(c), Here(c1), HandlerDepth(c.loops)), c.depth + 1)
      c4 == IF hasCatch THEN EmitStmtsKeepLast(Emit(c3, "pop"), s.parts[2].parts, keep)
                        ELSE Unreachable(Emit(c3, "throw"), c.depth, keep)
      c5 == PatchJumpTo(c4, {Last1(c2)}, Here(c4))
  IN IF hasFinally THEN EmitStmtsKeepLast(c5, Last(s.parts).parts, FALSE) ELSE c5

EmitBreak(c, s, keep) ==
  LET d == Emit(c, "jump")
      i == BreakTarget(c.loops, s.label)
  IN Unreachable([d EXCEPT !.loops[i].breakJumps = @ \cup {Last1(d)}], c.depth, keep)

EmitContinue(c, s, keep) ==
  LET d == Emit(c, "jump")
      i == ContinueTarget(c.loops, s.label)
  IN Unreachable([d EXCEPT !.loops[i].continueJumps = @ \cup {Last1(d)}], c.depth, keep)

EmitStmt(c, s, keep) ==
  CASE s.kind = "expr"     -> EmitExprStmt(c, "expr", s.label, keep)
    [] s.kind = "call"     -> EmitExprStmt(c, "call", s.label, keep)
    [] s.kind = "block"    -> KeepUndefined(EmitStmts(c, s.parts), keep)
    [] s.kind = "if"       -> EmitIf(c, s, keep)
    [] s.kind = "for"      -> KeepUndefined(EmitFor(c, s), keep)
    [] s.kind = "while"    -> KeepUndefined(EmitWhile(c, s), keep)
    [] s.kind = "dowhile"  -> KeepUndefined(EmitDoWhile(c, s), keep)
    [] s.kind = "forof"    -> KeepUndefined(EmitForOf(c, s), keep)
    [] s.kind \in SwitchKinds -> KeepUndefined(EmitSwitch(c, s), keep)
    [] s.kind = "return"   -> Unreachable(EmitAll(c, <<"const", "return">>), c.depth, keep)
    [] s.kind = "throw"    -> Unreachable(EmitAll(c, <<"const", "throw">>), c.depth, keep)
    [] s.kind = "break"    -> EmitBreak(c, s, keep)
    [] s.kind = "continue" -> EmitContinue(c, s, keep)
    [] s.kind = "labelled" ->
         [EmitStmt([c EXCEPT !.pendingLabel = s.label], s.parts[1], keep)
            EXCEPT !.pendingLabel = ""]
    [] s.kind \in TryKinds -> EmitTry(c, s, keep)

Chunked(c) == [code |-> c.code, handlers |-> c.handlers]

(* Compile, for the program; compileFunction, for a function body. *)
Compile(ss) == Chunked(Emit(EmitStmtsKeepLast(NewCompiler, ss, TRUE), "return"))

CompileFunction(ss) == Chunked(EmitAll(EmitStmts(NewCompiler, ss), <<"const", "return">>))

-----------------------------------------------------------------------------
(* What a break or continue in s jumps out of: how many values the loops and
   switches inside its target keep on the stack, or -1 if there is no target
   and the compiler refuses the program. *)
RECURSIVE Abandoned(_, _, _)
Abandoned(s, loops, label) ==
  LET Crossing(i) == IF i = 0 THEN -1 ELSE StackItems(SubSeq(loops, i + 1, Len(loops)))
      Inside(catches, items) ==
        Append(loops, [catchContinue |-> catches, label |-> label, stackItems |-> items])
      Parts(ls, l) == UNION {Abandoned(s.parts[i], ls, l) : i \in DOMAIN s.parts}
  IN CASE s.kind = "break" -> {Crossing(BreakTarget(loops, s.label))}
       [] s.kind = "continue" -> {Crossing(ContinueTarget(loops, s.label))}
       [] s.kind = "labelled" -> Parts(loops, s.label)
       [] s.kind \in LoopKinds -> Parts(Inside(TRUE, IF s.kind = "forof" THEN 1 ELSE 0), "")
       [] s.kind \in SwitchKinds -> Parts(Inside(FALSE, 1), "")
       [] OTHER -> Parts(loops, label)

Jumps(ss) == UNION {Abandoned(ss[i], <<>>, "") : i \in DOMAIN ss}

Compiles(ss) == -1 \notin Jumps(ss)
=============================================================================
