------------------------------- MODULE ExprCode -------------------------------
(***************************************************************************)
(* How internal/compiler/emit_expr.go and emit_destruct.go compile         *)
(* expressions, patterns and their declarations.  An expression is a       *)
(* record: its kind, a name (of a variable, a property or an operator),    *)
(* the value of a literal, and its parts.  Names are resolved by Scopes;   *)
(* here a variable is its name.  Only TLC evaluates this module: emit is   *)
(* recursive.                                                              *)
(***************************************************************************)
EXTENDS ExprValues

Node(k, n, ps) == [kind |-> k, name |-> n, value |-> Undefined, parts |-> ps]

Const(v) == [Node("const", "", <<>>) EXCEPT !.value = v]
Ident(x) == Node("ident", x, <<>>)

IsSpread(e) == e.kind = "spread"
HasSpread(es) == \E i \in DOMAIN es : IsSpread(es[i])

-----------------------------------------------------------------------------
(* The compiler: the code so far, tmpCount, and the depth of the operand stack
   at this point, which the Go code leaves implicit.  arg is a jump target or a
   number of arguments. *)

NewCompiler == [code |-> <<>>, tmpCount |-> 0, depth |-> 0]

Effect(op, arg) ==
  CASE op \in {"const", "load", "dup", "newObject", "newArray", "loadThis"} -> 1
    [] op = "dup2" -> 2
    [] op \in {"store", "pop", "arrayPush", "arraySpread", "objectSpread", "binary",
               "getByVal", "deleteByVal", "setProp", "jumpIfFalse", "newApply"} -> -1
    [] op \in {"setByVal", "callApply"} -> -2
    [] op \in {"call", "new"} -> - arg
    [] op = "callMethod" -> - arg - 1
    [] OTHER -> 0

EmitFull(c, op, name, v, arg) ==
  [c EXCEPT !.code = Append(@, [op |-> op, name |-> name, value |-> v, arg |-> arg,
                                at |-> c.depth]),
            !.depth = @ + Effect(op, arg)]

Emit(c, op) == EmitFull(c, op, "", Undefined, 0)
EmitNamed(c, op, name) == EmitFull(c, op, name, Undefined, 0)
EmitU8(c, op, n) == EmitFull(c, op, "", Undefined, n)
EmitConst(c, v) == EmitFull(c, "const", "", v, 0)

EmitLoad(c, x) == EmitNamed(c, "load", x)
EmitStore(c, x) == EmitNamed(c, "store", x)

Here(c) == Len(c.code) + 1

AtDepth(c, d) == [c EXCEPT !.depth = d]

(* The jump emitted at i is to come here. *)
PatchJump(c, i) == [c EXCEPT !.code[i].arg = Here(c)]

TempName(c) == " tmp" \o ToString(c.tmpCount + 1)
TakeTemp(c) == [c EXCEPT !.tmpCount = @ + 1]

PeekJump(op) == CASE op = "&&" -> "jumpIfFalsePeek"
                  [] op = "||" -> "jumpIfTruePeek"
                  [] op = "??" -> "jumpIfNotNullishPeek"

(* The operators of &&=, ||= and ??=; the others combine both operands. *)
ShortCircuits == {"&&", "||", "??"}

-----------------------------------------------------------------------------
RECURSIVE EmitExpr(_, _), EmitAll(_, _), EmitItems(_, _), EmitProps(_, _),
          EmitQuasis(_, _), EmitPattern(_, _, _, _), EmitCompoundCombine(_, _, _),
          EmitDefault(_, _), EmitBindTarget(_, _), EmitCallee(_, _), EmitBinary(_, _),
          EmitLogical(_, _), EmitLogicalKept(_, _), EmitDelete(_, _), EmitConditional(_, _),
          EmitOptionalMember(_, _), EmitAssign(_, _), EmitAssignIdent(_, _),
          EmitAssignMember(_, _), EmitAssignIndex(_, _), EmitUpdate(_, _),
          EmitNew(_, _), EmitCall(_, _), EmitApply(_, _), EmitRest(_, _, _, _),
          EmitAssignPattern(_, _), EmitPropElem(_, _, _, _), EmitIndexElem(_, _, _, _)

EmitAll(c, es) == IF es = <<>> THEN c ELSE EmitAll(EmitExpr(c, Head(es)), Tail(es))

EmitBinary(c, e) == EmitNamed(EmitAll(c, e.parts), "binary", e.name)

(* Slip: the left operand stays below the right one. *)
EmitLogicalKept(c, e) ==
  LET c1 == Emit(EmitExpr(c, e.parts[1]), PeekJump(e.name))
      c2 == EmitExpr(c1, e.parts[2])
  IN PatchJump(c2, Len(c1.code))

EmitLogical(c, e) ==
  LET c1 == Emit(EmitExpr(c, e.parts[1]), PeekJump(e.name))
      c2 == EmitExpr(Emit(c1, "pop"), e.parts[2])
  IN PatchJump(c2, Len(c1.code))

EmitDelete(c, e) ==
  LET t == e.parts[1]
  IN CASE t.kind = "member" -> EmitNamed(EmitAll(c, t.parts), "deleteProp", t.name)
       [] t.kind = "index" -> Emit(EmitAll(c, t.parts), "deleteByVal")
       [] OTHER -> EmitConst(Emit(EmitExpr(c, t), "pop"), Bool(TRUE))

EmitConditional(c, e) ==
  LET c1 == Emit(EmitExpr(c, e.parts[1]), "jumpIfFalse")
      c2 == Emit(EmitExpr(c1, e.parts[2]), "jump")
      c3 == PatchJump(AtDepth(c2, c1.depth), Len(c1.code))
      c4 == EmitExpr(c3, e.parts[3])
  IN PatchJump(c4, Len(c2.code))

EmitOptionalMember(c, e) ==
  LET c1 == Emit(EmitAll(c, e.parts), "jumpIfNullishPeek")
      c2 == Emit(EmitNamed(c1, "getProp", e.name), "jump")
      c3 == EmitConst(Emit(PatchJump(c2, Len(c1.code)), "pop"), Undefined)
  IN PatchJump(c3, Len(c2.code))

(* The quasis are the literals among the parts of a template, from the second
   on every other one. *)
EmitQuasis(c, ps) ==
  IF ps = <<>> THEN c
  ELSE LET c1 == EmitNamed(EmitExpr(c, ps[1]), "binary", "+")
       IN EmitQuasis(EmitNamed(EmitExpr(c1, ps[2]), "binary", "+"), SubSeq(ps, 3, Len(ps)))

(* The items of an array literal, the arguments of a call with a spread. *)
EmitItems(c, es) ==
  IF es = <<>> THEN c
  ELSE LET e == Head(es)
       IN EmitItems(IF IsSpread(e) THEN Emit(EmitAll(c, e.parts), "arraySpread")
                    ELSE Emit(EmitExpr(c, e), "arrayPush"),
                    Tail(es))

EmitProps(c, ps) ==
  IF ps = <<>> THEN c
  ELSE LET p == Head(ps)
           d == Emit(c, "dup")
       IN EmitProps(
            CASE p.kind = "spread" -> Emit(EmitAll(c, p.parts), "objectSpread")
              [] p.kind = "computed" -> Emit(Emit(EmitAll(d, p.parts), "setByVal"), "pop")
              [] p.kind = "prop" ->
                   Emit(EmitNamed(EmitAll(d, p.parts), "setProp", p.name), "pop"),
            Tail(ps))

-----------------------------------------------------------------------------
(* Assignments.  The name of an assignment is the operator before "=", and the
   empty one for "=". *)

EmitCompoundCombine(c, op, rhs) ==
  IF op \in ShortCircuits
  THEN LET c1 == Emit(c, PeekJump(op))
       IN PatchJump(EmitExpr(Emit(c1, "pop"), rhs), Len(c1.code))
  ELSE EmitNamed(EmitExpr(c, rhs), "binary", op)

EmitAssignIdent(c, e) ==
  LET x     == e.parts[1].name
      Store(d) == EmitStore(Emit(d, "dup"), x)
      c1    == Emit(EmitLoad(c, x), PeekJump(e.name))
  IN CASE e.name = "" -> Store(EmitExpr(c, e.parts[2]))
       [] e.name \in ShortCircuits ->
            PatchJump(Store(EmitExpr(Emit(c1, "pop"), e.parts[2])), Len(c1.code))
       [] OTHER -> Store(EmitCompoundCombine(EmitLoad(c, x), e.name, e.parts[2]))

EmitAssignMember(c, e) ==
  LET t  == e.parts[1]
      c1 == EmitAll(c, t.parts)
      c2 == EmitNamed(Emit(c1, "dup"), "getProp", t.name)
  IN EmitNamed(IF e.name = "" THEN EmitExpr(c1, e.parts[2])
               ELSE EmitCompoundCombine(c2, e.name, e.parts[2]),
               "setProp", t.name)

EmitAssignIndex(c, e) ==
  LET c1 == EmitAll(c, e.parts[1].parts)
      c2 == Emit(Emit(c1, "dup2"), "getByVal")
  IN Emit(IF e.name = "" THEN EmitExpr(c1, e.parts[2])
          ELSE EmitCompoundCombine(c2, e.name, e.parts[2]),
          "setByVal")

EmitAssignPattern(c, e) ==
  LET c1 == Emit(EmitExpr(c, e.parts[2]), "dup")
      t  == TempName(c1)
  IN EmitPattern(EmitStore(TakeTemp(c1), t), e.parts[1], t, 1)

EmitAssign(c, e) ==
  CASE e.parts[1].kind = "ident" -> EmitAssignIdent(c, e)
    [] e.parts[1].kind = "member" -> EmitAssignMember(c, e)
    [] e.parts[1].kind = "index" -> EmitAssignIndex(c, e)
    [] OTHER -> EmitAssignPattern(c, e)

(* ++x and x++: the operator is + or -. *)
EmitUpdate(c, e) ==
  LET x  == e.parts[1].name
      c1 == EmitLoad(c, x)
      One(d) == EmitNamed(EmitConst(d, Number(1)), "binary", e.name)
  IN EmitStore(IF e.kind = "prefix" THEN Emit(One(c1), "dup") ELSE One(Emit(c1, "dup")), x)

-----------------------------------------------------------------------------
(* Calls. *)

(* new callee(args) *)
EmitNew(c, e) ==
  LET c1   == EmitExpr(c, e.parts[1])
      args == Tail(e.parts)
  IN IF HasSpread(args) THEN Emit(EmitItems(Emit(c1, "newArray"), args), "newApply")
     ELSE EmitU8(EmitAll(c1, args), "new", Len(args))

(* The receiver and the function of a method call. *)
EmitCallee(c, callee) ==
  LET d == Emit(EmitExpr(c, callee.parts[1]), "dup")
  IN IF callee.kind = "member" THEN EmitNamed(d, "getProp", callee.name)
     ELSE Emit(EmitExpr(d, callee.parts[2]), "getByVal")

IsMethod(callee) == callee.kind \in {"member", "index"}

(* Slip: the receiver stays below the function. *)
EmitApplyUnswapped(c, e) ==
  LET callee == e.parts[1]
      c1 == IF IsMethod(callee) THEN EmitCallee(c, callee)
            ELSE EmitConst(EmitExpr(c, callee), Undefined)
  IN Emit(EmitItems(Emit(c1, "newArray"), Tail(e.parts)), "callApply")

(* A call with a spread among its arguments. *)
EmitApply(c, e) ==
  LET callee == e.parts[1]
      c1 == IF IsMethod(callee) THEN Emit(EmitCallee(c, callee), "swap")
            ELSE EmitConst(EmitExpr(c, callee), Undefined)
  IN Emit(EmitItems(Emit(c1, "newArray"), Tail(e.parts)), "callApply")

EmitCall(c, e) ==
  LET callee == e.parts[1]
      args   == Tail(e.parts)
  IN CASE HasSpread(args) -> EmitApply(c, e)
       [] ~ HasSpread(args) /\ IsMethod(callee) ->
            EmitU8(EmitAll(EmitCallee(c, callee), args), "callMethod", Len(args))
       [] OTHER -> EmitU8(EmitAll(EmitExpr(c, callee), args), "call", Len(args))

EmitExpr(c, e) ==
  CASE e.kind = "const" -> EmitConst(c, e.value)
    [] e.kind = "this" -> Emit(c, "loadThis")
    [] e.kind = "ident" -> EmitLoad(c, e.name)
    [] e.kind = "binary" -> EmitBinary(c, e)
    [] e.kind = "logical" -> EmitLogical(c, e)
    [] e.kind = "unary" -> EmitNamed(EmitAll(c, e.parts), "unary", e.name)
    [] e.kind = "delete" -> EmitDelete(c, e)
    [] e.kind = "conditional" -> EmitConditional(c, e)
    [] e.kind = "optional" -> EmitOptionalMember(c, e)
    [] e.kind = "template" -> EmitQuasis(EmitExpr(c, e.parts[1]), Tail(e.parts))
    [] e.kind = "array" -> EmitItems(Emit(c, "newArray"), e.parts)
    [] e.kind = "object" -> EmitProps(Emit(c, "newObject"), e.parts)
    [] e.kind = "index" -> Emit(EmitAll(c, e.parts), "getByVal")
    [] e.kind = "member" -> EmitNamed(EmitAll(c, e.parts), "getProp", e.name)
    [] e.kind = "assign" -> EmitAssign(c, e)
    [] e.kind \in {"prefix", "postfix"} -> EmitUpdate(c, e)
    [] e.kind = "new" -> EmitNew(c, e)
    [] e.kind = "call" -> EmitCall(c, e)

-----------------------------------------------------------------------------
(* Patterns.  The parts of an object or array pattern are its elements; an
   element has a target and perhaps a default; a target is a variable, a
   member or index expression, or a pattern. *)

IsPattern(t) == t.kind \in {"objectPattern", "arrayPattern"}

EmitDefault(c, e) ==
  LET c1 == Emit(EmitNamed(EmitConst(Emit(c, "dup"), Undefined), "binary", "==="),
                 "jumpIfFalse")
  IN PatchJump(EmitExpr(Emit(c1, "pop"), e), Len(c1.code))

EmitBindTarget(c, t) ==
  LET tmp == TempName(c)
      c1  == EmitStore(TakeTemp(c), tmp)
  IN CASE t.kind = "ident" -> EmitStore(c, t.name)
       [] IsPattern(t) -> EmitPattern(c1, t, tmp, 1)
       [] OTHER -> Emit(EmitExpr(c1, Node("assign", "", <<t, Ident(tmp)>>)), "pop")

Defaulted(c, el) == IF Len(el.parts) = 2 THEN EmitDefault(c, el.parts[2]) ELSE c

(* The copy on top of the stack loses these properties. *)
RECURSIVE Without(_, _)
Without(c, keys) ==
  IF keys = <<>> THEN c
  ELSE Without(Emit(EmitNamed(Emit(c, "dup"), "deleteProp", Head(keys)), "pop"), Tail(keys))

(* { ...target } and [ ...target ], at element i of the pattern. *)
EmitRest(c, pat, src, i) ==
  LET Key(el) == el.name
      bound == [j \in 1 .. i - 1 |-> Key(pat.parts[j])]
      copy  == Emit(EmitLoad(Emit(c, "newObject"), src), "objectSpread")
      slice == EmitU8(EmitConst(EmitNamed(Emit(EmitLoad(c, src), "dup"), "getProp", "slice"),
                                Number(i - 1)),
                      "callMethod", 1)
  IN EmitBindTarget(IF pat.kind = "objectPattern" THEN Without(copy, bound) ELSE slice,
                    pat.parts[i].parts[1])

EmitPropElem(c, pat, src, i) ==
  LET el == pat.parts[i]
  IN EmitBindTarget(Defaulted(EmitNamed(EmitLoad(c, src), "getProp", el.name), el),
                    el.parts[1])

EmitIndexElem(c, pat, src, i) ==
  LET el == pat.parts[i]
  IN EmitBindTarget(
       Defaulted(Emit(EmitConst(EmitLoad(c, src), Number(i - 1)), "getByVal"), el),
       el.parts[1])

(* Nothing is bound behind the rest of an array. *)
EmitPattern(c, pat, src, i) ==
  CASE i > Len(pat.parts) -> c
    [] i <= Len(pat.parts) /\ pat.parts[i].kind = "rest" /\ pat.kind = "arrayPattern" ->
         EmitRest(c, pat, src, i)
    [] OTHER ->
         EmitPattern(CASE pat.parts[i].kind = "skip" -> c
                       [] pat.parts[i].kind = "rest" -> EmitRest(c, pat, src, i)
                       [] pat.parts[i].kind = "prop" -> EmitPropElem(c, pat, src, i)
                       [] pat.parts[i].kind = "elem" -> EmitIndexElem(c, pat, src, i),
                     pat, src, i + 1)

(* let pattern = init, and its completion value. *)
EmitDestructureDecl(c, s) ==
  LET t  == TempName(c)
      c1 == EmitStore(EmitExpr(TakeTemp(c), s.parts[2]), t)
  IN EmitConst(EmitPattern(c1, s.parts[1], t, 1), Undefined)

(* One round of for (target of ...), the value being that of an expression. *)
EmitForBind(c, s) ==
  LET c1 == EmitExpr(c, s.parts[2])
      t  == TempName(c1)
  IN EmitConst(IF s.parts[1].kind = "ident" THEN EmitStore(c1, s.parts[1].name)
               ELSE EmitPattern(EmitStore(TakeTemp(c1), t), s.parts[1], t, 1),
               Undefined)

Compile(s) ==
  (CASE s.kind = "declare" -> EmitDestructureDecl(NewCompiler, s)
     [] s.kind = "forBind" -> EmitForBind(NewCompiler, s)
     [] OTHER -> EmitExpr(NewCompiler, s)).code
=============================================================================
