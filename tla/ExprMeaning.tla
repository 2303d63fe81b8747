----------------------------- MODULE ExprMeaning -----------------------------
(***************************************************************************)
(* What expressions, assignments and patterns mean, without code or an     *)
(* operand stack: the reference ExprCode and ExprMachine are compared      *)
(* with.  A state has the variables, the heap, the calls made so far, why  *)
(* evaluation stopped (if it did), the value of the expression evaluated   *)
(* last and those of the list evaluated last.                              *)
(*                                                                         *)
(* Operands are evaluated from left to right, the target of an assignment  *)
(* before its value, a member target inside a pattern after the value it   *)
(* is given; a place is allocated when its literal is met, and the         *)
(* arguments of a call with a spread take one too.                         *)
(***************************************************************************)
EXTENDS ExprCode

Stopped(s) == s.stop # ""

With(s, v) == IF Stopped(s) THEN s ELSE [s EXCEPT !.val = v]

Lookup(env, x) == IF x \in DOMAIN env THEN env[x] ELSE Undefined

Assigned(s, x) == IF Stopped(s) THEN s ELSE [s EXCEPT !.env = (x :> s.val) @@ @]

(* The store r of value v was tried. *)
Stored(s, r, v) == IF Stopped(s) THEN s ELSE [s EXCEPT !.heap = r.heap, !.stop = r.stop, !.val = v]

Called(s, f, this, args) ==
  IF Type(f) # "function" THEN [s EXCEPT !.stop = "thrown"]
  ELSE LET r == Apply(s.heap, Payload(f), this, args)
       IN [s EXCEPT !.heap = r.heap, !.val = r.val, !.stop = r.stop,
                    !.log = Logged(@, Payload(f), this, args)]

Allocated(s, kind) == [s EXCEPT !.heap = Append(@, Cell(kind))]

RECURSIVE Ev(_, _), EvList(_, _), EvItems(_, _), EvProps(_, _, _), EvShort(_, _, _),
          EvCombined(_, _, _, _), EvAssign(_, _), EvCall(_, _), EvNew(_, _), EvBind(_, _, _),
          EvPattern(_, _, _, _), EvTo(_, _, _), EvTemplate(_, _), EvDelete(_, _)

EvList(es, s) ==
  IF es = <<>> THEN [s EXCEPT !.vals = <<>>]
  ELSE LET h == Ev(Head(es), s)
           t == EvList(Tail(es), h)
       IN IF Stopped(h) THEN h ELSE [t EXCEPT !.vals = <<h.val>> \o @]

(* A list in which elements may be spread. *)
EvItems(es, s) ==
  IF es = <<>> THEN [s EXCEPT !.vals = <<>>]
  ELSE LET e == Head(es)
           h == IF IsSpread(e) THEN Ev(e.parts[1], s) ELSE Ev(e, s)
           vs == IF IsSpread(e) THEN h.heap[Payload(h.val)].items ELSE <<h.val>>
           t == EvItems(Tail(es), h)
       IN CASE Stopped(h) -> h
            [] ~ Stopped(h) /\ IsSpread(e) /\ Type(h.val) # "array" -> [h EXCEPT !.stop = "thrown"]
            [] OTHER -> [t EXCEPT !.vals = vs \o @]

(* The properties of the object at place i, in order. *)
EvProps(ps, i, s) ==
  IF ps = <<>> \/ Stopped(s) THEN s
  ELSE LET p == Head(ps)
           r == EvList(p.parts, s)
           Put(cell) == CASE p.kind = "spread" -> SpreadInto(r.heap, cell, r.vals[1])
                          [] p.kind = "computed" -> SetOwn(cell, Text(r.vals[1]), r.vals[2])
                          [] p.kind = "prop" -> SetOwn(cell, <<p.name>>, r.vals[1])
       IN EvProps(Tail(ps), i, IF Stopped(r) THEN r ELSE [r EXCEPT !.heap[i] = Put(@)])

(* a op b where the value of a may decide. *)
Decides(op, v) == CASE op = "&&" -> ~ Truthy(v)
                    [] op = "||" -> Truthy(v)
                    [] op = "??" -> ~ Nullish(v)

EvShort(op, b, s) == IF Stopped(s) \/ Decides(op, s.val) THEN s ELSE Ev(b, s)

(* old op= b *)
EvCombined(op, old, b, s) ==
  LET r == Ev(b, s)
  IN CASE op = "" -> r
       [] op \in ShortCircuits -> EvShort(op, b, With(s, old))
       [] OTHER -> IF Stopped(r) THEN r ELSE With(r, Binary(op, old, r.val))

(* target = the value of s *)
EvTo(t, v, s) ==
  LET r == EvList(t.parts, s)
  IN CASE t.kind = "ident" -> Assigned(With(s, v), t.name)
       [] IsPattern(t) -> With(EvPattern(t, v, 1, s), v)
       [] t.kind = "member" ->
            IF Stopped(r) THEN r ELSE Stored(r, SetProp(r.heap, r.vals[1], <<t.name>>, v), v)
       [] t.kind = "index" ->
            IF Stopped(r) THEN r ELSE Stored(r, SetByVal(r.heap, r.vals[1], r.vals[2], v), v)

EvAssign(e, s) ==
  LET t == e.parts[1]
      b == e.parts[2]
      r == EvList(t.parts, s)
      old == IF t.kind = "member" THEN GetProp(r.heap, r.vals[1], <<t.name>>)
             ELSE GetByVal(r.heap, r.vals[1], r.vals[2])
      v == EvCombined(e.name, old, b, r)
      x == EvCombined(e.name, Lookup(s.env, t.name), b, s)
      p == Ev(b, s)
  IN CASE t.kind = "ident" -> Assigned(x, t.name)
       [] IsPattern(t) -> IF Stopped(p) THEN p ELSE EvTo(t, p.val, p)
       [] OTHER ->
            IF Stopped(r) THEN r
            ELSE IF t.kind = "member"
                 THEN Stored(v, SetProp(v.heap, r.vals[1], <<t.name>>, v.val), v.val)
                 ELSE Stored(v, SetByVal(v.heap, r.vals[1], r.vals[2], v.val), v.val)

EvTemplate(ps, s) ==
  LET r == EvList(ps, s)
  IN IF Stopped(r) THEN r
     ELSE With(r, FoldLeft(LAMBDA a, v : String(a[2] \o Text(v)), String(<<>>), r.vals))

EvDelete(t, s) ==
  LET r   == EvList(t.parts, s)
      key == IF t.kind = "member" THEN <<t.name>> ELSE Text(r.vals[2])
  IN CASE t.kind \notin {"member", "index"} -> With(Ev(t, s), Bool(TRUE))
       [] OTHER -> IF Stopped(r) THEN r
                   ELSE Stored(r, Delete(r.heap, r.vals[1], key), Deleted(r.heap, r.vals[1], key))

(* The callee and its receiver, then the arguments, then the call. *)
EvCall(e, s) ==
  LET callee == e.parts[1]
      args == Tail(e.parts)
      m == EvList(callee.parts, s)
      plain == Ev(callee, s)
      c == IF IsMethod(callee) THEN m ELSE plain
      f == CASE callee.kind = "member" -> GetProp(m.heap, m.vals[1], <<callee.name>>)
             [] callee.kind = "index" -> GetByVal(m.heap, m.vals[1], m.vals[2])
             [] OTHER -> plain.val
      this == IF IsMethod(callee) THEN m.vals[1] ELSE Undefined
      a == EvItems(args, IF HasSpread(args) THEN Allocated(c, "array") ELSE c)
  IN CASE Stopped(c) -> c
       [] ~ Stopped(c) /\ Stopped(a) -> a
       [] OTHER -> Called(a, f, this, a.vals)

EvNew(e, s) ==
  LET args == Tail(e.parts)
      c == Ev(e.parts[1], s)
      a == EvItems(args, IF HasSpread(args) THEN Allocated(c, "array") ELSE c)
      this == ObjectVal(Len(a.heap) + 1)
      r == Called(Allocated(a, "object"), c.val, this, a.vals)
  IN CASE Stopped(c) -> c
       [] ~ Stopped(c) /\ Stopped(a) -> a
       [] ~ Stopped(c) /\ ~ Stopped(a) /\ Type(c.val) # "function" -> [a EXCEPT !.stop = "thrown"]
       [] OTHER -> IF Stopped(r) \/ IsConstructorReturn(r.val) THEN r ELSE With(r, this)

Ev(e, s) ==
  IF Stopped(s) THEN s
  ELSE CASE e.kind = "const" -> With(s, e.value)
         [] e.kind = "this" -> With(s, Undefined)
         [] e.kind = "ident" -> With(s, Lookup(s.env, e.name))
         [] e.kind = "binary" ->
              LET r == EvList(e.parts, s)
              IN IF Stopped(r) THEN r ELSE With(r, Binary(e.name, r.vals[1], r.vals[2]))
         [] e.kind = "logical" -> EvShort(e.name, e.parts[2], Ev(e.parts[1], s))
         [] e.kind = "unary" ->
              LET r == Ev(e.parts[1], s) IN IF Stopped(r) THEN r ELSE With(r, Unary(e.name, r.val))
         [] e.kind = "delete" -> EvDelete(e.parts[1], s)
         [] e.kind = "conditional" ->
              LET r == Ev(e.parts[1], s)
              IN IF Stopped(r) THEN r ELSE Ev(e.parts[IF Truthy(r.val) THEN 2 ELSE 3], r)
         [] e.kind = "optional" ->
              LET r == Ev(e.parts[1], s)
              IN IF Stopped(r) THEN r ELSE With(r, GetProp(r.heap, r.val, <<e.name>>))
         [] e.kind = "template" -> EvTemplate(e.parts, s)
         [] e.kind = "array" ->
              LET i == Len(s.heap) + 1
                  r == EvItems(e.parts, Allocated(s, "array"))
              IN IF Stopped(r) THEN r
                 ELSE With([r EXCEPT !.heap[i].items = r.vals], ArrayVal(i))
         [] e.kind = "object" ->
              LET i == Len(s.heap) + 1
              IN With(EvProps(e.parts, i, Allocated(s, "object")), ObjectVal(i))
         [] e.kind = "index" ->
              LET r == EvList(e.parts, s)
              IN IF Stopped(r) THEN r ELSE With(r, GetByVal(r.heap, r.vals[1], r.vals[2]))
         [] e.kind = "member" ->
              LET r == Ev(e.parts[1], s)
              IN IF Stopped(r) THEN r ELSE With(r, GetProp(r.heap, r.val, <<e.name>>))
         [] e.kind = "assign" -> EvAssign(e, s)
         [] e.kind = "prefix" ->
              LET new == Binary(e.name, Lookup(s.env, e.parts[1].name), Number(1))
              IN Assigned(With(s, new), e.parts[1].name)
         [] e.kind = "postfix" ->
              LET old == Lookup(s.env, e.parts[1].name)
              IN With(Assigned(With(s, Binary(e.name, old, Number(1))), e.parts[1].name), old)
         [] e.kind = "new" -> EvNew(e, s)
         [] e.kind = "call" -> EvCall(e, s)

(* Element el of a pattern is given value v, or its default. *)
EvBind(el, v, s) ==
  LET d == Ev(el.parts[2], s)
  IN IF v = Undefined /\ Len(el.parts) = 2
     THEN IF Stopped(d) THEN d ELSE EvTo(el.parts[1], d.val, d)
     ELSE EvTo(el.parts[1], v, s)

(* Pattern pat is matched against value v, from element i on. *)
EvPattern(pat, v, i, s) ==
  LET el    == pat.parts[i]
      place == Len(s.heap) + 1
      bound == {<<pat.parts[j].name>> : j \in 1 .. i - 1}
      others == SelectSeq(IF Type(v) = "object" THEN LiveProps(s.heap[Payload(v)]) ELSE <<>>,
                          LAMBDA p : p.key \notin bound)
      items == SubSeq(s.heap[Payload(v)].items, i, Len(s.heap[Payload(v)].items))
      NewCell(cell) == [s EXCEPT !.heap = Append(@, cell)]
      next ==
        CASE el.kind = "skip" -> s
          [] el.kind = "prop" -> EvBind(el, GetProp(s.heap, v, <<el.name>>), s)
          [] el.kind = "elem" -> EvBind(el, GetByVal(s.heap, v, Number(i - 1)), s)
          [] el.kind = "rest" /\ pat.kind = "objectPattern" ->
               EvTo(el.parts[1], ObjectVal(place),
                    NewCell([Cell("object") EXCEPT !.props = others]))
          [] el.kind = "rest" /\ pat.kind = "arrayPattern" ->
               IF Type(v) # "array" THEN [s EXCEPT !.stop = "thrown"]
               ELSE EvTo(el.parts[1], ArrayVal(place),
                         NewCell([Cell("array") EXCEPT !.items = items]))
  IN IF Stopped(s) \/ i > Len(pat.parts) THEN s ELSE EvPattern(pat, v, i + 1, next)

EvStatement(e, s) ==
  IF e.kind \notin {"declare", "forBind"} THEN Ev(e, s)
  ELSE LET r == Ev(e.parts[2], s)
       IN IF Stopped(r) THEN r ELSE With(EvTo(e.parts[1], r.val, r), Undefined)

Meaning(e, env, heap) ==
  EvStatement(e, [env |-> env, heap |-> heap, log |-> <<>>, stop |-> "", val |-> Undefined,
                  vals |-> <<>>])
=============================================================================
