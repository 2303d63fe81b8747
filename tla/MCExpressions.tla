---------------------------- MODULE MCExpressions ----------------------------
(***************************************************************************)
(* The programs that run: every operator over operands that call, throw,   *)
(* are undefined or decide; the same nested once; and patterns over        *)
(* sources of every kind.  Those that are read: every form of expression   *)
(* and statement inside every other, in two texts, broken off anywhere,    *)
(* and with any token missing.                                             *)
(***************************************************************************)
EXTENDS Expressions, SourceText

a == <<"a">>
Slot(k, v) == [key |-> k, val |-> v, live |-> TRUE]

(* o = {a: 1, m: self, n: {a: 2}, u: undefined}, r = [1, 2] *)
MCObjects ==
  <<[Cell("object") EXCEPT !.props =
       <<Slot(a, Number(1)), Slot(<<"m">>, FunctionVal("self")), Slot(<<"n">>, ObjectVal(2)),
         Slot(<<"u">>, Undefined)>>],
    [Cell("object") EXCEPT !.props = <<Slot(a, Number(2))>>],
    [Cell("array") EXCEPT !.items = <<Number(1), Number(2)>>]>>

MCGlobals ==
  ("x" :> Number(1)) @@ ("u" :> Undefined) @@ ("o" :> ObjectVal(1)) @@ ("r" :> ArrayVal(3))
  @@ ("id" :> FunctionVal("id")) @@ ("boom" :> FunctionVal("boom")) @@ ("C" :> FunctionVal("C"))

x == Ident("x")
u == Ident("u")
o == Ident("o")
r == Ident("r")
C == Ident("C")
N(n) == Const(Number(n))
S(s) == Const(String(<<s>>))
Call1(f, arg) == Node("call", "", <<Ident(f), arg>>)
Id(n) == Call1("id", N(n))
Boom == Node("call", "", <<Ident("boom")>>)
Spread(e) == Node("spread", "", <<e>>)
Member(e, n) == Node("member", n, <<e>>)
Index(e, k) == Node("index", "", <<e, k>>)
Assign(op, t, e) == Node("assign", op, <<t, e>>)
Prop(n, e) == Node("prop", n, <<e>>)
Computed(k, e) == Node("computed", "", <<k, e>>)
Object(ps) == Node("object", "", ps)
Array(es) == Node("array", "", es)

Targets == {x, u, Index(r, S("k")), Index(r, S("0")), Index(r, Id(1)), Member(o, "a"),
            Member(o, "u"), Index(Call1("id", o), S("b"))}

(* Operators with two operands, with three, and assignments. *)
Two(e, f) ==
  {Node("binary", op, <<e, f>>) : op \in {"+", "<", "==="}}
  \cup {Node("logical", op, <<e, f>>) : op \in ShortCircuits}
  \cup {Node("conditional", "", <<e, f, Id(7)>>), Node("conditional", "", <<e, Id(7), f>>),
        Array(<<e, Spread(r), f>>), Array(<<e, Spread(f)>>), Index(e, f),
        Object(<<Prop("b", e), Computed(S("c"), f), Prop("b", Id(5))>>),
        Object(<<Prop("a", e), Spread(o), Prop("u", f)>>),
        Node("template", "", <<S("q"), Node("binary", "-", <<e, f>>), S("s")>>)}

Combining == {"+", "-", "*", "<", "<=", ">", ">=", "==", "!=", "===", "!=="}

Operands == {Id(1), S("q"), x, u, Const(Null), Const(Bool(TRUE))}

Calls(e, f) ==
  {Node("call", "", <<Ident("id"), e, f>>), Node("call", "", <<Ident("id"), e, Spread(r), f>>),
   Node("call", "", <<Member(o, "m"), e, f>>), Node("call", "", <<Member(o, "m"), Spread(e), f>>),
   Node("call", "", <<Member(o, "m"), e, Spread(r)>>),
   Node("call", "", <<Index(Call1("id", o), S("m")), e, Spread(f)>>),
   Node("call", "", <<Index(o, S("m")), e, f>>), Node("call", "", <<e, f>>),
   Node("call", "", <<e, Spread(r), f>>),
   Node("new", "", <<C, e, f>>), Node("new", "", <<C, e, Spread(r), f>>),
   Node("new", "", <<e, f>>), Node("new", "", <<e, Spread(f)>>)}

One(e) ==
  {Node("unary", op, <<e>>) : op \in {"-", "!", "typeof", "void"}}
  \cup {Node("delete", "", <<t>>) : t \in {e, Member(e, "a"), Index(e, S("a"))}}
  \cup {Node("optional", "a", <<e>>), Member(Node("optional", "n", <<e>>), "a"), Member(e, "a")}

Assigns(e) == {Assign(op, t, e) : op \in {"", "+", "&&", "||", "??"}, t \in Targets}

Updates == {Node(k, op, <<t>>) : k \in {"prefix", "postfix"}, op \in {"+", "-"}, t \in {x, u}}

Atoms == {Id(0), Id(2), u, Boom, o}

Flat ==
  UNION {UNION {Two(e, f) : e \in {Id(0), Id(2), Boom, u}, f \in {Id(3), Boom}},
         UNION {Calls(e, f) : e \in {Id(2), Boom, r}, f \in {Id(3), Boom, r}},
         UNION {One(e) : e \in Atoms \cup {Node("this", "", <<>>)}},
         UNION {Assigns(e) : e \in {Id(2), Boom, o}},
         Updates,
         {Node("binary", op, <<e, f>>) : op \in Combining, e \in Operands, f \in Operands}}

(* One operator of each sort inside one of each sort. *)
Primitive == {Assign("??", u, Id(4)), Assign("", Index(r, Id(0)), Id(2)),
              Assign("+", Member(o, "a"), x), Node("postfix", "+", <<x>>),
              Node("conditional", "", <<u, Id(1), Id(2)>>), Node("logical", "||", <<Id(0), x>>),
              Node("delete", "", <<Member(o, "a")>>)}

Inner == Primitive \cup
         {Node("call", "", <<Member(o, "m"), Id(2), Spread(r)>>), Node("optional", "n", <<o>>),
          Node("new", "", <<C, Spread(r)>>)}

Nested ==
  UNION {UNION {Two(e, f) : e \in Inner, f \in Primitive \cup {Assign("", x, Id(3)), x}},
         UNION {Assigns(e) : e \in Inner},
         UNION {Calls(e, Array(<<x, f>>)) : e \in Inner, f \in Inner}}

-----------------------------------------------------------------------------
Bind(n, ps) == Node("prop", n, ps)
Elem(ps) == Node("elem", "", ps)
Skip == Node("skip", "", <<>>)
Rest(t) == Node("rest", "", <<t>>)
ObjPat(ps) == Node("objectPattern", "", ps)
ArrPat(ps) == Node("arrayPattern", "", ps)

Inside(t) == {ObjPat(<<Bind("a", <<t>>)>>), ArrPat(<<Elem(<<t, Id(8)>>), Rest(u)>>)}

(* Patterns with target t, without and with a default of its own: an assignment
   takes no default on a pattern, a declaration no target but names. *)
Plain(t) ==
  {ObjPat(<<Bind("a", <<t>>), Bind("u", <<x, Id(6)>>), Rest(u)>>),
   ArrPat(<<Elem(<<t>>), Elem(<<x, Id(6)>>)>>),
   ArrPat(<<Elem(<<t>>), Rest(u)>>)}

WithDefault(t) ==
  {ObjPat(<<Bind("u", <<t, Object(<<Prop("a", Id(6))>>)>>), Bind("n", <<x>>)>>),
   ArrPat(<<Skip, Elem(<<t, Id(6)>>), Elem(<<x, Id(9)>>)>>),
   ObjPat(<<Bind("n", <<t, Boom>>), Rest(x)>>)}

PatternTargets == {u, Member(o, "a"), Index(r, Id(0))}

AssignPatterns ==
  UNION {Plain(t) \cup WithDefault(t) : t \in PatternTargets}
  \cup UNION {Plain(t) : t \in UNION {Inside(t) : t \in {u, Member(o, "u")}}}

DeclarePatterns == UNION {Plain(t) \cup WithDefault(t) : t \in {u} \cup Inside(u)}

Sources == {o, r, u, Array(<<o, x>>), Boom, Assign("", ArrPat(<<Elem(<<x>>), Elem(<<u>>)>>), r)}

ForOf(t, e) == Node("forOf", "", <<t, e, Node("block", "", <<>>)>>)
Statement(e) == Node("expr", "", <<e>>)

Swap == Assign("", ArrPat(<<Elem(<<x>>), Elem(<<u>>)>>), Array(<<u, x>>))

Bindings ==
  UNION {{Statement(Assign("", p, e)) : p \in AssignPatterns, e \in Sources},
         {Node("declare", "", <<p, e>>) : p \in DeclarePatterns, e \in {o, r, u}},
         {ForOf(p, e) : p \in AssignPatterns, e \in {o, r, u}},
         {ForOf(t, e) : t \in {x, u}, e \in {o, r}},
         {Statement(Swap)}}

(* What a statement means to this machine, a round of a loop being its head. *)
MeaningOf(s) ==
  LET e == CASE s.kind = "expr" -> s.parts[1]
             [] s.kind = "declare" -> s
             [] s.kind = "forOf" -> Node("forBind", "", SubSeq(s.parts, 1, 2))
  IN Meaning(e, MCGlobals, MCObjects)

Program(ts, ss, whole, runs, meaning) ==
  [source |-> ts, trees |-> ss, whole |-> whole, runs |-> runs, meaning |-> meaning]

Runs(ss) == {Program(Source(<<s>>, "tight"), <<s>>, TRUE, TRUE, MeaningOf(s)) : s \in ss}

-----------------------------------------------------------------------------
(* Sources that are only read: every operator inside every other, every form of
   expression inside every other, and every form of statement. *)

BinaryOps == {"||", "??", "&&", "|", "^", "&", "==", "!==", "<", ">=", "in", "instanceof",
              "<<", ">>>", "+", "-", "*", "%", "**"}

Op2(op, e, f) == Combined(op, e, f)

Pairs == UNION {{Op2(p, Op2(q, x, u), o), Op2(p, x, Op2(q, u, o))} :
                  p \in BinaryOps, q \in BinaryOps}

Ret(e) == Node("return", "", <<e>>)
Block(ss) == Node("block", "", ss)
Fn(kind, n, ps, ss) == Node(kind, n, ps \o <<Block(ss)>>)
P(n) == Leaf("param", n)
Params(e) == <<P("x"), Node("param", "u", <<e>>),
               Node("patternParam", "", <<ObjPat(<<Bind("a", <<u>>)>>), e>>), Leaf("restParam", "o")>>

(* The forms of an expression over e. *)
Forms(e) ==
  {Op2(op, e, u) : op \in {"??", "&&", "===", "in", "-", "**"}}
  \cup {Op2(op, u, e) : op \in {"||", "|", "instanceof", ">>", "/", "**"}}
  \cup {Node("unary", op, <<e>>) : op \in {"-", "!", "~", "typeof", "void"}}
  \cup {Node(k, "", <<e>>) : k \in {"delete", "await", "yield"}}
  \cup {Assign(op, t, e) : op \in {"", "+", ">>>"}, t \in {x, Member(o, "a"), Index(e, e)}}
  \cup {Assign("", ObjPat(<<Bind("x", <<x, e>>), Bind("1", <<ArrPat(<<Skip, Elem(<<u>>), Skip>>)>>),
                            Rest(o)>>), e)}
  \cup {Node("conditional", "", <<e, u, o>>), Node("conditional", "", <<u, e, o>>),
        Node("conditional", "", <<u, o, e>>)}
  \cup {Node("call", "", <<e, u, Spread(e)>>), Node("new", "", <<e>>), Node("new", "", <<e, e>>),
        Node("call", "", <<e, Array(<<S("p"), S("q")>>), e>>),
        Member(e, "of"), Node("optional", "a", <<e>>), Index(e, u), Index(u, e),
        Array(<<>>), Array(<<e, Leaf("hole", ""), Spread(e), Leaf("hole", "")>>),
        Node("template", "", <<S("p"), e, S("q"), e, S("r")>>)}
  \cup {Object(<<Prop("x", x), Prop("get", e), Computed(e, e), Spread(e),
               Prop("1", Fn("function", "1", <<>>, <<Ret(e)>>)),
               Computed(e, Fn("function", "", <<P("x")>>, <<>>)),
               Node("get", "a", <<Fn("function", "a", <<>>, <<Ret(e)>>)>>),
               Node("set", "a", <<Fn("function", "a", <<P("x")>>, <<>>)>>)>>)}
  \cup {Node("arrow", "", <<P("x"), e>>), Node("arrow", "", Params(e) \o <<e>>),
        Node("arrow", "", <<Block(<<Ret(e)>>)>>), Fn("function", "", Params(e), <<Statement(e)>>),
        Fn("generator", "f", <<>>, <<Statement(Leaf("yield", "")), Statement(e)>>)}

Simple == {x, N(1), S("q"), Const(Null), Leaf("this", ""), Leaf("bigint", "7"), Leaf("regex", "re"),
           Node("prefix", "-", <<x>>), Node("postfix", "+", <<x>>)}

Inward == UNION {Forms(e) : e \in UNION {Simple, Forms(x)}}

(* The forms of a statement over expression e and statement s. *)
StatementForms(e, s) ==
  {s, Block(<<s, s>>), Node("if", "", <<e, s>>), Node("if", "", <<e, s, s>>), Node("while", "", <<e, s>>),
   Node("doWhile", "", <<s, e>>), Node("labeled", "l", <<s>>), Ret(e), Leaf("return", ""),
   Node("throw", "", <<e>>), Leaf("break", "l"), Leaf("continue", ""),
   Leaf("let", "x"), Node("let", "x", <<e>>), Node("declare", "", <<ObjPat(<<Bind("x", <<u, e>>)>>), e>>),
   Node("multi", "", <<Leaf("let", "x"), Node("declare", "", <<ArrPat(<<Elem(<<u>>)>>), e>>)>>),
   Node("try", "", <<Block(<<s>>), Node("catch", "x", <<Block(<<>>)>>), Block(<<s>>)>>),
   Node("try", "", <<Block(<<>>), Node("catch", "", <<Block(<<s>>)>>), None>>),
   Node("try", "", <<Block(<<s>>), None, Block(<<>>)>>),
   Node("switch", "", <<e, Node("case", "", <<e, s, s>>), Node("default", "", <<s>>),
                        Node("case", "", <<u>>)>>),
   Node("for", "", <<None, None, None, s>>), Node("for", "", <<Node("let", "x", <<e>>), e, e, s>>),
   Node("for", "", <<Statement(Assign("", x, e)), e, Node("postfix", "+", <<x>>), s>>),
   Node("forOf", "x", <<e, s>>), Node("forIn", "x", <<e, s>>), ForOf(x, e),
   Node("forIn", "", <<ObjPat(<<Bind("x", <<u>>)>>), e, s>>),
   Fn("functionDecl", "f", Params(e), <<s>>), Fn("generatorDecl", "g", <<>>, <<s>>),
   Node("async", "", <<Fn("functionDecl", "h", <<P("x")>>, <<s>>)>>),
   Node("class", "A", <<None, Node("constructor", "", <<Fn("function", "", <<>>, <<s>>)>>)>>),
   Node("class", "A", <<e, Node("static", "", <<Node("method", "get", <<Fn("function", "", <<>>, <<s>>)>>)>>),
                        Node("get", "a", <<Fn("function", "", <<>>, <<Ret(e)>>)>>),
                        Node("method", "static", <<Fn("function", "", Params(e), <<s>>)>>),
                        Node("static", "", <<Node("set", "a", <<Fn("function", "", <<P("x")>>, <<>>)>>)>>),
                        Node("method", "", <<e, Fn("function", "", <<>>, <<>>)>>)>>)}

(* An if without an else is not what an if with one decides on: the else would
   be read as its own. *)
IsShortIf(s) == s.kind = "if" /\ Len(s.parts) = 2

Statements ==
  LET inner == StatementForms(x, Statement(Fn("function", "", <<>>, <<>>)))
      over == UNION {StatementForms(x, s) : s \in inner}
      e == {x, Object(<<>>), Fn("function", "", <<>>, <<>>), Assign("", x, u)}
  IN UNION {UNION {StatementForms(f, Statement(u)) : f \in e},
            {s \in over : ~ (s.kind = "if" /\ Len(s.parts) = 3 /\ IsShortIf(s.parts[2]))}}

Styles == {"tight", "full"}

Read(ss, style) == Program(Source(ss, style), ss, TRUE, FALSE, None)

Reads(ss) == {Read(s, style) : s \in ss, style \in Styles}

(* Sources that break off, or miss a token. *)
Cut(ts, i) == SubSeq(ts, 1, i) \o <<EOF>>
Without1(ts, i) == SubSeq(ts, 1, i - 1) \o SubSeq(ts, i + 1, Len(ts))

Breaking ==
  {Source(<<s>>, style) :
     s \in UNION {StatementForms(x, Statement(u)), {Statement(e) : e \in Forms(x)}}, style \in Styles}

Damages(ts) == UNION {{Cut(ts, i) : i \in 0 .. Len(ts) - 2}, {Without1(ts, i) : i \in 1 .. Len(ts) - 1}}

Damaged(tss) == {Program(ts, <<>>, FALSE, FALSE, None) : ts \in UNION {Damages(b) : b \in tss}}

MCFamilies ==
  LET Expressed(es) == {Statement(e) : e \in es}
  IN {Runs(Expressed(Flat)), Runs(Expressed(Nested)), Runs(Bindings),
      Reads({<<s>> : s \in Expressed(Pairs)}), Reads({<<s>> : s \in Expressed(Inward)}),
      Reads({<<s, Statement(x)>> : s \in Statements}), Damaged(Breaking)}
=============================================================================
