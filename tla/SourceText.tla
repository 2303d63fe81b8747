------------------------------ MODULE SourceText ------------------------------
(***************************************************************************)
(* How a script writes a tree down, after the grammar of the language: the *)
(* reference Parser is compared with.  A tree has two texts.  The "tight"  *)
(* one leaves out every parenthesis the precedence of the operators makes  *)
(* superfluous, writes the short form of properties, methods and           *)
(* parameters and no semicolon before a brace; the "full" one puts every   *)
(* operand in parentheses, writes long forms and commas behind the last    *)
(* element.                                                                *)
(***************************************************************************)
EXTENDS Integers, Sequences, SequencesExt, TLC

T(k) == [kind |-> k, text |-> "", num |-> 0, quasis |-> <<>>, exprs |-> <<>>]
Name(x) == [T("ident") EXCEPT !.text = x]
EOF == T("eof")

Joined(texts, sep) ==
  FoldLeft(LAMBDA ts, t : IF ts = <<>> THEN t ELSE ts \o sep \o t, <<>>, texts)

(* Empty texts count: [a, , b] *)
CommaList(texts) ==
  IF texts = <<>> THEN <<>>
  ELSE FoldLeft(LAMBDA ts, t : ts \o <<T(",")>> \o t, Head(texts), Tail(texts))

Wrapped(a, ts, b) == <<T(a)>> \o ts \o <<T(b)>>

(* The precedence of the language, from the comma-free expression up. *)
BinaryLevel(op) ==
  CASE op \in {"||", "??"} -> 3
    [] op = "&&" -> 4
    [] op = "|" -> 5
    [] op = "^" -> 6
    [] op = "&" -> 7
    [] op \in {"==", "!=", "===", "!=="} -> 8
    [] op \in {"<", "<=", ">", ">=", "in", "instanceof"} -> 9
    [] op \in {"<<", ">>", ">>>"} -> 10
    [] op \in {"+", "-"} -> 11
    [] op \in {"*", "/", "%"} -> 12
    [] op = "**" -> 13

Prec(e) == CASE e.kind \in {"assign", "arrow", "yield"} -> 1
             [] e.kind = "conditional" -> 2
             [] e.kind \in {"binary", "logical"} -> BinaryLevel(e.name)
             [] e.kind \in {"unary", "delete", "await", "prefix"} -> 14
             [] e.kind = "postfix" -> 15
             [] e.kind \in {"call", "new", "member", "index", "optional"} -> 17
             [] OTHER -> 18

Op(x) == IF x \in {"typeof", "void", "delete", "await", "in", "instanceof"} THEN Name(x) ELSE T(x)

WordOf(v) == CASE v[1] \in {"undefined", "null"} -> v[1]
               [] v[1] = "boolean" -> IF v[2] = 1 THEN "true" ELSE "false"

(* A constructor is read up to its first call. *)
RECURSIVE IsChain(_)
IsChain(e) == IF e.kind \in {"member", "index"} THEN IsChain(e.parts[1]) ELSE Prec(e) = 18

IsTagged(e) ==
  LET chunks == e.parts[2]
  IN /\ Len(e.parts) > 1 /\ chunks.kind = "array" /\ Len(chunks.parts) = Len(e.parts) - 1
     /\ \A i \in DOMAIN chunks.parts :
          chunks.parts[i].kind = "const" /\ chunks.parts[i].value[1] = "string"
     /\ \A i \in DOMAIN e.parts : e.parts[i].kind # "spread"

RECURSIVE Bare(_, _), Operand_(_, _, _), ItemText(_, _), PropText(_, _), PatternText(_, _),
          ElementText(_, _), ParamText(_, _), TailText(_, _), TargetText(_, _),
          StmtText(_, _), BlockText(_, _), MemberText(_, _), CaseText(_, _), BindText(_, _)

(* An operand where the grammar has an expression of level n or above. *)
Operand_(e, n, style) ==
  IF Prec(e) < n \/ (style = "full" /\ Prec(e) < 18) THEN Wrapped("(", Bare(e, style), ")")
  ELSE Bare(e, style)

Texts(es, style, F(_, _)) == [i \in DOMAIN es |-> F(es[i], style)]

ItemText(e, style) == CASE e.kind = "hole" -> <<>>
                        [] e.kind = "spread" -> <<T("...")>> \o Operand_(e.parts[1], 1, style)
                        [] OTHER -> Operand_(e, 1, style)

Trailing(es, style) == IF es # <<>> /\ style = "full" THEN <<T(",")>> ELSE <<>>

(* A hole at the end takes a comma of its own. *)
ArrayText(es, style) ==
  LET last == es # <<>> /\ es[Len(es)].kind \in {"hole", "skip"}
  IN CommaList(Texts(es, style, ItemText)) \o IF last THEN <<T(",")>> ELSE Trailing(es, style)

KeyText(k) == IF k \in {"0", "1", "2"}
              THEN <<[T("num") EXCEPT !.num = CHOOSE n \in 0 .. 2 : ToString(n) = k]>>
              ELSE <<Name(k)>>

(* The parameters and the body of a function; an arrow before the body of one
   that is written with an arrow. *)
TailText(f, style) ==
  Wrapped("(", CommaList(Texts(Front(f.parts), style, ParamText)), ")")
  \o (IF f.kind = "arrow" THEN <<T("=>")>> ELSE <<>>)
  \o LET body == Last(f.parts)
         ts == Operand_(body, 1, style)
     IN CASE body.kind = "block" -> BlockText(body.parts, style)
          [] body.kind # "block" /\ Head(ts).kind = "{" -> Wrapped("(", ts, ")")
          [] OTHER -> ts

Default(ps, style) == IF Len(ps) = 2 THEN <<T("=")>> \o Operand_(ps[2], 1, style) ELSE <<>>

ParamText(p, style) ==
  CASE p.kind = "param" ->
         <<Name(p.name)>> \o IF p.parts = <<>> THEN <<>> ELSE <<T("=")>> \o Operand_(p.parts[1], 1, style)
    [] p.kind = "restParam" -> <<T("..."), Name(p.name)>>
    [] p.kind = "patternParam" -> PatternText(p.parts[1], style) \o Default(p.parts, style)

PropText(p, style) ==
  LET v == Last(p.parts)
      IsMethodOf(n) == style = "tight" /\ v.kind = "function" /\ v.name = n
  IN CASE p.kind = "spread" -> ItemText(p, style)
       [] p.kind \in {"get", "set"} -> <<Name(p.kind)>> \o KeyText(p.name) \o TailText(v, style)
       [] p.kind = "computed" ->
            Wrapped("[", Operand_(p.parts[1], 1, style), "]")
            \o (IF IsMethodOf("") THEN TailText(v, style) ELSE <<T(":")>> \o Operand_(v, 1, style))
       [] p.kind = "prop" ->
            CASE IsMethodOf(p.name) -> KeyText(p.name) \o TailText(v, style)
              [] style = "tight" /\ v.kind = "ident" /\ v.name = p.name -> <<Name(p.name)>>
              [] OTHER -> KeyText(p.name) \o <<T(":")>> \o Operand_(v, 1, style)

(* Targets of assignments, in and outside patterns. *)
TargetText(t, style) ==
  IF t.kind \in {"objectPattern", "arrayPattern"} THEN PatternText(t, style) ELSE Bare(t, style)

ElementText(el, style) ==
  CASE el.kind = "skip" -> <<>>
    [] el.kind = "rest" -> <<T("...")>> \o TargetText(el.parts[1], style)
    [] el.kind = "elem" -> TargetText(el.parts[1], style) \o Default(el.parts, style)
    [] el.kind = "prop" ->
         (IF style = "tight" /\ el.parts[1].kind = "ident" /\ el.parts[1].name = el.name
          THEN <<Name(el.name)>>
          ELSE KeyText(el.name) \o <<T(":")>> \o TargetText(el.parts[1], style))
         \o Default(el.parts, style)

PatternText(pat, style) ==
  LET es == pat.parts
      ts == CommaList(Texts(es, style, ElementText))
      last == es # <<>> /\ es[Len(es)].kind = "skip"
      rest == es # <<>> /\ es[Len(es)].kind = "rest"
      comma == IF last \/ (es # <<>> /\ ~ rest /\ style = "full") THEN <<T(",")>> ELSE <<>>
  IN IF pat.kind = "objectPattern" THEN Wrapped("{", ts \o comma, "}")
     ELSE Wrapped("[", ts \o comma, "]")

Named(x) == IF x = "" THEN <<>> ELSE <<Name(x)>>

Bare(e, style) ==
  LET Sub(i, n) == Operand_(e.parts[i], n, style)
      level == BinaryLevel(e.name)
      args == Wrapped("(", CommaList(Texts(Tail(e.parts), style, ItemText)), ")")
      odd == {i \in DOMAIN e.parts : i % 2 = 1}
      plain == style = "tight" /\ Len(e.parts) = 2 /\ e.parts[1].kind = "param"
               /\ e.parts[1].parts = <<>>
      params == Wrapped("(", CommaList(Texts(Front(e.parts), style, ParamText)), ")")
      template(chunks, exprs) ==
        <<[T("template") EXCEPT !.quasis = [i \in DOMAIN chunks |-> chunks[i].value],
             !.exprs = [i \in DOMAIN exprs |-> Operand_(exprs[i], 1, style) \o <<EOF>>]]>>
  IN CASE e.kind = "const" ->
            CASE e.value[1] = "number" -> <<[T("num") EXCEPT !.num = e.value[2]]>>
              [] e.value[1] = "string" -> <<[T("str") EXCEPT !.text = e.value[2][1]]>>
              [] OTHER -> <<Name(WordOf(e.value))>>
       [] e.kind = "ident" -> <<Name(e.name)>>
       [] e.kind = "this" -> <<Name("this")>>
       [] e.kind \in {"bigint", "regex"} -> <<[T(e.kind) EXCEPT !.text = e.name]>>
       [] e.kind = "binary" /\ e.name = "**" -> Sub(1, 15) \o <<T("**")>> \o Sub(2, 13)
       [] e.kind \in {"binary", "logical"} /\ e.name # "**" ->
            Sub(1, level) \o <<Op(e.name)>> \o Sub(2, level + 1)
       [] e.kind = "unary" -> <<Op(e.name)>> \o Sub(1, 14)
       [] e.kind \in {"delete", "await"} -> <<Name(e.kind)>> \o Sub(1, 14)
       [] e.kind = "prefix" -> <<T(e.name \o e.name)>> \o Sub(1, 15)
       [] e.kind = "postfix" -> Sub(1, 17) \o <<T(e.name \o e.name)>>
       [] e.kind = "yield" ->
            <<Name("yield")>> \o IF e.parts = <<>> THEN <<>> ELSE Sub(1, 1)
       [] e.kind = "conditional" ->
            Sub(1, 3) \o <<T("?")>> \o Sub(2, 1) \o <<T(":")>> \o Sub(3, 1)
       [] e.kind = "assign" -> TargetText(e.parts[1], style) \o <<T(e.name \o "=")>> \o Sub(2, 1)
       [] e.kind = "member" -> Sub(1, 17) \o <<T("."), Name(e.name)>>
       [] e.kind = "optional" -> Sub(1, 17) \o <<T("?."), Name(e.name)>>
       [] e.kind = "index" -> Sub(1, 17) \o Wrapped("[", Sub(2, 1), "]")
       [] e.kind = "call" ->
            IF style = "full" /\ IsTagged(e)
            THEN Sub(1, 17) \o template(e.parts[2].parts, SubSeq(e.parts, 3, Len(e.parts)))
            ELSE Sub(1, 17) \o args
       [] e.kind = "new" ->
            <<Name("new")>>
            \o (IF IsChain(e.parts[1]) THEN Sub(1, 1) ELSE Wrapped("(", Bare(e.parts[1], style), ")"))
            \o (IF style = "full" /\ Len(e.parts) = 1 THEN <<>> ELSE args)
       [] e.kind = "template" ->
            template([i \in 1 .. Cardinality(odd) |-> e.parts[2 * i - 1]],
                     [i \in 1 .. Len(e.parts) - Cardinality(odd) |-> e.parts[2 * i]])
       [] e.kind = "array" -> Wrapped("[", ArrayText(e.parts, style), "]")
       [] e.kind = "object" ->
            Wrapped("{", CommaList(Texts(e.parts, style, PropText)) \o Trailing(e.parts, style), "}")
       [] e.kind = "arrow" ->
            IF plain THEN <<Name(e.parts[1].name)>> \o SubSeq(TailText(e, style), 4, Len(TailText(e, style)))
            ELSE TailText(e, style)
       [] e.kind = "function" -> <<Name("function")>> \o Named(e.name) \o TailText(e, style)
       [] e.kind = "generator" -> <<Name("function"), T("*")>> \o Named(e.name) \o TailText(e, style)

-----------------------------------------------------------------------------
(* Statements. *)

Semi == <<T(";")>>

(* No statement starts like a block, a function or a declaration unless it is
   one. *)
ExprText(e, style) ==
  LET ts == Operand_(e, 1, style)
  IN IF Head(ts).kind = "{" \/ Head(ts).text \in {"function", "class", "let", "async"}
     THEN Wrapped("(", ts, ")") ELSE ts

(* The last semicolon of a list may go. *)
ListText(stmts, style) ==
  LET ts == FlattenSeq(Texts(stmts, style, StmtText))
  IN IF style = "tight" /\ ts # <<>> /\ Last(ts).kind = ";" THEN Front(ts) ELSE ts

BlockText(stmts, style) == Wrapped("{", ListText(stmts, style), "}")

(* name = init, pattern = init *)
BindText(d, style) ==
  CASE d.kind = "declare" ->
         PatternText(d.parts[1], style) \o <<T("=")>> \o Operand_(d.parts[2], 1, style)
    [] d.kind = "let" ->
         <<Name(d.name)>> \o IF d.parts = <<>> THEN <<>> ELSE <<T("=")>> \o Operand_(d.parts[1], 1, style)
    [] d.kind = "multi" -> CommaList(Texts(d.parts, style, BindText))

MemberText(m, style) ==
  LET key == IF Len(m.parts) = 2 THEN Wrapped("[", Operand_(m.parts[1], 1, style), "]")
             ELSE KeyText(m.name)
  IN (CASE m.kind = "static" -> <<Name("static")>> \o MemberText(m.parts[1], style)
        [] m.kind = "constructor" -> <<Name("constructor")>> \o TailText(m.parts[1], style)
        [] m.kind \in {"get", "set"} -> <<Name(m.kind)>> \o key \o TailText(Last(m.parts), style)
        [] m.kind = "method" -> key \o TailText(Last(m.parts), style))
     \o (IF style = "full" THEN Semi ELSE <<>>)

CaseText(c, style) ==
  IF c.kind = "default" THEN <<Name("default"), T(":")>> \o FlattenSeq(Texts(c.parts, style, StmtText))
  ELSE <<Name("case")>> \o Operand_(c.parts[1], 1, style) \o <<T(":")>>
       \o FlattenSeq(Texts(Tail(c.parts), style, StmtText))

StmtText(s, style) ==
  LET Stmt(i) == StmtText(s.parts[i], style)
      Test(i) == Wrapped("(", Operand_(s.parts[i], 1, style), ")")
      Part(i) == IF s.parts[i].kind = "none" THEN <<>> ELSE Operand_(s.parts[i], 1, style)
      word == CASE s.kind = "forOf" -> "of" [] s.kind = "forIn" -> "in" [] OTHER -> ""
      n == Len(s.parts)
  IN CASE s.kind = "expr" -> ExprText(s.parts[1], style) \o Semi
       [] s.kind \in {"let", "declare", "multi"} -> <<Name("let")>> \o BindText(s, style) \o Semi
       [] s.kind = "block" -> BlockText(s.parts, style)
       [] s.kind = "if" ->
            <<Name("if")>> \o Test(1) \o Stmt(2)
            \o IF n = 3 THEN <<Name("else")>> \o Stmt(3) ELSE <<>>
       [] s.kind = "while" -> <<Name("while")>> \o Test(1) \o Stmt(2)
       [] s.kind = "doWhile" -> <<Name("do")>> \o Stmt(1) \o <<Name("while")>> \o Test(2) \o Semi
       [] s.kind = "return" -> <<Name("return")>> \o (IF n = 0 THEN <<>> ELSE Part(1)) \o Semi
       [] s.kind = "throw" -> <<Name("throw")>> \o Part(1) \o Semi
       [] s.kind \in {"break", "continue"} -> <<Name(s.kind)>> \o Named(s.name) \o Semi
       [] s.kind = "labeled" -> <<Name(s.name), T(":")>> \o Stmt(1)
       [] s.kind = "try" ->
            <<Name("try")>> \o Stmt(1)
            \o (IF s.parts[2].kind = "none" THEN <<>>
                ELSE <<Name("catch")>>
                     \o (IF s.parts[2].name = "" THEN <<>> ELSE Wrapped("(", <<Name(s.parts[2].name)>>, ")"))
                     \o StmtText(s.parts[2].parts[1], style))
            \o (IF s.parts[3].kind = "none" THEN <<>> ELSE <<Name("finally")>> \o Stmt(3))
       [] s.kind = "switch" ->
            <<Name("switch")>> \o Test(1)
            \o Wrapped("{", FlattenSeq(Texts(Tail(s.parts), style, CaseText)), "}")
       [] s.kind = "for" ->
            <<Name("for"), T("(")>>
            \o (CASE s.parts[1].kind = "none" -> <<>>
                  [] s.parts[1].kind = "expr" -> Operand_(s.parts[1].parts[1], 1, style)
                  [] OTHER -> <<Name("let")>> \o BindText(s.parts[1], style))
            \o Semi \o Part(2) \o Semi \o Part(3) \o <<T(")")>> \o Stmt(4)
       [] s.kind \in {"forOf", "forIn"} ->
            <<Name("for"), T("(")>>
            \o (IF s.name # "" THEN <<Name("let"), Name(s.name)>> ELSE TargetText(s.parts[1], style))
            \o <<Name(word)>> \o Part(n - 1) \o <<T(")")>> \o Stmt(n)
       [] s.kind = "functionDecl" -> <<Name("function"), Name(s.name)>> \o TailText(s, style)
       [] s.kind = "generatorDecl" -> <<Name("function"), T("*"), Name(s.name)>> \o TailText(s, style)
       [] s.kind = "async" -> <<Name("async")>> \o Stmt(1)
       [] s.kind = "class" ->
            <<Name("class"), Name(s.name)>>
            \o (IF s.parts[1].kind = "none" THEN <<>>
                ELSE <<Name("extends")>> \o Operand_(s.parts[1], 17, style))
            \o Wrapped("{", FlattenSeq(Texts(Tail(s.parts), style, MemberText)), "}")

(* A program, up to the end of input. *)
Source(stmts, style) == ListText(stmts, style) \o <<EOF>>
=============================================================================
