-------------------------------- MODULE Parser --------------------------------
(***************************************************************************)
(* The recursive-descent parser of internal/parser: parser.go,             *)
(* parse_expr.go, parse_pattern.go and parse_stmt.go, on the tokens lex.go *)
(* makes.  A token is its kind, punctuation being its own kind, with the   *)
(* text of a name or string, the number of a literal, and the chunks and   *)
(* interpolations of a template, each the tokens of an expression.  Trees  *)
(* are the nodes of ExprCode; a list of nodes that one is made from goes   *)
(* into its parts.  The end of input is a token too.  Only TLC evaluates   *)
(* this module: parsing is recursive.                                      *)
(***************************************************************************)
EXTENDS ExprCode

None == Node("none", "", <<>>)
Leaf(k, n) == Node(k, n, <<>>)

(* The parser: what it has read last is in node, and why it gave up in err,
   "rejected" for an error it returns and "panicked" for a token read behind
   the last one.  After either, nothing moves any more. *)
Parsing(toks) == [toks |-> toks, pos |-> 1, noIn |-> FALSE, node |-> None, err |-> ""]

Failed(p) == p.err # ""
Beyond(p) == p.pos \notin DOMAIN p.toks

Kind(p) == CASE Failed(p) -> "failed"
             [] ~ Failed(p) /\ Beyond(p) -> "beyond"
             [] OTHER -> p.toks[p.pos].kind

Tok(p) == p.toks[p.pos]
Word(p) == IF Kind(p) = "ident" THEN Tok(p).text ELSE ""

(* An operator is punctuation or, like instanceof, a name. *)
Operator(p) == IF Kind(p) = "ident" THEN Tok(p).text ELSE Kind(p)

KindAfter(p) == IF Failed(p) \/ p.pos + 1 \notin DOMAIN p.toks THEN "" ELSE p.toks[p.pos + 1].kind

Fail(p) == CASE Failed(p) -> p
             [] ~ Failed(p) /\ Beyond(p) -> [p EXCEPT !.err = "panicked"]
             [] OTHER -> [p EXCEPT !.err = "rejected"]

Advance(p) == CASE Failed(p) -> p
                [] ~ Failed(p) /\ Beyond(p) -> [p EXCEPT !.err = "panicked"]
                [] OTHER -> [p EXCEPT !.pos = @ + 1]

Gives(p, n) == IF Failed(p) THEN p ELSE [p EXCEPT !.node = n]

Expect(p, k) == IF Kind(p) \in {k, "failed"} THEN Advance(p) ELSE Fail(p)

(* Slip: the next token is taken for a semicolon, whatever it is. *)
ConsumeAny(p) == Advance(p)

ConsumeSemi(p) == IF Kind(p) = ";" THEN Advance(p) ELSE p

(* Where the list that ends with k ends. *)
Ends(p, k) == Kind(p) \in {k, "eof", "failed"}

RECURSIVE Parsed(_, _), ParseAssignment(_), ParseConditional(_), ParseLevel(_, _),
          ParseExponentiation(_),
          ParseUnary(_), ParseNewExpr(_), ParseNewCallee(_), ContinueCallee(_),
          ContinuePostfix(_), ParsePrimary(_), ParseArgs(_, _), ParseItem(_),
          ParseObjectLit(_), ParseProps(_, _), ParseProp(_), ParseComputedProp(_),
          ParseNamedProp(_), ParseArrayLit(_), ParseItems(_, _), ParseTemplate(_, _),
          ParseTagged(_), ParseIndex(_), ParseTo(_),
          ParseExpressionString(_), ParseArrowBody(_, _), ParseParenArrowFunction(_),
          ParseFunctionTail(_), ParseFunctionExpr(_), ParseParamList(_, _), ParseParam(_),
          ParsePattern(_), ParsePatternProps(_, _), ParsePatternElems(_, _), ParseTarget(_),
          ParseDefault(_, _), Chain(_, _), FromRight(_, _),
          ParseStatement(_), ParseStatements(_, _), ParseBlock(_), ParseLetDecl(_, _),
          ParseOneDecl(_), ParseIfStmt(_), ParseReturnStmt(_), ParseThrowStmt(_),
          ParseTryStmt(_), ParseCatch(_), ParseWhileStmt(_), ParseDoWhileStmt(_),
          ParseSwitchStmt(_), ParseCases(_, _), ParseCaseBody(_, _), ParseForStmt(_),
          ParseForHead(_), ParseForRest(_, _), ParseForEach(_, _, _), ParseFunctionDecl(_),
          ParseClassDecl(_), ParseMembers(_, _), ParseClassMember(_), ParseMember(_),
          CoerceExprToPattern(_), CoerceElement(_), CoerceExprToPatternTarget(_),
          ParseExpression(_), ParseTest(_), ParseLetDeclNoSemi(_)

-----------------------------------------------------------------------------
(* Assignments. *)

AssignOps == ("=" :> "") @@ ("+=" :> "+") @@ ("-=" :> "-") @@ ("*=" :> "*") @@ ("/=" :> "/")
             @@ ("%=" :> "%") @@ ("**=" :> "**") @@ ("&&=" :> "&&") @@ ("||=" :> "||")
             @@ ("??=" :> "??") @@ ("&=" :> "&") @@ ("|=" :> "|") @@ ("^=" :> "^")
             @@ ("<<=" :> "<<") @@ (">>=" :> ">>") @@ (">>>=" :> ">>>")

(* Behind the parenthesis that closes the one at p, past any in between. *)
RECURSIVE BehindMatch(_, _, _)
BehindMatch(toks, j, depth) ==
  LET d == CASE toks[j].kind = "(" -> depth + 1
             [] toks[j].kind = ")" -> depth - 1
             [] OTHER -> depth
  IN IF j = Len(toks) \/ d = 0 THEN j + 1 ELSE BehindMatch(toks, j + 1, d)

IsArrowLookahead(p) ==
  LET j == BehindMatch(p.toks, p.pos, 0) IN j \in DOMAIN p.toks /\ p.toks[j].kind = "=>"

Invalid == Leaf("invalid", "")

SplitDefault(n) == IF n.kind = "assign" /\ n.name = "" THEN n.parts ELSE <<n>>

CoerceExprToPatternTarget(n) ==
  CASE n.kind \in {"ident", "member", "index"} -> n
    [] n.kind \in {"object", "array"} -> CoerceExprToPattern(n)
    [] OTHER -> Invalid

(* A property of an object literal or an item of an array literal. *)
CoerceElement(e) ==
  LET kind == IF e.kind = "prop" THEN "prop" ELSE "elem"
      split == SplitDefault(IF e.kind = "prop" THEN e.parts[1] ELSE e)
      target == CoerceExprToPatternTarget(split[1])
  IN CASE e.kind = "spread" ->
            IF e.parts[1].kind = "ident" THEN Node("rest", "", e.parts) ELSE Invalid
       [] e.kind = "hole" -> Leaf("skip", "")
       [] e.kind \in {"computed", "get", "set"} -> Invalid
       [] OTHER -> IF target = Invalid THEN Invalid
                   ELSE Node(kind, IF kind = "prop" THEN e.name ELSE "", <<target>> \o Tail(split))

CoerceExprToPattern(n) ==
  LET elements == [i \in DOMAIN n.parts |-> CoerceElement(n.parts[i])]
  IN IF Invalid \in Range(elements) THEN Invalid
     ELSE Node(IF n.kind = "object" THEN "objectPattern" ELSE "arrayPattern", "", elements)

(* What follows the left operand, if it is an assignment operator. *)
ParseTo(l) ==
  LET op == AssignOps[Kind(l)]
      rhs == Parsed("assignment", Advance(l))
      pattern == CoerceExprToPattern(l.node)
      To(target) == Gives(rhs, Node("assign", op, <<target, rhs.node>>))
  IN CASE l.node.kind \in {"ident", "member", "index"} -> To(l.node)
       [] l.node.kind \in {"object", "array"} ->
            IF op # "" \/ pattern = Invalid THEN Fail(Advance(l)) ELSE To(pattern)
       [] OTHER -> Fail(Advance(l))

ParseAssignment(p) ==
  LET left == ParseConditional(p)
  IN CASE Kind(p) = "ident" /\ KindAfter(p) = "=>" ->
            ParseArrowBody(Advance(Advance(p)), <<Leaf("param", Word(p))>>)
       [] Kind(p) = "(" /\ IsArrowLookahead(p) -> ParseParenArrowFunction(p)
       [] OTHER ->
            IF left.err # "" \/ Kind(left) \notin DOMAIN AssignOps THEN left ELSE ParseTo(left)

ParseExpression(p) == Parsed("assignment", p)

ParseConditional(p) ==
  LET test == ParseLevel(p, "LogicalOr")
      cons == Parsed("assignment", Advance(test))
      alt == Parsed("assignment", Expect(cons, ":"))
  IN IF test.err # "" \/ Kind(test) # "?" THEN test
     ELSE Gives(alt, Node("conditional", "", <<test.node, cons.node, alt.node>>))

-----------------------------------------------------------------------------
(* Binary operators, level by level: the functions differ in their operators and
   in the level their operands are of. *)

Tighter == ("LogicalOr" :> "LogicalAnd") @@ ("LogicalAnd" :> "BitOr") @@ ("BitOr" :> "BitXor")
           @@ ("BitXor" :> "BitAnd") @@ ("BitAnd" :> "Equality") @@ ("Equality" :> "Relational")
           @@ ("Relational" :> "Shift") @@ ("Shift" :> "Additive")
           @@ ("Additive" :> "Multiplicative") @@ ("Multiplicative" :> "Exponentiation")

Operators(p, level) ==
  CASE level = "LogicalOr" -> {"||", "??"}
    [] level = "LogicalAnd" -> {"&&"}
    [] level = "BitOr" -> {"|"}
    [] level = "BitXor" -> {"^"}
    [] level = "BitAnd" -> {"&"}
    [] level = "Equality" -> {"==", "!=", "===", "!=="}
    [] level = "Relational" ->
         {"<", "<=", ">", ">=", "instanceof"} \cup IF p.noIn THEN {} ELSE {"in"}
    [] level = "Shift" -> {"<<", ">>", ">>>"}
    [] level = "Additive" -> {"+", "-"}
    [] level = "Multiplicative" -> {"*", "/", "%"}

Combined(op, l, r) ==
  Node(IF op \in ShortCircuits THEN "logical" ELSE "binary", op, <<l, r>>)

(* Left-associative: l is the operand read so far. *)
Chain(l, level) ==
  LET right == ParseLevel(Advance(l), Tighter[level])
  IN IF l.err # "" \/ Operator(l) \notin Operators(l, level) THEN l
     ELSE Chain(Gives(right, Combined(Operator(l), l.node, right.node)), level)

(* Slip: the right operand takes the rest of the chain. *)
FromRight(p, level) ==
  LET left == IF level = "Exponentiation" THEN ParseExponentiation(p)
              ELSE FromRight(p, Tighter[level])
      right == FromRight(Advance(left), level)
  IN IF level = "Exponentiation" \/ Operator(left) \notin Operators(left, level) THEN left
     ELSE Gives(right, Combined(Operator(left), left.node, right.node))

ParseLevel(p, level) ==
  IF level = "Exponentiation" THEN ParseExponentiation(p)
  ELSE Chain(ParseLevel(p, Tighter[level]), level)

ParseExponentiation(p) ==
  LET left == Parsed("unary", p)
      right == ParseExponentiation(Advance(left))
  IN IF left.err # "" \/ Kind(left) # "**" THEN left
     ELSE Gives(right, Node("binary", "**", <<left.node, right.node>>))

CanStartExpr(k) == k \notin {";", ")", "}", "]", ",", ":", "eof"}

UpdateOp(k) == IF k = "++" THEN "+" ELSE "-"

(* A unary + leaves no node. *)
ParseUnary(p) ==
  LET op == Operator(p)
      x == Parsed("unary", Advance(p))
      y == Parsed("assignment", Advance(p))
  IN CASE op = "new" -> ContinuePostfix(ParseNewExpr(p))
       [] op \in {"typeof", "void", "-", "!", "~"} -> Gives(x, Node("unary", op, <<x.node>>))
       [] op \in {"await", "delete"} -> Gives(x, Node(op, "", <<x.node>>))
       [] op = "yield" ->
            IF CanStartExpr(Kind(Advance(p))) THEN Gives(y, Node("yield", "", <<y.node>>))
            ELSE Gives(Advance(p), Leaf("yield", ""))
       [] op = "+" -> x
       [] op \in {"++", "--"} ->
            IF ~ Failed(x) /\ x.node.kind = "ident"
            THEN Gives(x, Node("prefix", UpdateOp(op), <<x.node>>))
            ELSE Fail(x)
       [] OTHER -> ContinuePostfix(Parsed("primary", p))

-----------------------------------------------------------------------------
(* new, calls and accesses. *)

ParseItem(p) ==
  LET e == Parsed("assignment", Advance(p))
  IN IF Kind(p) = "..." THEN Gives(e, Node("spread", "", <<e.node>>)) ELSE Parsed("assignment", p)

ParseArgs(p, args) ==
  LET e == Parsed("item", IF args = <<>> THEN p ELSE Expect(p, ","))
  IN IF Ends(p, ")") THEN Gives(Expect(p, ")"), args)
     ELSE ParseArgs(e, Append(args, e.node))

ParseNewExpr(p) ==
  LET callee == ParseNewCallee(Advance(p))
      args == ParseArgs(Advance(callee), <<>>)
  IN IF Kind(callee) = "(" THEN Gives(args, Node("new", "", <<callee.node>> \o args.node))
     ELSE Gives(callee, Node("new", "", <<callee.node>>))

(* .name and ?.name *)
ParseMemberOf(p, kind) ==
  LET q == Advance(p)
  IN IF Kind(q) = "ident" THEN Gives(Advance(q), Node(kind, Word(q), <<p.node>>)) ELSE Fail(q)

ParseIndex(p) ==
  LET index == ParseExpression(Advance(p))
  IN Gives(Expect(index, "]"), Node("index", "", <<p.node, index.node>>))

(* What the constructor of new is, up to its arguments. *)
ContinueCallee(p) ==
  CASE Kind(p) = "." -> ContinueCallee(ParseMemberOf(p, "member"))
    [] Kind(p) = "[" -> ContinueCallee(ParseIndex(p))
    [] OTHER -> p

ParseNewCallee(p) == ContinueCallee(Parsed("primary", p))

(* Interpolations in turn, each by a parser of its own; the first that gives up, or
   panics, ends this one too. *)
ParseTemplate(p, t) ==
  LET subs == [i \in DOMAIN t.exprs |-> ParseExpressionString(t.exprs[i])]
      bad  == {i \in DOMAIN subs : Failed(subs[i])}
  IN IF Failed(p) \/ bad = {} THEN Gives(p, [i \in DOMAIN subs |-> subs[i].node])
     ELSE [p EXCEPT !.err = subs[CHOOSE i \in bad : \A j \in bad : i <= j].err]

Chunks(t) == [i \in DOMAIN t.quasis |-> Const(t.quasis[i])]

Interleaved(chunks, es) ==
  [i \in 1 .. 2 * Len(es) + 1 |-> IF i % 2 = 1 THEN chunks[(i + 1) \div 2] ELSE es[i \div 2]]

ParseTagged(p) ==
  LET subs == ParseTemplate(Advance(p), Tok(p))
  IN Gives(subs, Node("call", "", <<p.node, Node("array", "", Chunks(Tok(p)))>> \o subs.node))

ContinuePostfix(p) ==
  LET args == ParseArgs(Advance(p), <<>>)
  IN CASE p.err # "" -> p
       [] Kind(p) = "." -> ContinuePostfix(ParseMemberOf(p, "member"))
       [] Kind(p) = "?." -> ContinuePostfix(ParseMemberOf(p, "optional"))
       [] Kind(p) = "[" -> ContinuePostfix(ParseIndex(p))
       [] Kind(p) = "(" -> ContinuePostfix(Gives(args, Node("call", "", <<p.node>> \o args.node)))
       [] Kind(p) \in {"++", "--"} ->
            IF p.node.kind = "ident"
            THEN Gives(Advance(p), Node("postfix", UpdateOp(Kind(p)), <<p.node>>))
            ELSE Fail(Advance(p))
       [] Kind(p) = "template" -> ContinuePostfix(ParseTagged(p))
       [] OTHER -> p

Literals == ("true" :> Const(Bool(TRUE))) @@ ("false" :> Const(Bool(FALSE)))
            @@ ("null" :> Const(Null)) @@ ("undefined" :> Const(Undefined))
            @@ ("this" :> Leaf("this", ""))

NotExpressions == {"let", "var", "for", "return", "if", "else", "new", "throw", "try", "catch",
                   "finally", "while", "do", "switch", "case", "default", "break", "continue",
                   "instanceof"}

ParsePrimary(p) ==
  LET q == Advance(p)
      e == ParseExpression(q)
      subs == ParseTemplate(q, Tok(p))
  IN CASE Kind(p) = "{" -> ParseObjectLit(p)
       [] Kind(p) = "[" -> ParseArrayLit(p)
       [] Word(p) = "function" -> ParseFunctionExpr(p)
       [] Kind(p) = "num" -> Gives(q, Const(Number(Tok(p).num)))
       [] Kind(p) = "str" -> Gives(q, Const(String(<<Tok(p).text>>)))
       [] Kind(p) \in {"bigint", "regex"} -> Gives(q, Leaf(Kind(p), Tok(p).text))
       [] Kind(p) = "template" ->
            Gives(subs, Node("template", "", Interleaved(Chunks(Tok(p)), subs.node)))
       [] Kind(p) = "(" -> Gives(Expect(e, ")"), e.node)
       [] Kind(p) = "ident" /\ Word(p) # "function" ->
            CASE Word(p) \in DOMAIN Literals -> Gives(q, Literals[Word(p)])
              [] Word(p) \in NotExpressions -> Fail(q)
              [] OTHER -> Gives(q, Ident(Word(p)))
       [] OTHER -> IF Failed(q) THEN q ELSE [q EXCEPT !.err = "rejected"]

-----------------------------------------------------------------------------
(* Literals. *)

KeyOf(p) == IF Kind(p) = "num" THEN ToString(Tok(p).num) ELSE Tok(p).text

(* get name and set name, but not get: and get(). *)
IsAccessor(p) == Word(p) \in {"get", "set"} /\ KindAfter(p) \in {"ident", "str"}

ParseNamedProp(p) ==
  LET key == KeyOf(p)
      q == Advance(p)
      method == Parsed("tail", q)
      def == Parsed("assignment", Advance(q))
      value == Parsed("assignment", Advance(q))
      Prop(n) == Node("prop", key, <<n>>)
  IN CASE Kind(p) \notin {"ident", "str", "num"} -> Fail(p)
       [] Kind(q) = "(" -> Gives(method, Prop(Node("function", key, method.node)))
       [] Kind(q) = "=" -> Gives(def, Prop(Node("assign", "", <<Ident(key), def.node>>)))
       [] Kind(q) = ":" -> Gives(value, Prop(value.node))
       [] OTHER -> Gives(q, Prop(Ident(key)))

ParseComputedProp(p) ==
  LET key == Parsed("assignment", Advance(p))
      q == Expect(key, "]")
      method == Parsed("tail", q)
      value == Parsed("assignment", Expect(q, ":"))
      Computed(v, n) == Gives(v, Node("computed", "", <<key.node, n>>))
  IN IF Kind(q) = "(" THEN Computed(method, Node("function", "", method.node))
     ELSE Computed(value, value.node)

ParseProp(p) ==
  LET spread == Parsed("assignment", Advance(p))
      key == Advance(p)
      accessor == Parsed("tail", Advance(key))
  IN CASE Kind(p) = "..." -> Gives(spread, Node("spread", "", <<spread.node>>))
       [] Kind(p) = "[" -> ParseComputedProp(p)
       [] IsAccessor(p) -> Gives(accessor, Node(Word(p), KeyOf(key),
                                               <<Node("function", KeyOf(key), accessor.node)>>))
       [] OTHER -> ParseNamedProp(p)

ParseProps(p, props) ==
  LET q == IF props = <<>> THEN p ELSE Expect(p, ",")
      prop == Parsed("prop", q)
  IN CASE Ends(p, "}") -> Gives(Expect(p, "}"), props)
       [] ~ Ends(p, "}") /\ props # <<>> /\ Kind(q) = "}" -> Gives(Advance(q), props)
       [] OTHER -> ParseProps(prop, Append(props, prop.node))

ParseObjectLit(p) ==
  LET props == ParseProps(Expect(p, "{"), <<>>) IN Gives(props, Node("object", "", props.node))

(* A comma where an item is due makes a hole, and is read again as the comma
   behind it. *)
ParseItems(p, items) ==
  LET q == IF items = <<>> THEN p ELSE Expect(p, ",")
      item == Parsed("item", q)
  IN CASE Ends(p, "]") -> Gives(Expect(p, "]"), items)
       [] ~ Ends(p, "]") /\ items # <<>> /\ Kind(q) = "]" -> Gives(Advance(q), items)
       [] ~ Ends(p, "]") /\ Kind(q) = "," -> ParseItems(q, Append(items, Leaf("hole", "")))
       [] OTHER -> ParseItems(item, Append(items, item.node))

ParseArrayLit(p) ==
  LET items == ParseItems(Expect(p, "["), <<>>) IN Gives(items, Node("array", "", items.node))

ParseExpressionString(toks) ==
  LET e == ParseExpression(Parsing(toks)) IN IF Kind(e) \in {"eof", "failed"} THEN e ELSE Fail(e)

-----------------------------------------------------------------------------
(* Functions.  The last part of a function is its body, a block or, of an arrow
   function, perhaps an expression. *)

ParseArrowBody(p, params) ==
  LET body == IF Kind(p) = "{" THEN Parsed("block", p) ELSE Parsed("assignment", p)
  IN Gives(body, Node("arrow", "", Append(params, body.node)))

ParseParenArrowFunction(p) ==
  LET params == ParseParamList(Expect(p, "("), <<>>)
  IN ParseArrowBody(Expect(Expect(params, ")"), "=>"), params.node)

(* What the parts of a function are. *)
ParseFunctionTail(p) ==
  LET params == ParseParamList(Expect(p, "("), <<>>)
      body == Parsed("block", Expect(params, ")"))
  IN Gives(body, Append(params.node, body.node))

IsStar(p) == Kind(Advance(p)) = "*"

ParseFunctionExpr(p) ==
  LET q == IF IsStar(p) THEN Advance(Advance(p)) ELSE Advance(p)
      f == Parsed("tail", IF Word(q) # "" THEN Advance(q) ELSE q)
  IN Gives(f, Node(IF IsStar(p) THEN "generator" ELSE "function", Word(q), f.node))

(* name = default, behind the name or the pattern. *)
ParseDefault(p, n) ==
  LET def == Parsed("assignment", Advance(p))
  IN IF Kind(p) = "=" THEN Gives(def, [n EXCEPT !.parts = Append(@, def.node)])
     ELSE Gives(p, n)

ParseParam(p) ==
  LET name == Advance(p)
      pattern == Parsed("pattern", p)
  IN CASE Kind(p) = "..." ->
            IF Kind(name) # "ident" \/ KindAfter(name) = "," THEN Fail(name)
            ELSE Gives(Advance(name), Leaf("restParam", Word(name)))
       [] Kind(p) \in {"{", "["} ->
            ParseDefault(pattern, Node("patternParam", "", <<pattern.node>>))
       [] Kind(p) = "ident" -> ParseDefault(name, Leaf("param", Word(p)))
       [] OTHER -> Fail(p)

ParseParamList(p, params) ==
  LET param == Parsed("param", IF params = <<>> THEN p ELSE Expect(p, ","))
  IN IF Ends(p, ")") THEN Gives(p, params)
     ELSE ParseParamList(param, Append(params, param.node))

-----------------------------------------------------------------------------
(* Binding patterns, of declarations and parameters. *)

ParseTarget(p) ==
  CASE Kind(p) \in {"{", "["} -> Parsed("pattern", p)
    [] Kind(p) = "ident" -> Gives(Advance(p), Ident(Word(p)))
    [] OTHER -> Fail(p)

(* ...name, the last element. *)
ParseRest(p, elements) ==
  LET name == Advance(p)
  IN IF Kind(name) # "ident" THEN Fail(name)
     ELSE Gives(Advance(name), Append(elements, Node("rest", "", <<Ident(Word(name))>>)))

ParsePatternProps(p, props) ==
  LET q == IF props = <<>> THEN p ELSE Expect(p, ",")
      target == IF Kind(Advance(q)) = ":" THEN ParseTarget(Advance(Advance(q)))
                ELSE Gives(Advance(q), Ident(Tok(q).text))
      prop == ParseDefault(target, Node("prop", Tok(q).text, <<target.node>>))
  IN CASE Ends(p, "}") -> Gives(p, props)
       [] ~ Ends(p, "}") /\ Failed(q) -> q
       [] ~ Ends(p, "}") /\ props # <<>> /\ Kind(q) = "}" -> Gives(q, props)
       [] ~ Ends(p, "}") /\ Kind(q) = "..." -> ParseRest(q, props)
       [] ~ Ends(p, "}") /\ Kind(q) \in {"ident", "str"} ->
            ParsePatternProps(prop, Append(props, prop.node))
       [] OTHER -> Fail(q)

(* No comma is needed between elements. *)
ParsePatternElems(p, elems) ==
  LET target == ParseTarget(p)
      elem == ParseDefault(target, Node("elem", "", <<target.node>>))
  IN CASE Ends(p, "]") -> Gives(p, elems)
       [] Kind(p) = "," -> ParsePatternElems(Advance(p), Append(elems, Leaf("skip", "")))
       [] Kind(p) = "..." -> ParseRest(p, elems)
       [] OTHER -> ParsePatternElems(IF Kind(elem) = "," THEN Advance(elem) ELSE elem,
                                     Append(elems, elem.node))

ParsePattern(p) ==
  LET props == ParsePatternProps(Advance(p), <<>>)
      elems == ParsePatternElems(Advance(p), <<>>)
  IN CASE Kind(p) = "{" -> Gives(Expect(props, "}"), Node("objectPattern", "", props.node))
       [] Kind(p) = "[" -> Gives(Expect(elems, "]"), Node("arrayPattern", "", elems.node))
       [] OTHER -> Fail(p)

-----------------------------------------------------------------------------
(* Statements. *)

Reserved == {"let", "var", "const", "for", "if", "else", "return", "function", "throw", "try",
             "catch", "finally", "while", "do", "switch", "case", "default", "break", "continue",
             "new", "instanceof", "in", "of", "typeof", "void", "delete", "true", "false", "null",
             "undefined", "this", "class", "extends", "static", "super", "async", "await", "yield",
             "import", "export"}

ParseOneDecl(p) ==
  LET pattern == Parsed("pattern", p)
      init == Parsed("assignment", Expect(pattern, "="))
  IN CASE Kind(p) \in {"{", "["} -> Gives(init, Node("declare", "", <<pattern.node, init.node>>))
       [] Kind(p) = "ident" -> ParseDefault(Advance(p), Leaf("let", Word(p)))
       [] OTHER -> Fail(p)

(* Behind let, var or const; one declaration is itself, several are a list. *)
ParseLetDecl(p, decls) ==
  LET decl == ParseOneDecl(p)
      all == Append(decls, decl.node)
  IN IF Kind(decl) = "," THEN ParseLetDecl(Advance(decl), all)
     ELSE Gives(decl, IF decls = <<>> THEN decl.node ELSE Node("multi", "", all))

ParseLetDeclNoSemi(p) == ParseLetDecl(Advance(p), <<>>)

(* break and continue. *)
ParseJump(p) ==
  LET q == Advance(p)
      label == IF Word(q) \in Reserved THEN "" ELSE Word(q)
  IN Gives(ConsumeSemi(IF label = "" THEN q ELSE Advance(q)), Leaf(Word(p), label))

ParseStatement(p) ==
  LET w == Word(p)
      decl == Parsed("declaration", p)
      async == ParseFunctionDecl(Advance(p))
      labeled == Parsed("statement", Advance(Advance(p)))
      e == ParseExpression(p)
  IN CASE w \in {"let", "var", "const"} -> ConsumeSemi(decl)
       [] w = "for" -> ParseForStmt(p)
       [] w = "if" -> ParseIfStmt(p)
       [] w = "return" -> ParseReturnStmt(p)
       [] w = "function" -> ParseFunctionDecl(p)
       [] w = "class" -> ParseClassDecl(p)
       [] w = "async" /\ Word(Advance(p)) = "function" ->
            Gives(async, Node("async", "", <<async.node>>))
       [] w = "throw" -> ParseThrowStmt(p)
       [] w = "try" -> ParseTryStmt(p)
       [] w = "while" -> ParseWhileStmt(p)
       [] w = "do" -> ParseDoWhileStmt(p)
       [] w = "switch" -> ParseSwitchStmt(p)
       [] w \in {"break", "continue"} -> ParseJump(p)
       [] Kind(p) = "ident" /\ KindAfter(p) = ":" /\ w \notin Reserved ->
            Gives(labeled, Node("labeled", w, <<labeled.node>>))
       [] Kind(p) = "{" -> Parsed("block", p)
       [] OTHER -> Gives(ConsumeSemi(e), Node("expr", "", <<e.node>>))

(* Up to the token that ends the list, which is left to the caller. *)
ParseStatements(p, stmts) ==
  LET s == Parsed("statement", p)
  IN IF Ends(p, "}") THEN Gives(p, stmts) ELSE ParseStatements(s, Append(stmts, s.node))

ParseBlock(p) ==
  LET body == ParseStatements(Expect(p, "{"), <<>>)
  IN Gives(Expect(body, "}"), Node("block", "", body.node))

(* (test) behind if, while and switch. *)
ParseTest(p) == LET test == ParseExpression(Expect(p, "(")) IN Expect(test, ")")

ParseIfStmt(p) ==
  LET test == ParseTest(Advance(p))
      cons == Parsed("statement", test)
      alt == Parsed("statement", Advance(cons))
  IN IF Word(cons) = "else" THEN Gives(alt, Node("if", "", <<test.node, cons.node, alt.node>>))
     ELSE Gives(cons, Node("if", "", <<test.node, cons.node>>))

ParseWhileStmt(p) ==
  LET test == ParseTest(Advance(p))
      body == Parsed("statement", test)
  IN Gives(body, Node("while", "", <<test.node, body.node>>))

ParseDoWhileStmt(p) ==
  LET body == Parsed("statement", Advance(p))
      test == ParseTest(Advance(body))
  IN IF Word(body) # "while" THEN Fail(body)
     ELSE Gives(ConsumeSemi(test), Node("doWhile", "", <<body.node, test.node>>))

ParseReturnStmt(p) ==
  LET q == Advance(p)
      arg == ParseExpression(q)
  IN IF Kind(q) \in {";", "}", "eof"} THEN Gives(ConsumeSemi(q), Leaf("return", ""))
     ELSE Gives(ConsumeSemi(arg), Node("return", "", <<arg.node>>))

ParseThrowStmt(p) ==
  LET arg == ParseExpression(Advance(p))
  IN Gives(ConsumeSemi(arg), Node("throw", "", <<arg.node>>))

(* (name) behind catch, which may be left out. *)
ParseCatch(p) ==
  LET name == Advance(Advance(p))
      body == IF Kind(Advance(p)) # "(" THEN Parsed("block", Advance(p))
              ELSE IF Kind(name) # "ident" THEN Fail(name)
                   ELSE Parsed("block", Expect(Advance(name), ")"))
  IN Gives(body, Node("catch", IF Kind(Advance(p)) = "(" THEN Word(name) ELSE "", <<body.node>>))

ParseTryStmt(p) ==
  LET body == Parsed("block", Advance(p))
      caught == IF Word(body) = "catch" THEN ParseCatch(body) ELSE Gives(body, None)
      final == IF Word(caught) = "finally" THEN Parsed("block", Advance(caught))
               ELSE Gives(caught, None)
  IN IF ~ Failed(final) /\ caught.node = None /\ final.node = None THEN Fail(final)
     ELSE Gives(final, Node("try", "", <<body.node, caught.node, final.node>>))

ParseCaseBody(p, stmts) ==
  LET s == Parsed("statement", p)
  IN IF Ends(p, "}") \/ Word(p) \in {"case", "default"} THEN Gives(p, stmts)
     ELSE ParseCaseBody(s, Append(stmts, s.node))

ParseCases(p, cases) ==
  LET test == ParseExpression(Advance(p))
      body == ParseCaseBody(Expect(IF Word(p) = "case" THEN test ELSE Advance(p), ":"), <<>>)
      head == IF Word(p) = "case" THEN <<test.node>> ELSE <<>>
  IN CASE Ends(p, "}") -> Gives(p, cases)
       [] ~ Ends(p, "}") /\ Word(p) \in {"case", "default"} ->
            ParseCases(body, IF Failed(body) THEN cases
                             ELSE Append(cases, Node(Word(p), "", head \o body.node)))
       [] OTHER -> Fail(p)

ParseSwitchStmt(p) ==
  LET disc == ParseTest(Advance(p))
      cases == ParseCases(Expect(disc, "{"), <<>>)
  IN Gives(Expect(cases, "}"), Node("switch", "", <<disc.node>> \o cases.node))

-----------------------------------------------------------------------------
(* for.  A declaration has no pattern where of or in follows. *)

(* of source) body, or in source) body, behind a head of these parts. *)
ParseForEach(p, name, head) ==
  LET source == ParseExpression(Advance(p))
      body == Parsed("statement", Expect(source, ")"))
      kind == IF Word(p) = "of" THEN "forOf" ELSE "forIn"
  IN Gives(body, Node(kind, name, head \o <<source.node, body.node>>))

AssignTargetFromForInit(n) ==
  CASE n.kind = "ident" -> n
    [] n.kind \in {"object", "array"} -> CoerceExprToPattern(n)
    [] OTHER -> Invalid

(* ; test ; update) body *)
ParseForRest(p, init) ==
  LET q == Expect(p, ";")
      test == IF Kind(q) = ";" THEN Gives(q, None) ELSE ParseExpression(q)
      r == Expect(test, ";")
      update == IF Kind(r) = ")" THEN Gives(r, None) ELSE ParseExpression(r)
      body == Parsed("statement", Expect(update, ")"))
  IN Gives(body, Node("for", "", <<init, test.node, update.node, body.node>>))

ParseForHead(p) ==
  LET decl == Parsed("declaration", p)
      e == ParseExpression([p EXCEPT !.noIn = TRUE])
      f == [e EXCEPT !.noIn = p.noIn]
      lhs == AssignTargetFromForInit(f.node)
      Each(q) == Word(q) \in {"of", "in"}
  IN CASE Kind(p) = ";" -> ParseForRest(p, None)
       [] Word(p) \in {"let", "var"} ->
            CASE Each(decl) /\ (decl.node.kind # "let" \/ decl.node.parts # <<>>) -> Fail(decl)
              [] Each(decl) /\ decl.node.kind = "let" /\ decl.node.parts = <<>> ->
                   ParseForEach(decl, decl.node.name, <<>>)
              [] OTHER -> ParseForRest(decl, decl.node)
       [] OTHER ->
            CASE Each(f) /\ lhs = Invalid -> Fail(f)
              [] Each(f) /\ lhs # Invalid -> ParseForEach(f, "", <<lhs>>)
              [] OTHER -> ParseForRest(f, Node("expr", "", <<f.node>>))

ParseForStmt(p) == ParseForHead(Expect(Advance(p), "("))

-----------------------------------------------------------------------------
(* Declarations of functions and classes. *)

ParseFunctionDecl(p) ==
  LET q == IF IsStar(p) THEN Advance(Advance(p)) ELSE Advance(p)
      f == Parsed("tail", Advance(q))
  IN IF Kind(q) # "ident" THEN Fail(q)
     ELSE Gives(f, Node(IF IsStar(p) THEN "generatorDecl" ELSE "functionDecl", Word(q), f.node))

(* A member, without static: a method or an accessor, under a name or a computed
   key. *)
ParseMember(p) ==
  LET kind == IF IsAccessor(p) THEN Word(p) ELSE "method"
      q == IF IsAccessor(p) THEN Advance(p) ELSE p
      key == Parsed("assignment", Advance(q))
      named == Parsed("tail", Advance(q))
      computed == Parsed("tail", Expect(key, "]"))
      Method(f) == Node("function", "", f.node)
  IN CASE Kind(q) \in {"ident", "str", "num"} ->
            Gives(named, Node(kind, KeyOf(q), <<Method(named)>>))
       [] Kind(q) = "[" /\ kind = "method" ->
            Gives(computed, Node(kind, "", <<key.node, Method(computed)>>))
       [] OTHER -> Fail(q)

ParseClassMember(p) ==
  LET static == Word(p) = "static" /\ KindAfter(p) # "("
      m == ParseMember(IF static THEN Advance(p) ELSE p)
      constructor == m.node.kind = "method" /\ m.node.name = "constructor"
  IN CASE Failed(m) -> m
       [] ~ Failed(m) /\ static -> Gives(m, Node("static", "", <<m.node>>))
       [] ~ Failed(m) /\ ~ static /\ constructor -> Gives(m, Node("constructor", "", m.node.parts))
       [] OTHER -> m

ParseMembers(p, members) ==
  LET m == Parsed("member", p)
  IN CASE Ends(p, "}") -> Gives(p, members)
       [] Kind(p) = ";" -> ParseMembers(Advance(p), members)
       [] OTHER -> ParseMembers(m, Append(members, m.node))

ParseClassDecl(p) ==
  LET name == Advance(p)
      q == Advance(name)
      parent == IF Word(q) = "extends" THEN Parsed("unary", Advance(q)) ELSE Gives(q, None)
      members == ParseMembers(Expect(parent, "{"), <<>>)
  IN IF Kind(name) # "ident" THEN Fail(name)
     ELSE Gives(Expect(members, "}"),
                  Node("class", Word(name), <<parent.node>> \o members.node))

(* A production within another: recursion passes through here. *)
Parsed(rule, p) ==
  CASE rule = "assignment" -> ParseAssignment(p)
    [] rule = "unary" -> ParseUnary(p)
    [] rule = "pattern" -> ParsePattern(p)
    [] rule = "statement" -> ParseStatement(p)
    [] rule = "block" -> ParseBlock(p)
    [] rule = "primary" -> ParsePrimary(p)
    [] rule = "item" -> ParseItem(p)
    [] rule = "prop" -> ParseProp(p)
    [] rule = "tail" -> ParseFunctionTail(p)
    [] rule = "param" -> ParseParam(p)
    [] rule = "declaration" -> ParseLetDeclNoSemi(p)
    [] rule = "member" -> ParseClassMember(p)

(* The statements of a source, or why there are none. *)
RECURSIVE ParseAll(_, _)
ParseAll(p, stmts) ==
  LET s == Parsed("statement", p)
  IN IF Kind(p) \in {"eof", "failed"} THEN Gives(p, stmts)
     ELSE ParseAll(s, Append(stmts, s.node))

Parse(toks) == ParseAll(Parsing(toks), <<>>)
=============================================================================
