------------------------------ MODULE MCClosures ------------------------------
(***************************************************************************)
(* A script with a function f whose body is any three of the statements    *)
(* below, a function h that recycles what f leaves, and calls of what f    *)
(* puts into the global k.                                                 *)
(***************************************************************************)
EXTENDS Closures

CONSTANT Family

Num(i) == [tag |-> "num", n |-> i]

Stmt(kind, x, v, n) == [kind |-> kind, name |-> x, val |-> v, n |-> n]
Let(x, i) == Stmt("let", x, Num(i), 0)
Set(x, i) == Stmt("set", x, Num(i), 0)
LogOf(x) == Stmt("log", x, Undef, 0)
CallOf(x) == Stmt("call", x, Undef, 0)
CallWith(x, i) == Stmt("call", x, Num(i), 1)
Leaf(kind) == Stmt(kind, "", Undef, 0)
Fun(kind, x, params, body) == [kind |-> kind, name |-> x, params |-> params, body |-> body]
Param(x) == [name |-> x, pattern |-> <<>>, rest |-> FALSE]
Rest(x) == [name |-> x, pattern |-> <<>>, rest |-> TRUE]
Pattern(t, xs) == [name |-> t, pattern |-> xs, rest |-> FALSE]
Arrow(x, body) == Fun("fun", x, <<>>, body)
Block(ss) == [kind |-> "block", body |-> ss]
Try(ss, hs) == [kind |-> "try", body |-> ss, handler |-> hs]

Closing ==
  {Arrow("k", <<LogOf("a"), Set("a", 3)>>),
   Arrow("k", <<LogOf("arguments"), LogOf("p")>>),
   Arrow("k", <<Let("b", 5), Arrow("k", <<LogOf("a"), LogOf("b"), Set("b", 6)>>), Set("b", 7)>>),
   Fun("function", "g", <<Param("p"), Pattern("t", <<"q">>)>>,
       <<Arrow("k", <<LogOf("p"), LogOf("q"), LogOf("a"), LogOf("arguments")>>)>>)}

Plain ==
  {Set("a", 2), LogOf("a"), LogOf("p"), LogOf("arguments"), CallOf("k"), CallWith("h", 4),
   Stmt("native", "k", Undef, 0), Stmt("native", "f", Num(6), 1), CallOf("f"),
   Let("p", 1),
   Block(<<Let("b", 4), LogOf("b")>>), Block(<<Let("a", 4), LogOf("a"), Set("a", 5)>>),
   Try(<<CallOf("f")>>, <<LogOf("a")>>), Try(<<Let("b", 8), Leaf("throw")>>, <<LogOf("a")>>),
   Leaf("return"), Leaf("throw")}

(* The last statement may call the function g of the one before. *)
Calls == {CallOf("g"), Stmt("call", "g", [tag |-> "obj", n |-> 9], 2)}

(* A closure over the variable of a block, and another block after it. *)
Blocks == {<<Block(<<Let("b", 4), Arrow("k", <<LogOf("b")>>)>>), s, CallOf("k")>> : s \in Plain}

(* A function inside a function that calls itself. *)
Nested == Fun("function", "g", <<Param("p")>>, <<LogOf("p"), CallOf("g")>>)

Script(params, x, body) ==
  <<Fun("function", "h", <<Param("p"), Rest("r")>>, <<LogOf("p"), LogOf("r")>>),
    Fun("function", "f", params, <<Let("a", 1)>> \o body),
    Try(<<Stmt("call", "f", x, 2)>>, <<>>), CallWith("h", 2), Try(<<CallOf("k")>>, <<>>),
    CallOf("h"), Stmt("native", "k", Undef, 0), CallOf("f"), CallOf("k")>>

(* A parameter after one that is a pattern. *)
AfterPattern == <<Pattern("t", <<"p">>), Param("q")>>

Scripts ==
  CASE Family = "functions" ->
         {Script(<<Param("p")>>, Num(1), <<s, c, t>>) :
            s \in Closing \cup Plain, c \in Closing, t \in Closing \cup Plain \cup Calls}
    [] Family = "blocks" -> {Script(<<Param("p")>>, Num(1), ss) : ss \in Blocks}
    [] Family = "recursion" ->
         {Script(<<Param("p")>>, Num(1), <<Nested, CallWith("g", 5), s>>) : s \in Plain}
    [] Family = "patterns" ->
         {Script(AfterPattern, [tag |-> "obj", n |-> 1], <<s, LogOf("q")>>) : s \in Plain}

MCProgs == {p \in {Program(ss) : ss \in Scripts} : p.protos # <<>>}
MCNames == {"f", "g", "h", "k", "a", "b", "p", "q", "r", "t", "arguments", "undefined"}
=============================================================================
