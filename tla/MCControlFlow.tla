----------------------------- MODULE MCControlFlow -----------------------------
(***************************************************************************)
(* Every program of two families: a statement of the shapes below as a     *)
(* script, and as the body of the function a script calls.                 *)
(***************************************************************************)
EXTENDS ControlFlow

CONSTANT Family

Block(ss) == Compound("block", ss)

(* What a statement may do in the end; l labels the outermost loop. *)
Exits == {Expr("a"), Leaf("break", ""), Leaf("continue", ""), Leaf("break", "l"),
          Leaf("continue", "l"), Leaf("throw", "")}

Guarded(S) == S \cup {Compound("if", <<s>>) : s \in S}

Tries(S) ==
  {Compound("try-catch", <<Block(<<s>>), Block(<<Expr("c")>>)>>) : s \in S}
  \cup {Compound("try-finally", <<Block(<<s>>), Block(<<Expr("f")>>)>>) : s \in S}
  \cup {Compound("try-catch-finally",
          <<Block(<<Leaf("throw", "")>>), Block(<<s>>), Block(<<Expr("f")>>)>>) : s \in S}
  \cup {Compound("try-finally", <<Block(<<Expr("b")>>), Block(<<s>>)>>) : s \in S}

Loops(S) == {Compound(k, <<Block(<<s, Expr("e")>>)>>) : k \in LoopKinds, s \in S}

Switches(S) ==
  {Compound("switch", <<s, Expr("d")>>) : s \in S}
  \cup {Compound("switch-default", <<s, Expr("d")>>) : s \in S}

Wrapped(S) == Tries(S) \cup Loops(S) \cup Switches(S)

Labelled(S) == {Stmt("labelled", "l", <<s>>) : s \in Loops(S) \cup Switches(S)}

Scripts ==
  LET S1 == Wrapped(Guarded(Exits))
      S2 == Wrapped(S1) \cup Labelled(S1)
  IN {[main |-> <<s>>, f |-> <<>>] : s \in {t \in S2 : Compiles(<<t>>)}}

(* try { call f } catch { } around functions that leave early. *)
Callers ==
  LET S1 == Wrapped(Guarded({Leaf("return", ""), Leaf("throw", ""), Leaf("call", "f")}))
      Catching_ == Compound("try-catch", <<Block(<<Leaf("call", "f")>>), Block(<<Expr("c")>>)>>)
  IN {[main |-> <<m, Expr("z")>>, f |-> <<s, Expr("r")>>] :
        m \in {Leaf("call", "f"), Catching_, Compound("forof", <<Catching_>>)}, s \in S1}

MCProgs ==
  {Compiled(p) : p \in CASE Family = "scripts" -> Scripts [] Family = "all" -> Scripts \cup Callers}
MCFns == {"main", "f"}
MCMain == "main"
=============================================================================
