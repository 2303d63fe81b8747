------------------------------- MODULE Bytecode -------------------------------
(***************************************************************************)
(* The instructions of internal/bytecode/bytecode.go that steer control,   *)
(* those between them grouped by what they do to the operand stack.        *)
(*                                                                         *)
(*   expr  evaluates an expression statement;   const  any other           *)
(*         expression;                          test   a condition;        *)
(*   case  OpDup, the test of a case clause, OpStrictEq;                   *)
(*   call  loads a function, OpCall with no arguments;                     *)
(*   iter  evaluates an iterable, OpGetIterator;                           *)
(*   next  OpDup, OpDup, OpGetProp "next", OpCallMethod;                   *)
(*   done  OpDup, OpGetProp "done";             value  OpGetProp "value";  *)
(*   pop   OpPop, or the store of a variable.                              *)
(***************************************************************************)
EXTENDS Integers

Pushing == {"expr", "const", "test", "case", "iter", "next", "done", "call"}
Popping == {"pop", "jumpIfFalse", "jumpIfTrue", "throw"}
Jumping == {"jump", "jumpIfFalse", "jumpIfTrue"}
Ending  == {"jump", "throw", "return"}   \* the next instruction does not follow

Ops == Pushing \cup Popping \cup Ending \cup {"value"}

(* By how much an instruction makes the operand stack deeper. *)
Effect(op) == IF op \in Pushing THEN 1 ELSE IF op \in Popping THEN -1 ELSE 0

(* How many values of its own frame it looks at. *)
Needs(op) == IF op \in Popping \cup {"next", "done", "value"} THEN 1 ELSE 0
=============================================================================
