----------------------------- MODULE StackMachine -----------------------------
(***************************************************************************)
(* The dispatch loop of internal/vm/vm.go (invoke) as far as control goes: *)
(* jumps, calls, returns and exceptions over one operand stack that all    *)
(* frames share.  A value is what control can tell of it; expressions are  *)
(* single instructions.  Chunks are those of internal/bytecode, with an    *)
(* instruction per position instead of bytes, and each instruction says at *)
(* which depth its author thinks the stack of the frame is (at).           *)
(***************************************************************************)
EXTENDS Bytecode, Sequences

CONSTANTS Progs,       \* the programs: p.chunk[f] is the code of function f
          Fns,         \* names of the functions of a program
          MainFn,      \* the one RunChunk starts
          MaxCalls,    \* maxCallDepth: frames that can be suspended
          MaxChoices   \* bound: tests and iterator steps of one execution

(* An instruction has an op, a jump target (to), an argument (the function a
   call calls, the name of an expression statement) and the depth it expects. *)
Instructions == [op : Ops, to : Nat, arg : STRING, at : Int]
Regions == [start : Nat, end : Nat, pc : Nat, depth : Int]   \* Handler

Chunks == [code : Seq(Instructions), handlers : Seq(Regions)]

ASSUME ChunksTyped ==
  /\ MainFn \in Fns /\ MaxCalls \in Nat
  /\ \A p \in Progs : p.chunk \in [Fns -> Chunks]

VARIABLES prog,        \* the program that runs
          cur,         \* the active frame
          callStack,   \* the suspended ones, innermost last
          valStack,    \* the operand stack
          taken,       \* how the tests and iterator steps came out so far
          log,         \* the expression statements executed so far
          outcome      \* running, returned, thrown, or out (of choices)

stackVars == <<prog, cur, callStack, valStack, taken, log, outcome>>

Values == {"val", "undef", "iter", "more", "last", "yes", "no"}

Frame(f, i, b) == [fn |-> f, ip |-> i, base |-> b]

Code(f) == prog.chunk[f].code
Handlers(f) == prog.chunk[f].handlers

Instr == Code(cur.fn)[cur.ip]

Top == valStack[Len(valStack)]

(* The first n values of the operand stack. *)
Kept(n) == SubSeq(valStack, 1, n)

Below == Kept(Len(valStack) - 1)

StackInit ==
  /\ prog \in Progs
  /\ cur = Frame(MainFn, 1, 0)
  /\ callStack = <<>> /\ valStack = <<>>
  /\ taken = <<>> /\ log = <<>>
  /\ outcome = "running"

-----------------------------------------------------------------------------
At(ops) == outcome = "running" /\ Instr.op \in ops

(* The instruction leaves stack s and goes to i. *)
Goes(i, s) == /\ cur' = [cur EXCEPT !.ip = i]
              /\ valStack' = s
              /\ UNCHANGED <<prog, callStack, outcome>>

Proceeds(s) == Goes(cur.ip + 1, s)

Silent == UNCHANGED <<taken, log>>

Evaluate == /\ At({"expr"})
            /\ Proceeds(Append(valStack, "val"))
            /\ log' = Append(log, Instr.arg) /\ UNCHANGED taken

Push == /\ At({"const", "iter"}) /\ Silent
        /\ Proceeds(Append(valStack, IF Instr.op = "iter" THEN "iter" ELSE "undef"))

Pop == At({"pop"}) /\ Silent /\ Proceeds(Below)

(* The truth of a condition is the script's to say, as is what next() does. *)
Decide(b) == /\ Len(taken) < MaxChoices
             /\ taken' = Append(taken, b) /\ UNCHANGED log

Test == /\ At({"test", "case"})
        /\ \E b \in {"yes", "no"} : Decide(b) /\ Proceeds(Append(valStack, b))

IterNext == /\ At({"next"}) /\ Top = "iter"
            /\ \E r \in {"more", "last"} : Decide(r) /\ Proceeds(Append(valStack, r))

Done == /\ At({"done"}) /\ Silent
        /\ Proceeds(Append(valStack, IF Top = "last" THEN "yes" ELSE "no"))

Value == At({"value"}) /\ Silent /\ Proceeds(Append(Below, "val"))

Jump == At({"jump"}) /\ Silent /\ Goes(Instr.to, valStack)

JumpIf == /\ At({"jumpIfFalse", "jumpIfTrue"}) /\ Silent
          /\ Goes(IF (Top = "yes") = (Instr.op = "jumpIfTrue") THEN Instr.to ELSE cur.ip + 1,
                  Below)

(* The bound on choices stops the execution. *)
Stop == /\ At({"test", "case", "next"}) /\ Len(taken) = MaxChoices
        /\ outcome' = "out" /\ UNCHANGED <<prog, cur, callStack, valStack, taken, log>>

-----------------------------------------------------------------------------
(* Exceptions.  ip - 1 of a frame is the instruction it is in the middle of. *)

Frames == Append(callStack, [cur EXCEPT !.ip = @ + 1])

Covering(fr) == {i \in DOMAIN Handlers(fr.fn) :
                   /\ Handlers(fr.fn)[i].start <= fr.ip - 1
                   /\ fr.ip - 1 < Handlers(fr.fn)[i].end}

Lowest(S) == CHOOSE i \in S : \A j \in S : i <= j
Highest(S) == CHOOSE i \in S : \A j \in S : j <= i

(* Slip: the table is searched from its end. *)
FindHandlerLast(fr) == Handlers(fr.fn)[Highest(Covering(fr))]

FindHandler(fr) == Handlers(fr.fn)[Lowest(Covering(fr))]

Catching == {k \in DOMAIN Frames : Covering(Frames[k]) # {}}

UnwindTo ==
  \/ /\ Catching = {} /\ outcome' = "thrown"
     /\ UNCHANGED <<prog, cur, callStack, valStack>>
  \/ /\ Catching # {}
     /\ LET k == Highest(Catching)
            h == FindHandler(Frames[k])
        IN /\ cur' = [Frames[k] EXCEPT !.ip = h.pc]
           /\ callStack' = SubSeq(Frames, 1, k - 1)
           /\ valStack' = Append(Kept(Frames[k].base + h.depth), "val")
     /\ UNCHANGED <<prog, outcome>>

Throw == At({"throw"}) /\ Silent /\ UnwindTo

(* next() of an iterator throws, or what is on top is no iterator. *)
NextThrows == /\ At({"next"}) /\ UnwindTo
              /\ IF Top = "iter" THEN Decide("throws") ELSE Silent

(* Calls. *)

(* Where the operands of the callee start: at the slot of the function. *)
CalleeBase == Len(valStack)

Call == /\ At({"call"}) /\ Silent /\ Len(callStack) < MaxCalls
        /\ callStack' = Frames
        /\ cur' = Frame(Instr.arg, 1, CalleeBase)
        /\ UNCHANGED <<prog, valStack, outcome>>

CallTooDeep == At({"call"}) /\ Silent /\ Len(callStack) >= MaxCalls /\ UnwindTo

(* Slip: what the returning frame left on the operand stack stays there. *)
ReturnLeftovers ==
  /\ At({"return"}) /\ Silent
  /\ valStack' = IF Len(valStack) > cur.base THEN valStack ELSE Append(valStack, "undef")
  /\ \/ /\ callStack = <<>> /\ outcome' = "returned" /\ UNCHANGED <<cur, callStack>>
     \/ /\ callStack # <<>>
        /\ cur' = callStack[Len(callStack)]
        /\ callStack' = SubSeq(callStack, 1, Len(callStack) - 1)
        /\ UNCHANGED outcome
  /\ UNCHANGED prog

Return ==
  /\ At({"return"}) /\ Silent
  /\ valStack' = Append(Kept(cur.base), IF Len(valStack) > cur.base THEN Top ELSE "undef")
  /\ \/ /\ callStack = <<>> /\ outcome' = "returned" /\ UNCHANGED <<cur, callStack>>
     \/ /\ callStack # <<>>
        /\ cur' = callStack[Len(callStack)]
        /\ callStack' = SubSeq(callStack, 1, Len(callStack) - 1)
        /\ UNCHANGED outcome
  /\ UNCHANGED prog

StackNext == \/ Evaluate \/ Push \/ Pop \/ Test \/ IterNext \/ Done \/ Value
             \/ Jump \/ JumpIf \/ Stop
             \/ Throw \/ NextThrows \/ Call \/ CallTooDeep \/ Return

StackSpec == StackInit /\ [][StackNext]_stackVars

-----------------------------------------------------------------------------
(* A chunk whose instructions agree about the depth of the stack. *)

Leads(code, i, j) == /\ j \in DOMAIN code
                     /\ code[j].at = code[i].at + Effect(code[i].op)

Sound(code, i) ==
  /\ code[i].op \in Ops /\ code[i].at >= Needs(code[i].op)
  /\ code[i].op \notin Ending => Leads(code, i, i + 1)
  /\ code[i].op \in Jumping => Leads(code, i, code[i].to)
  /\ code[i].op = "call" => code[i].arg \in Fns

(* Handler.Depth's comment: the depth at the entry of the try, to which the
   stack is cut back before the exception is pushed. *)
HandlerSound(code, h) ==
  /\ h.pc \in DOMAIN code /\ h.depth >= 0
  /\ code[h.pc].at = h.depth + 1
  /\ \A i \in DOMAIN code : h.start <= i /\ i < h.end => h.depth <= code[i].at

Verified(chunk) ==
  /\ 1 \in DOMAIN chunk.code /\ chunk.code[1].at = 0
  /\ \A i \in DOMAIN chunk.code : Sound(chunk.code, i)
  /\ \A k \in DOMAIN chunk.handlers : HandlerSound(chunk.code, chunk.handlers[k])

-----------------------------------------------------------------------------
(* Frames are of chunks of the program, operands are values. *)
StackTypeOK ==
  /\ prog.chunk \in [Fns -> Chunks]
  /\ cur \in [fn : Fns, ip : Nat, base : Nat]
  /\ callStack \in Seq([fn : Fns, ip : Nat, base : Nat])
  /\ valStack \in Seq(Values)
  /\ outcome \in {"running", "returned", "thrown", "out"}

(* Where the operand stack of frame k ends: at the base of the next one. *)
Ceiling(k) == IF k < Len(callStack) THEN callStack[k + 1].base ELSE cur.base

(* The stack of every frame is as deep as the instruction it is at expects,
   after any mix of jumps, exceptions caught in this frame or an outer one,
   calls and returns; a suspended frame is in the middle of its call. *)
Balanced ==
  /\ outcome = "running" => /\ cur.ip \in DOMAIN Code(cur.fn)
                            /\ Len(valStack) = cur.base + Instr.at
  /\ \A k \in DOMAIN callStack :
       LET code == Code(callStack[k].fn)
           i    == callStack[k].ip - 1
       IN /\ i \in DOMAIN code /\ code[i].op = "call"
          /\ Ceiling(k) = callStack[k].base + code[i].at

(* Verified code never under- or overflows the operand stack of its frame. *)
DepthsKept == (\A f \in Fns : Verified(prog.chunk[f])) => Balanced
=============================================================================
