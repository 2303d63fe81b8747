--------------------------- MODULE InterpreterProofs ---------------------------
(***************************************************************************)
(* The interpreter: the operand stack of one goroutine (StackMachine), for *)
(* every set of programs, any depth of calls and any number of choices;    *)
(* and the goroutines of generators (Generator), for every number of       *)
(* generators and every script.                                            *)
(***************************************************************************)
EXTENDS StackMachine, Generator, SequenceTheorems, WellFoundedInduction, TLAPS

Checked == \A f \in Fns : Verified(prog.chunk[f])

FrameType == [fn : Fns, ip : Nat, base : Nat]

(* The stacks of the frames lie above one another. *)
Nested ==
  /\ \A k \in DOMAIN callStack : callStack[k].base <= cur.base
  /\ \A j, k \in DOMAIN callStack : j <= k => callStack[j].base <= callStack[k].base

Ordered == StackTypeOK /\ Balanced /\ Nested

(* The inductive invariant.  Nested is what unwinding needs: cutting the stack
   back for an outer frame leaves the frames below it as they were. *)
StackInv == Checked => Ordered

-----------------------------------------------------------------------------
(* Least and greatest elements, for FindHandler and unwindTo. *)

(* A set of handlers that is not empty has a first one. *)
LEMMA LowestExists ==
  ASSUME NEW S \in SUBSET Nat, S # {}
  PROVE  Lowest(S) \in S /\ \A j \in S : Lowest(S) <= j
<1>1. PICK x \in S : \A y \in S : ~ (<<y, x>> \in OpToRel(<, Nat))
  BY NatLessThanWellFounded, WFMin
<1>2. \A y \in S : x <= y
  <2> TAKE y \in S
  <2>1. <<y, x>> \in Nat \X Nat /\ <<y, x>>[1] = y /\ <<y, x>>[2] = x
    OBVIOUS
  <2>2. y < x => <<y, x>> \in OpToRel(<, Nat)
    BY <2>1, Zenon DEF OpToRel
  <2>3. ~ (y < x)
    BY <1>1, <2>2, Zenon
  <2>. QED BY <2>3
<1>. QED BY <1>2 DEF Lowest

(* A set of frames that is not empty has an innermost one. *)
LEMMA HighestExists ==
  ASSUME NEW n \in Nat, NEW S \in SUBSET (1..n), S # {}
  PROVE  Highest(S) \in S /\ \A j \in S : j <= Highest(S)
<1> DEFINE T == {n - k : k \in S}
<1>1. T \in SUBSET Nat /\ T # {}
  <2>1. \A k \in S : n - k \in Nat
    OBVIOUS
  <2>. QED BY <2>1
<1>2. PICK x \in T : \A y \in T : x <= y
  BY <1>1, LowestExists
<1>3. PICK k \in S : x = n - k
  BY <1>2
<1>4. \A j \in S : j <= k
  <2> TAKE j \in S
  <2>1. n - k <= n - j
    BY <1>2, <1>3
  <2>. QED BY <2>1
<1>. QED BY <1>4 DEF Highest

-----------------------------------------------------------------------------
(* Code and handlers are those of a chunk. *)
LEMMA ChunkTypes ==
  ASSUME StackTypeOK, NEW f \in Fns
  PROVE  Code(f) \in Seq(Instructions) /\ Handlers(f) \in Seq(Regions)
BY DEF StackTypeOK, Code, Handlers, Chunks

(* The operand stack cut back to n has n operands. *)
LEMMA KeptProperties ==
  ASSUME StackTypeOK, NEW n \in Nat, n <= Len(valStack)
  PROVE  Kept(n) \in Seq(Values) /\ Len(Kept(n)) = n
BY SubSeqProperties DEF StackTypeOK, Kept

(* What is known of the instruction that is executed. *)
LEMMA Active ==
  ASSUME Checked, Ordered, outcome = "running"
  PROVE  /\ cur \in FrameType /\ Instr \in Instructions
         /\ cur.ip \in DOMAIN Code(cur.fn)
         /\ Sound(Code(cur.fn), cur.ip)
         /\ Len(valStack) = cur.base + Instr.at
         /\ Needs(Instr.op) <= Instr.at /\ Needs(Instr.op) \in {0, 1}
<1>1. cur \in FrameType /\ Code(cur.fn) \in Seq(Instructions)
  BY ChunkTypes DEF Ordered, StackTypeOK, FrameType
<1>2. cur.ip \in DOMAIN Code(cur.fn) /\ Len(valStack) = cur.base + Instr.at
  BY DEF Ordered, Balanced
<1>3. Sound(Code(cur.fn), cur.ip)
  BY <1>1, <1>2 DEF Checked, Verified, FrameType, Code
<1>4. Instr \in Instructions
  BY <1>1, <1>2 DEF Instr
<1>. QED BY <1>1, <1>2, <1>3, <1>4 DEF Sound, Instr, Needs, Instructions

(* An instruction that stays in its frame. *)
LEMMA GoesKeeps ==
  ASSUME Checked, Ordered, outcome = "running", NEW i, NEW s \in Seq(Values),
         Leads(Code(cur.fn), cur.ip, i),
         Len(s) = Len(valStack) + Effect(Instr.op), Goes(i, s)
  PROVE  Ordered'
<1>0. /\ cur \in FrameType /\ Instr \in Instructions
      /\ Len(valStack) = cur.base + Instr.at
      /\ Code(cur.fn) \in Seq(Instructions)
  BY Active, ChunkTypes DEF Ordered, StackTypeOK, FrameType
<1>1. /\ cur' \in FrameType /\ cur'.fn = cur.fn /\ cur'.base = cur.base /\ cur'.ip = i
      /\ valStack' = s /\ UNCHANGED <<prog, callStack, outcome>>
  <2>1. i \in Nat
    BY <1>0 DEF Leads
  <2>2. cur' = [cur EXCEPT !.ip = i] /\ valStack' = s
        /\ UNCHANGED <<prog, callStack, outcome>>
    BY DEF Goes
  <2>. QED BY <1>0, <2>1, <2>2 DEF FrameType
<1>2. \A f : Code(f)' = Code(f)
  BY <1>1 DEF Code
<1>3. StackTypeOK'
  BY <1>1 DEF Ordered, StackTypeOK, FrameType
<1>4. Balanced'
  <2>1. i \in DOMAIN Code(cur.fn) /\ Code(cur.fn)[i].at = Instr.at + Effect(Instr.op)
    BY DEF Leads, Instr
  <2>2. Len(s) = cur.base + Code(cur.fn)[i].at
    <3>1. Effect(Instr.op) \in Int /\ Instr.at \in Int /\ cur.base \in Nat
      BY <1>0 DEF Effect, FrameType, Instructions
    <3>. QED BY <1>0, <2>1, <3>1
  <2>3. \A k : Ceiling(k)' = Ceiling(k)
    BY <1>1 DEF Ceiling
  <2>. QED BY <1>1, <2>1, <2>2, <2>3 DEF Ordered, Balanced, Instr, Code
<1>5. Nested'
  BY <1>1 DEF Ordered, Nested
<1>. QED BY <1>3, <1>4, <1>5 DEF Ordered

(* The frame that executes is Frames[n + 1], in the middle of its instruction;
   Roof(k) is how much of the operand stack belongs to it and those below. *)
Roof(k) == IF k = Len(callStack) + 1 THEN Len(valStack) ELSE Ceiling(k)

(* The suspended frames and the running one, as unwindTo sees them: each is as
   deep as the instruction it is in the middle of expects. *)
LEMMA FramesProperties ==
  ASSUME Checked, Ordered, outcome = "running"
  PROVE  /\ Frames \in Seq(FrameType) /\ Len(Frames) = Len(callStack) + 1
         /\ \A k \in DOMAIN callStack : Frames[k] = callStack[k]
         /\ \A k \in 1..Len(Frames) :
              Frames[k].base = IF k = Len(callStack) + 1 THEN cur.base ELSE callStack[k].base
         /\ \A k \in 1..Len(Frames) :
              LET code == Code(Frames[k].fn)
                  i    == Frames[k].ip - 1
              IN i \in DOMAIN code /\ Roof(k) = Frames[k].base + code[i].at
         /\ \A k \in 1..Len(Frames) : Roof(k) <= Len(valStack)
         /\ \A j, k \in 1..Len(Frames) : j < k => Ceiling(j) <= Frames[k].base
<1> DEFINE n == Len(callStack)
<1>0. /\ cur \in FrameType /\ callStack \in Seq(FrameType) /\ n \in Nat
      /\ DOMAIN callStack = 1..n /\ valStack \in Seq(Values)
  BY DEF Ordered, StackTypeOK, FrameType
<1>1. [cur EXCEPT !.ip = @ + 1] \in FrameType
  <2>1. cur.ip + 1 \in Nat
    BY <1>0 DEF FrameType
  <2>2. \A i \in Nat : [cur EXCEPT !.ip = i] \in FrameType
    BY <1>0 DEF FrameType
  <2>. QED BY <2>1, <2>2
<1>2. /\ Frames \in Seq(FrameType) /\ Len(Frames) = n + 1
      /\ \A k \in 1..n : Frames[k] = callStack[k]
      /\ Frames[n + 1] = [cur EXCEPT !.ip = @ + 1]
  BY <1>0, <1>1, AppendProperties DEF Frames
<1>2a. /\ Frames[n + 1].base = cur.base /\ Frames[n + 1].fn = cur.fn
       /\ Frames[n + 1].ip - 1 = cur.ip
  BY <1>0, <1>2 DEF FrameType
<1>2b. \A k \in 1..(n + 1) :
         Frames[k].base = IF k = n + 1 THEN cur.base ELSE callStack[k].base
  <2> TAKE k \in 1..(n + 1)
  <2>1. k = n + 1 => Frames[k].base = cur.base
    BY <1>2a
  <2>2. k # n + 1 => Frames[k].base = callStack[k].base
    <3>1. k # n + 1 => k \in 1..n
      BY <1>0
    <3>. QED BY <1>2, <3>1
  <2>. QED BY <2>1, <2>2
<1>2c. \A k \in 1..n : callStack[k].base \in Nat
  <2>1. \A k \in 1..n : callStack[k] \in FrameType
    BY <1>0
  <2>. QED BY <2>1 DEF FrameType
<1>3. Len(valStack) = cur.base + Instr.at /\ Instr.at \in Nat /\ cur.base \in Nat
  <2>1. Instr.at \in Int /\ Needs(Instr.op) <= Instr.at /\ Needs(Instr.op) \in {0, 1}
    BY Active DEF Instructions
  <2>. QED BY <2>1, <1>0, Active DEF FrameType
<1>4. \A k \in 1..(n + 1) :
        LET code == Code(Frames[k].fn)
            i    == Frames[k].ip - 1
        IN i \in DOMAIN code /\ Roof(k) = Frames[k].base + code[i].at
  <2> TAKE k \in 1..(n + 1)
  <2>1. CASE k = n + 1
    <3>1. Frames[k].fn = cur.fn /\ Frames[k].base = cur.base /\ Frames[k].ip - 1 = cur.ip
      BY <2>1, <1>2a
    <3>. QED BY <2>1, <3>1, Active DEF Roof, Instr
  <2>2. CASE k \in 1..n
    BY <2>2, <1>0, <1>2 DEF Roof, Ordered, Balanced
  <2>. QED BY <1>0, <2>1, <2>2
<1>5. \A j, k \in 1..(n + 1) : j < k => Ceiling(j) <= Frames[k].base
  <2> TAKE j, k \in 1..(n + 1)
  <2> HAVE j < k
  <2>1. j \in 1..n /\ Ceiling(j) = Frames[j + 1].base /\ j + 1 \in 1..(n + 1)
    BY <1>0, <1>2b, SMTT(30) DEF Ceiling
  <2>2. /\ \A i \in 1..n : callStack[i].base <= cur.base
        /\ \A i, l \in 1..n : i <= l => callStack[i].base <= callStack[l].base
    BY <1>0 DEF Ordered, Nested
  <2>3. CASE j + 1 = k
    <3>1. Frames[k] \in FrameType
      BY <1>2
    <3>2. Frames[k].base \in Nat
      BY <3>1 DEF FrameType
    <3>. QED BY <2>1, <2>3, <3>2
  <2>4. CASE j + 1 # k
    <3>1. j + 1 \in 1..n /\ j + 1 <= k /\ (k # n + 1 => k \in 1..n)
      BY <2>4, <1>0
    <3>2. Frames[j + 1].base = callStack[j + 1].base
      BY <1>2, <3>1
    <3>. QED BY <2>1, <2>2, <3>1, <3>2, <1>2b
  <2>. QED BY <2>3, <2>4
<1>6. \A k \in 1..(n + 1) : Roof(k) <= Len(valStack)
  <2> TAKE k \in 1..(n + 1)
  <2>1. Len(valStack) \in Nat /\ cur.base <= Len(valStack)
    BY <1>0, <1>3
  <2>2. k \in 1..n => Ceiling(k) <= cur.base
    <3>2. n + 1 \in 1..(n + 1) /\ (k \in 1..n => k < n + 1)
      BY <1>0
    <3>. QED BY <1>5, <1>2a, <3>2
  <2>3. k \in 1..n => Ceiling(k) \in Nat
    BY <1>0, <1>2c, <1>3 DEF Ceiling
  <2>4. k = n + 1 \/ k \in 1..n
    BY <1>0
  <2>. QED BY <1>3, <2>1, <2>2, <2>3, <2>4 DEF Roof
<1>. QED BY <1>0, <1>2, <1>2b, <1>4, <1>5, <1>6

(* An exception: the frame that catches it finds its own stack as it was at
   the entry of the try, with the exception on top. *)
LEMMA UnwindKeeps ==
  ASSUME Checked, Ordered, outcome = "running", UnwindTo
  PROVE  Ordered'
<1> DEFINE n == Len(callStack)
<1>0. /\ cur \in FrameType /\ callStack \in Seq(FrameType) /\ n \in Nat
      /\ DOMAIN callStack = 1..n /\ valStack \in Seq(Values)
  BY DEF Ordered, StackTypeOK, FrameType
<1>1. CASE /\ Catching = {} /\ outcome' = "thrown"
           /\ UNCHANGED <<prog, cur, callStack, valStack>>
  <2>1. StackTypeOK'
    BY <1>1 DEF Ordered, StackTypeOK
  <2>2. Balanced'
    BY <1>1 DEF Ordered, Balanced, Ceiling, Code
  <2>3. Nested'
    BY <1>1 DEF Ordered, Nested
  <2>. QED BY <2>1, <2>2, <2>3 DEF Ordered
<1>2. CASE Catching # {}
  <2> DEFINE k == Highest(Catching)
             fr == Frames[k]
             h == FindHandler(fr)
             depth == fr.base + h.depth
  <2>1. k \in 1..(n + 1) /\ Covering(fr) # {} /\ fr \in FrameType
    <3>1. DOMAIN Frames = 1..(n + 1) /\ Frames \in Seq(FrameType)
      BY <1>0, FramesProperties
    <3>2. Catching \in SUBSET (1..(n + 1))
      BY <3>1 DEF Catching
    <3>3. k \in Catching
      <4>1. n + 1 \in Nat
        BY <1>0
      <4>. QED BY <4>1, <1>2, <3>2, HighestExists
    <3>4. k \in 1..(n + 1) /\ fr \in FrameType
      <4>1. k \in DOMAIN Frames
        BY <3>3, Zenon DEF Catching
      <4> HIDE DEF k
      <4>. QED BY <3>1, <4>1
    <3>5. Covering(fr) # {}
      BY <3>3, Zenon DEF Catching
    <3>. QED BY <3>4, <3>5
  <2>2. PICK i \in DOMAIN Handlers(fr.fn) :
          /\ h = Handlers(fr.fn)[i] /\ h.start <= fr.ip - 1 /\ fr.ip - 1 < h.end
    <3>0. Handlers(fr.fn) \in Seq(Regions)
      BY <2>1, ChunkTypes DEF Ordered, FrameType
    <3>1. Covering(fr) \in SUBSET Nat
      BY <3>0 DEF Covering
    <3>2. Lowest(Covering(fr)) \in Covering(fr)
      BY <2>1, <3>1, LowestExists
    <3>. QED BY <3>2 DEF Covering, FindHandler
  <2>3. h \in Regions /\ HandlerSound(Code(fr.fn), h)
    <3>1. Handlers(fr.fn) \in Seq(Regions)
      BY <2>1, ChunkTypes DEF Ordered, FrameType
    <3>2. \A j \in DOMAIN Handlers(fr.fn) : HandlerSound(Code(fr.fn), Handlers(fr.fn)[j])
      BY <2>1 DEF Checked, Verified, FrameType, Code, Handlers
    <3>. QED BY <2>2, <3>1, <3>2
  <2>4. depth \in Nat /\ depth <= Len(valStack)
    <3> DEFINE at == Code(fr.fn)[fr.ip - 1].at
    <3>1. fr.ip - 1 \in DOMAIN Code(fr.fn) /\ Roof(k) = fr.base + at
      BY <2>1, <1>0, FramesProperties
    <3>2. at \in Int
      <4>1. Code(fr.fn) \in Seq(Instructions)
        BY <2>1, ChunkTypes DEF Ordered, FrameType
      <4>2. Code(fr.fn)[fr.ip - 1] \in Instructions
        BY <3>1, <4>1
      <4>. QED BY <4>2 DEF Instructions
    <3>3. h.depth <= at /\ h.depth >= 0 /\ h.depth \in Int /\ fr.base \in Nat
      BY <2>1, <2>2, <2>3, <3>1 DEF HandlerSound, Regions, FrameType
    <3>4. Roof(k) <= Len(valStack)
      BY <2>1, <1>0, FramesProperties
    <3>. QED BY <1>0, <3>1, <3>2, <3>3, <3>4
  <2>5. /\ cur' = [fr EXCEPT !.ip = h.pc] /\ callStack' = SubSeq(Frames, 1, k - 1)
        /\ valStack' = Append(Kept(depth), "val") /\ UNCHANGED <<prog, outcome>>
    BY <1>2 DEF UnwindTo
  <2>6. /\ cur' \in FrameType /\ cur'.fn = fr.fn /\ cur'.base = fr.base /\ cur'.ip = h.pc
    BY <2>1, <2>3, <2>5 DEF FrameType, Regions
  <2>7. valStack' \in Seq(Values) /\ Len(valStack') = depth + 1
    BY <2>4, <2>5, KeptProperties, AppendProperties DEF Ordered, Values
  <2>8. /\ callStack' \in Seq(FrameType) /\ Len(callStack') = k - 1
        /\ \A j \in 1..(k - 1) : callStack'[j] = callStack[j]
    <3>1. Frames \in Seq(FrameType) /\ Len(Frames) = n + 1
      BY FramesProperties
    <3>2. /\ SubSeq(Frames, 1, k - 1) \in Seq(FrameType)
          /\ Len(SubSeq(Frames, 1, k - 1)) = k - 1
          /\ \A j \in 1..(k - 1) : SubSeq(Frames, 1, k - 1)[j] = Frames[j]
      BY <1>0, <2>1, <3>1, SubSeqProperties
    <3>3. \A j \in 1..(k - 1) : Frames[j] = callStack[j]
      BY <1>0, <2>1, FramesProperties
    <3>. QED BY <2>5, <3>2, <3>3
  <2>9. StackTypeOK'
    BY <2>5, <2>6, <2>7, <2>8 DEF Ordered, StackTypeOK, FrameType
  <2>10. Balanced'
    <3>1. \A f : Code(f)' = Code(f)
      BY <2>5 DEF Code
    <3>2. /\ cur'.ip \in DOMAIN Code(cur'.fn)
          /\ Len(valStack') = cur'.base + Code(cur'.fn)[cur'.ip].at
      <4>1. h.pc \in DOMAIN Code(fr.fn) /\ Code(fr.fn)[h.pc].at = h.depth + 1
        BY <2>3 DEF HandlerSound
      <4>2. fr.base \in Nat /\ h.depth \in Int
        BY <2>1, <2>3 DEF FrameType, Regions
      <4>3. Len(valStack') = fr.base + (h.depth + 1)
        BY <2>7, <4>2
      <4>. QED BY <2>6, <4>1, <4>3
    <3>3. \A j \in 1..(k - 1) : Ceiling(j)' = Ceiling(j)
      <4> TAKE j \in 1..(k - 1)
      <4>1. fr.base = IF k = n + 1 THEN cur.base ELSE callStack[k].base
        BY <1>0, <2>1, FramesProperties
      <4>2. Ceiling(j)' = IF j < k - 1 THEN callStack[j + 1].base ELSE fr.base
        BY <1>0, <2>1, <2>6, <2>8 DEF Ceiling
      <4>. QED BY <1>0, <2>1, <4>1, <4>2 DEF Ceiling
    <3>4. \A j \in DOMAIN callStack' : j \in 1..(k - 1) /\ j \in DOMAIN callStack
      BY <1>0, <2>1, <2>8
    <3>. QED BY <3>1, <3>2, <3>3, <3>4, <2>8 DEF Ordered, Balanced, Instr
  <2>11. Nested'
    <3>1. \A j \in DOMAIN callStack' :
            /\ j \in DOMAIN callStack /\ j \in 1..(n + 1) /\ j < k /\ callStack'[j] = callStack[j]
      BY <1>0, <2>1, <2>8
    <3>2. \A j \in DOMAIN callStack : j < k => callStack[j].base <= fr.base
      <4>1. fr.base = IF k = n + 1 THEN cur.base ELSE callStack[k].base
        BY <1>0, <2>1, FramesProperties
      <4>. QED BY <1>0, <2>1, <4>1 DEF Ordered, Nested
    <3>. QED BY <2>6, <3>1, <3>2 DEF Ordered, Nested
  <2>. QED BY <2>9, <2>10, <2>11 DEF Ordered
<1>. QED BY <1>1, <1>2 DEF UnwindTo

(* A call gives the new frame the top of the stack for its base. *)
LEMMA CallKeeps ==
  ASSUME Checked, Ordered, Call
  PROVE  Ordered'
<1> DEFINE n == Len(callStack)
<1>0. /\ outcome = "running" /\ Instr.op = "call"
      /\ callStack' = Frames /\ cur' = Frame(Instr.arg, 1, Len(valStack))
      /\ UNCHANGED <<prog, valStack, outcome>>
  BY DEF Call, At, CalleeBase
<1>1. /\ cur \in FrameType /\ callStack \in Seq(FrameType) /\ n \in Nat
      /\ DOMAIN callStack = 1..n /\ valStack \in Seq(Values) /\ Len(valStack) \in Nat
  BY DEF Ordered, StackTypeOK, FrameType
<1>2. Instr.arg \in Fns /\ Verified(prog.chunk[Instr.arg])
  BY <1>0, Active DEF Sound, Instr, Checked
<1>3. cur' \in FrameType /\ cur'.fn = Instr.arg /\ cur'.ip = 1 /\ cur'.base = Len(valStack)
  BY <1>0, <1>1, <1>2 DEF Frame, FrameType
<1>4. Frames \in Seq(FrameType) /\ Len(Frames) = n + 1 /\ DOMAIN Frames = 1..(n + 1)
  BY <1>0, FramesProperties
<1>5. \A f : Code(f)' = Code(f)
  BY <1>0 DEF Code
<1>6. StackTypeOK'
  BY <1>0, <1>1, <1>3, <1>4 DEF Ordered, StackTypeOK, FrameType
<1>7. \A k \in 1..(n + 1) : Ceiling(k)' = Roof(k)
  <2> TAKE k \in 1..(n + 1)
  <2>1. Ceiling(k)' = IF k < n + 1 THEN Frames[k + 1].base ELSE Len(valStack)
    BY <1>0, <1>3, <1>4 DEF Ceiling
  <2>2. CASE k = n + 1
    BY <2>1, <2>2, <1>1 DEF Roof
  <2>3. CASE k # n + 1
    <3>1. k < n + 1 /\ k + 1 \in 1..(n + 1)
      BY <2>3, <1>1
    <3>2. Frames[k + 1].base = IF k + 1 = n + 1 THEN cur.base ELSE callStack[k + 1].base
      BY <1>0, <1>4, <3>1, FramesProperties
    <3>. QED BY <2>1, <2>3, <3>1, <3>2, <1>1 DEF Roof, Ceiling
  <2>. QED BY <2>2, <2>3
<1>8. Balanced'
  <2>1. \A k \in 1..(n + 1) :
          LET code == Code(Frames[k].fn)
              i    == Frames[k].ip - 1
          IN /\ i \in DOMAIN code /\ code[i].op = "call"
             /\ Roof(k) = Frames[k].base + code[i].at
    <3> TAKE k \in 1..(n + 1)
    <3>1. CASE k \in 1..n
      <4>1. Frames[k] = callStack[k]
        BY <3>1, <1>0, <1>1, FramesProperties
      <4>2. Code(callStack[k].fn)[callStack[k].ip - 1].op = "call"
        BY <3>1, <1>1 DEF Ordered, Balanced
      <4>. QED BY <1>0, <1>4, <4>1, <4>2, FramesProperties
    <3>2. CASE k = n + 1
      <4>1. Frames[k] = [cur EXCEPT !.ip = @ + 1]
        BY <3>2, <1>1, AppendProperties DEF Frames, FrameType
      <4>2. Frames[k].fn = cur.fn /\ Frames[k].ip - 1 = cur.ip
        BY <4>1, <1>1 DEF FrameType
      <4>3. Code(Frames[k].fn)[Frames[k].ip - 1].op = "call"
        BY <4>2, <1>0 DEF Instr
      <4>. QED BY <1>0, <1>4, <4>3, FramesProperties
    <3>. QED BY <1>1, <3>1, <3>2
  <2>2. 1 \in DOMAIN Code(cur'.fn) /\ Code(cur'.fn)[1].at = 0
    BY <1>2, <1>3 DEF Verified, Code
  <2>3. Len(valStack') = cur'.base + Code(cur'.fn)[cur'.ip].at
    BY <1>0, <1>1, <1>3, <2>2
  <2>. QED BY <1>0, <1>3, <1>4, <1>5, <1>7, <2>1, <2>2, <2>3 DEF Balanced, Instr
<1>9. Nested'
  <2>1. \A k \in 1..(n + 1) : Frames[k].base \in Nat /\ Frames[k].base <= cur.base
    <3> TAKE k \in 1..(n + 1)
    <3>1. Frames[k] \in FrameType
      BY <1>4
    <3>2. Frames[k].base = IF k = n + 1 THEN cur.base ELSE callStack[k].base
      BY <1>0, <1>4, FramesProperties
    <3>3. k \in 1..n => callStack[k].base <= cur.base
      BY <1>1 DEF Ordered, Nested
    <3>. QED BY SMTT(30), <1>1, <3>1, <3>2, <3>3 DEF FrameType
  <2>2. cur.base \in Nat /\ cur.base <= Len(valStack)
    <3>1. Len(valStack) = cur.base + Instr.at /\ Instr.at >= 0 /\ Instr.at \in Int
      BY <1>0, Active DEF Instructions
    <3>. QED BY <1>1, <3>1 DEF FrameType
  <2>3. \A j, k \in 1..(n + 1) : j <= k => Frames[j].base <= Frames[k].base
    <3> TAKE j, k \in 1..(n + 1)
    <3> HAVE j <= k
    <3>1. /\ Frames[j].base = IF j = n + 1 THEN cur.base ELSE callStack[j].base
          /\ Frames[k].base = IF k = n + 1 THEN cur.base ELSE callStack[k].base
      BY <1>0, <1>4, FramesProperties
    <3>2. CASE k = n + 1
      BY <2>1, <3>1, <3>2
    <3>3. CASE k # n + 1
      <4>1. j \in 1..n /\ k \in 1..n
        BY <3>3, <1>1
      <4>. QED BY <3>1, <3>3, <4>1, <1>1 DEF Ordered, Nested
    <3>. QED BY <3>2, <3>3
  <2>4. \A k \in 1..(n + 1) : Frames[k].base <= Len(valStack)
    BY <2>1, <2>2, <1>1
  <2>. QED BY <1>0, <1>3, <1>4, <2>3, <2>4 DEF Nested
<1>. QED BY <1>6, <1>8, <1>9 DEF Ordered

(* A return leaves one value on what the caller had, whatever the frame left
   behind. *)
LEMMA ReturnKeeps ==
  ASSUME Checked, Ordered, Return
  PROVE  Ordered'
<1> DEFINE n == Len(callStack)
           v == IF Len(valStack) > cur.base THEN Top ELSE "undef"
<1>0. /\ outcome = "running" /\ UNCHANGED prog
      /\ valStack' = Append(Kept(cur.base), v)
  BY DEF Return, At
<1>1. /\ cur \in FrameType /\ callStack \in Seq(FrameType) /\ n \in Nat
      /\ DOMAIN callStack = 1..n /\ valStack \in Seq(Values) /\ Len(valStack) \in Nat
  BY DEF Ordered, StackTypeOK, FrameType
<1>2. cur.base \in Nat /\ cur.base <= Len(valStack)
  <2>1. Len(valStack) = cur.base + Instr.at /\ Instr.at >= 0 /\ Instr.at \in Int
    BY <1>0, Active DEF Instructions
  <2>. QED BY <1>1, <2>1 DEF FrameType
<1>3. v \in Values
  BY <1>1, <1>2 DEF Top, Values
<1>4. valStack' \in Seq(Values) /\ Len(valStack') = cur.base + 1
  <2>1. Kept(cur.base) \in Seq(Values) /\ Len(Kept(cur.base)) = cur.base
    BY <1>2, KeptProperties DEF Ordered
  <2>. QED BY <1>0, <1>3, <2>1, AppendProperties
<1>5. \A f : Code(f)' = Code(f)
  BY <1>0 DEF Code
<1>6. CASE callStack = <<>> /\ outcome' = "returned" /\ UNCHANGED <<cur, callStack>>
  <2>1. StackTypeOK'
    BY <1>0, <1>4, <1>6 DEF Ordered, StackTypeOK
  <2>2. Balanced'
    BY <1>5, <1>6 DEF Balanced
  <2>3. Nested'
    BY <1>6 DEF Ordered, Nested
  <2>. QED BY <2>1, <2>2, <2>3 DEF Ordered
<1>7. CASE /\ callStack # <<>> /\ cur' = callStack[n]
           /\ callStack' = SubSeq(callStack, 1, n - 1) /\ UNCHANGED outcome
  <2>1. n >= 1 /\ n \in 1..n
    BY <1>1, <1>7
  <2>2. cur' \in FrameType
    BY <1>1, <1>7, <2>1
  <2>3. /\ callStack' \in Seq(FrameType) /\ Len(callStack') = n - 1
        /\ \A k \in 1..(n - 1) : callStack'[k] = callStack[k]
    BY <1>1, <1>7, <2>1, SubSeqProperties
  <2>3a. \A k \in DOMAIN callStack' : k \in 1..(n - 1) /\ k \in DOMAIN callStack
    BY <1>1, <2>1, <2>3
  <2>4. StackTypeOK'
    BY <1>0, <1>4, <1>7, <2>2, <2>3 DEF Ordered, StackTypeOK, FrameType
  <2>5. /\ cur'.ip \in DOMAIN Code(cur'.fn)
        /\ Len(valStack') = cur'.base + Code(cur'.fn)[cur'.ip].at
    <3> DEFINE code == Code(cur'.fn)
               i == cur'.ip - 1
    <3>1. i \in DOMAIN code /\ code[i].op = "call" /\ Ceiling(n) = cur'.base + code[i].at
      BY <1>1, <1>7, <2>1 DEF Ordered, Balanced
    <3>2. Ceiling(n) = cur.base
      BY <1>1 DEF Ceiling
    <3>3. Sound(code, i)
      BY <2>2, <3>1 DEF Checked, Verified, FrameType, Code
    <3>4. Leads(code, i, i + 1)
      BY <3>1, <3>3 DEF Sound, Ending
    <3>5. i + 1 = cur'.ip
      BY <2>2 DEF FrameType
    <3>6. code[cur'.ip].at = code[i].at + 1
      BY <3>1, <3>4, <3>5 DEF Leads, Effect, Pushing
    <3>7. code[i].at \in Int /\ cur'.base \in Nat
      <4>1. code \in Seq(Instructions)
        BY <2>2, ChunkTypes DEF Ordered, FrameType
      <4>2. code[i] \in Instructions
        BY <3>1, <4>1
      <4>. QED BY <2>2, <4>2 DEF Instructions, FrameType
    <3>. QED BY <1>4, <3>1, <3>2, <3>4, <3>5, <3>6, <3>7 DEF Leads
  <2>6. Balanced'
    <3>1. \A k \in 1..(n - 1) : Ceiling(k)' = Ceiling(k)
      <4> TAKE k \in 1..(n - 1)
      <4>1. Ceiling(k) = callStack[k + 1].base
        BY <1>1 DEF Ceiling
      <4>2. Ceiling(k)' = IF k < n - 1 THEN callStack[k + 1].base ELSE callStack[n].base
        BY <1>1, <1>7, <2>3 DEF Ceiling
      <4>. QED BY <1>1, <4>1, <4>2
    <3>. QED BY <1>5, <2>3, <2>3a, <2>5, <3>1 DEF Ordered, Balanced, Instr
  <2>7. Nested'
    BY SMTT(30), <1>1, <1>7, <2>1, <2>3, <2>3a DEF Ordered, Nested
  <2>. QED BY <2>4, <2>6, <2>7 DEF Ordered
<1>. QED BY <1>6, <1>7 DEF Return

-----------------------------------------------------------------------------
(* The machine starts with one frame and no operands. *)
LEMMA InitOrdered == StackInit /\ Checked => Ordered
<1> SUFFICES ASSUME StackInit, Checked PROVE Ordered
  OBVIOUS
<1>1. MainFn \in Fns /\ Verified(prog.chunk[MainFn])
  BY ChunksTyped DEF Checked
<1>2. cur.fn = MainFn /\ cur.ip = 1 /\ cur.base = 0 /\ cur \in [fn : Fns, ip : Nat, base : Nat]
  BY <1>1 DEF StackInit, Frame
<1>3. StackTypeOK
  BY <1>2, ChunksTyped DEF StackInit, StackTypeOK
<1>4. Balanced
  BY <1>1, <1>2 DEF StackInit, Balanced, Instr, Code, Verified
<1>5. Nested
  BY DEF StackInit, Nested
<1>. QED BY <1>3, <1>4, <1>5 DEF Ordered

(* What Append and Below do to the depth. *)
LEMMA Pushed ==
  ASSUME Ordered, NEW v \in Values
  PROVE  Append(valStack, v) \in Seq(Values) /\ Len(Append(valStack, v)) = Len(valStack) + 1
BY AppendProperties DEF Ordered, StackTypeOK

(* What popping leaves. *)
LEMMA Popped ==
  ASSUME Ordered, Len(valStack) >= 1
  PROVE  /\ Below \in Seq(Values) /\ Len(Below) = Len(valStack) - 1
         /\ Top \in Values
<1>1. valStack \in Seq(Values) /\ StackTypeOK
  BY DEF Ordered, StackTypeOK
<1>2. Len(valStack) - 1 \in Nat /\ Len(valStack) - 1 <= Len(valStack)
  BY <1>1
<1>3. Below \in Seq(Values) /\ Len(Below) = Len(valStack) - 1
  BY <1>1, <1>2, KeptProperties DEF Below
<1>4. Top \in Values
  BY <1>1 DEF Top
<1>. QED BY <1>3, <1>4

(* Every step in verified code keeps types, depths and the order of frames. *)
LEMMA StepOrdered == Checked /\ Ordered /\ StackNext => Ordered'
<1> SUFFICES ASSUME Checked, Ordered, StackNext PROVE Ordered'
  OBVIOUS
<1> DEFINE next == cur.ip + 1
<1>1. ASSUME outcome = "running", Instr.op \in Pushing, NEW v \in Values,
             Proceeds(Append(valStack, v))
      PROVE  Ordered'
  <2>1. Leads(Code(cur.fn), cur.ip, next)
    BY <1>1, Active DEF Sound, Instr, Pushing, Ending
  <2>2. Effect(Instr.op) = 1
    BY <1>1 DEF Effect
  <2>3. Len(Append(valStack, v)) = Len(valStack) + Effect(Instr.op)
    BY <1>1, <2>2, Pushed
  <2>. QED BY <1>1, <2>1, <2>3, Pushed, GoesKeeps DEF Proceeds
<1>2. ASSUME outcome = "running", Instr.op \in Popping \cup {"next", "done", "value"}
      PROVE  Len(valStack) >= 1
  <2>1. Needs(Instr.op) = 1
    BY <1>2 DEF Needs
  <2>. QED BY <1>2, <2>1, Active DEF FrameType, Instructions
<1>3. CASE Evaluate
  BY <1>1, <1>3 DEF Evaluate, At, Pushing, Values
<1>4. CASE Push
  BY <1>1, <1>4 DEF Push, At, Pushing, Values
<1>5. CASE Pop
  <2>1. outcome = "running" /\ Instr.op = "pop" /\ Proceeds(Below)
    BY <1>5 DEF Pop, At
  <2>2. Leads(Code(cur.fn), cur.ip, next)
    BY <2>1, Active DEF Sound, Instr, Ending
  <2>3. Effect(Instr.op) = -1 /\ Len(valStack) >= 1
    BY <2>1, <1>2 DEF Effect, Pushing, Popping
  <2>. QED BY <2>1, <2>2, <2>3, Popped, GoesKeeps DEF Proceeds
<1>6. CASE Test
  BY <1>1, <1>6 DEF Test, At, Pushing, Values
<1>7. CASE IterNext
  BY <1>1, <1>7 DEF IterNext, At, Pushing, Values
<1>8. CASE Done
  BY <1>1, <1>8 DEF Done, At, Pushing, Values
<1>9. CASE Value
  <2>1. outcome = "running" /\ Instr.op = "value" /\ Proceeds(Append(Below, "val"))
    BY <1>9 DEF Value, At
  <2>2. Leads(Code(cur.fn), cur.ip, next)
    BY <2>1, Active DEF Sound, Instr, Ending
  <2>3. Effect(Instr.op) = 0 /\ Len(valStack) >= 1
    BY <2>1, <1>2 DEF Effect, Pushing, Popping
  <2>4. Below \in Seq(Values) /\ Len(Below) = Len(valStack) - 1
    BY <2>3, Popped
  <2>5. /\ Append(Below, "val") \in Seq(Values)
        /\ Len(Append(Below, "val")) = Len(valStack) + Effect(Instr.op)
    <3>1. Len(Below) + 1 = Len(valStack) + 0
      BY <2>4 DEF Ordered, StackTypeOK
    <3>. QED BY <2>3, <2>4, <3>1, AppendProperties DEF Values
  <2>. QED BY <2>1, <2>2, <2>5, GoesKeeps DEF Proceeds
<1>10. CASE Jump
  <2>1. outcome = "running" /\ Instr.op = "jump" /\ Goes(Instr.to, valStack)
    BY <1>10 DEF Jump, At
  <2>2. Leads(Code(cur.fn), cur.ip, Instr.to)
    BY <2>1, Active DEF Sound, Instr, Jumping
  <2>3. Effect(Instr.op) = 0 /\ valStack \in Seq(Values)
    BY <2>1 DEF Effect, Pushing, Popping, Ordered, StackTypeOK
  <2>. QED BY <2>1, <2>2, <2>3, GoesKeeps
<1>11. CASE JumpIf
  <2>1. PICK i \in {Instr.to, next} :
          /\ outcome = "running" /\ Instr.op \in {"jumpIfFalse", "jumpIfTrue"} /\ Goes(i, Below)
    BY <1>11 DEF JumpIf, At
  <2>2. Leads(Code(cur.fn), cur.ip, i)
    BY <2>1, Active DEF Sound, Instr, Jumping, Ending
  <2>3. Effect(Instr.op) = -1 /\ Len(valStack) >= 1
    BY <2>1, <1>2 DEF Effect, Pushing, Popping
  <2>. QED BY <2>1, <2>2, <2>3, Popped, GoesKeeps
<1>12. CASE Stop
  <2>1. outcome' = "out" /\ UNCHANGED <<prog, cur, callStack, valStack>>
    BY <1>12 DEF Stop
  <2>2. StackTypeOK' /\ Nested'
    BY <2>1 DEF Ordered, StackTypeOK, Nested
  <2>3. Balanced'
    BY <2>1 DEF Ordered, Balanced, Ceiling, Code
  <2>. QED BY <2>2, <2>3 DEF Ordered
<1>13. CASE Throw
  BY <1>13, UnwindKeeps DEF Throw, At
<1>14. CASE NextThrows
  BY <1>14, UnwindKeeps DEF NextThrows, At
<1>15. CASE Call
  BY <1>15, CallKeeps
<1>16. CASE CallTooDeep
  BY <1>16, UnwindKeeps DEF CallTooDeep, At
<1>17. CASE Return
  BY <1>17, ReturnKeeps
<1>. QED BY <1>3, <1>4, <1>5, <1>6, <1>7, <1>8, <1>9, <1>10, <1>11, <1>12, <1>13, <1>14,
            <1>15, <1>16, <1>17 DEF StackNext

(* No step changes the program. *)
LEMMA ProgramFixed == [StackNext]_stackVars => (Checked' <=> Checked)
<1>1. [StackNext]_stackVars => prog' = prog
  BY DEF StackNext, stackVars, Evaluate, Push, Pop, Test, IterNext, Done, Value, Jump, JumpIf, Stop,
         Throw, NextThrows, Call, CallTooDeep, Return, Proceeds, Goes, UnwindTo
<1>. QED BY <1>1 DEF Checked

(* StackInv holds in every state. *)
LEMMA StackInduction == StackSpec => []StackInv
<1>1. StackInit => StackInv
  BY InitOrdered DEF StackInv
<1>2. StackInv /\ [StackNext]_stackVars => StackInv'
  <2> SUFFICES ASSUME StackInv, [StackNext]_stackVars, Checked' PROVE Ordered'
    BY DEF StackInv
  <2>1. Checked /\ Ordered
    BY ProgramFixed DEF StackInv
  <2>2. CASE StackNext
    BY <2>1, <2>2, StepOrdered
  <2>3. CASE UNCHANGED stackVars
    BY <2>1, <2>3 DEF stackVars, Ordered, StackTypeOK, Balanced, Nested, Ceiling, Code, Instr
  <2>. QED BY <2>2, <2>3
<1>. QED BY <1>1, <1>2, PTL DEF StackSpec

(* Code whose instructions agree about the depth of the stack keeps to it:
   jumps, exceptions caught in the frame of the try or through any number of
   callers, the limit on calls, returns with values left over. *)
THEOREM StackDiscipline == StackSpec => []DepthsKept
<1>1. StackInv => DepthsKept
  BY DEF StackInv, Ordered, DepthsKept, Checked
<1>. QED BY <1>1, StackInduction, PTL

(* The same code keeps the types: the interpreter never runs off the end of a
   chunk and never leaves a frame with a negative base. *)
THEOREM StackTypes == StackSpec => [](Checked => StackTypeOK)
<1>1. StackInv => (Checked => StackTypeOK)
  BY DEF StackInv, Ordered
<1>. QED BY <1>1, StackInduction, PTL

(* No instruction of it reads below its own frame, into the operands of the
   caller that share the stack. *)
THEOREM NoUnderflow ==
  StackSpec => [](Checked /\ outcome = "running" => Len(valStack) - cur.base >= Needs(Instr.op))
<1>1. StackInv => (Checked /\ outcome = "running" => Len(valStack) - cur.base >= Needs(Instr.op))
  <2> SUFFICES ASSUME Checked, Ordered, outcome = "running"
               PROVE  Len(valStack) - cur.base >= Needs(Instr.op)
    BY DEF StackInv
  <2>1. cur.base \in Nat /\ Instr.at \in Int
    BY Active DEF FrameType, Instructions
  <2>. QED BY <2>1, Active
<1>. QED BY <1>1, StackInduction, PTL

-----------------------------------------------------------------------------
(* Generators. *)

(* The goroutine of a body is spawned by the first next(), once. *)
SpawnedOnce == \A g \in Gens : started[g] <=> pc[g] # "unborn"

TurnInv == TypeOK /\ SpawnedOnce /\ OneTurn

(* Before the first next() only the program interprets. *)
LEMMA TurnInit == Init => TurnInv
<1> SUFFICES ASSUME Init PROVE TurnInv
  OBVIOUS
<1>1. Main \in Goroutines /\ Main \notin Gens
  BY NamesAssumption DEF Goroutines
<1>2. TypeOK
  BY DEF Init, TypeOK, Goroutines, Places
<1>3. SpawnedOnce
  BY <1>1 DEF Init, SpawnedOnce, Goroutines
<1>4. OneTurn
  BY DEF Init, OneTurn, HoldsTurn
<1>. QED BY <1>2, <1>3, <1>4 DEF TurnInv

(* Each step of a goroutine either keeps the turn where it is, hands it over
   to one other goroutine, or gives it up. *)
LEMMA TurnStep == TurnInv /\ [Next]_vars => TurnInv'
<1> SUFFICES ASSUME TurnInv, [Next]_vars PROVE TurnInv'
  OBVIOUS
<1> USE DEF TurnInv
<1>1. ASSUME NEW g \in Gens, NEW t \in Goroutines, AdvanceDone(t, g)
      PROVE  TurnInv'
  <2>1. TypeOK'
    BY <1>1 DEF AdvanceDone, Answered, TypeOK
  <2>. QED BY <1>1, <2>1 DEF AdvanceDone, SpawnedOnce, OneTurn, HoldsTurn
<1>2. ASSUME NEW g \in Gens, NEW t \in Goroutines, AdvanceStart(t, g)
      PROVE  TurnInv'
  <2>0. g \in Goroutines /\ t # g /\ pc[g] = "unborn"
    BY <1>2 DEF AdvanceStart, SpawnedOnce, Goroutines
  <2>1. TypeOK'
    BY <1>2 DEF AdvanceStart, TypeOK, Places
  <2>2. /\ pc'[t] = "receiving" /\ pc'[g] = "js"
        /\ \A u \in Goroutines : u # t /\ u # g => pc'[u] = pc[u]
    BY <1>2, <2>0 DEF AdvanceStart, TypeOK
  <2>3. SpawnedOnce'
    BY <1>2, <2>2, <2>0 DEF AdvanceStart, TypeOK, SpawnedOnce, Goroutines
  <2>4. OneTurn'
    BY <1>2, <2>2 DEF AdvanceStart, OneTurn, HoldsTurn
  <2>. QED BY <2>1, <2>3, <2>4
<1>3. ASSUME NEW g \in Gens, NEW t \in Goroutines, NEW v \in Vals,
             AdvanceSend(t, g, v)
      PROVE  TurnInv'
  <2>1. TypeOK'
    BY <1>3 DEF AdvanceSend, TypeOK, Places
  <2>2. /\ pc[t] = "js" /\ pc'[t] = "sending" /\ UNCHANGED started
        /\ \A u \in Goroutines : u # t => pc'[u] = pc[u]
    BY <1>3 DEF AdvanceSend, TypeOK
  <2>. QED BY <2>1, <2>2 DEF SpawnedOnce, OneTurn, HoldsTurn, Goroutines
<1>4. ASSUME NEW g \in Gens, NEW t \in Goroutines, NEW v \in Vals,
             Terminate(t, g, v)
      PROVE  TurnInv'
  <2>1. TypeOK'
    <3>1. done' \in [Gens -> BOOLEAN] /\ stop' \in [Gens -> BOOLEAN]
      BY <1>4 DEF Terminate, TypeOK
    <3>2. answer' \in [Goroutines -> [value : Vals \cup {Undefined}, done : BOOLEAN]]
      BY <1>4 DEF Terminate, Answered, TypeOK
    <3>. QED BY <1>4, <3>1, <3>2 DEF Terminate, TypeOK
  <2>. QED BY <1>4, <2>1 DEF Terminate, SpawnedOnce, OneTurn, HoldsTurn
<1>5. ASSUME NEW g \in Gens, NEW v \in Vals, OpYield(g, v)
      PROVE  TurnInv'
  <2>1. TypeOK'
    BY <1>5 DEF OpYield, TypeOK, Places
  <2>2. /\ pc[g] = "js" /\ pc'[g] = "yielding" /\ UNCHANGED started
        /\ \A u \in Goroutines : u # g => pc'[u] = pc[u]
    BY <1>5 DEF OpYield, TypeOK, Goroutines
  <2>. QED BY <2>1, <2>2 DEF SpawnedOnce, OneTurn, HoldsTurn, Goroutines
<1>6. ASSUME NEW g \in Gens, NEW v \in Vals \cup {Undefined}, BodyEnds(g, v)
      PROVE  TurnInv'
  <2>1. TypeOK'
    BY <1>6 DEF BodyEnds, TypeOK, Places
  <2>2. /\ pc[g] = "js" /\ pc'[g] = "returning" /\ UNCHANGED started
        /\ \A u \in Goroutines : u # g => pc'[u] = pc[u]
    BY <1>6 DEF BodyEnds, TypeOK, Goroutines
  <2>. QED BY <2>1, <2>2 DEF SpawnedOnce, OneTurn, HoldsTurn, Goroutines
<1>7. ASSUME NEW g \in Gens, NEW t \in Goroutines, SendArrives(t, g)
      PROVE  TurnInv'
  <2>1. TypeOK'
    BY <1>7 DEF SendArrives, TypeOK, Places
  <2>2. /\ pc[t] = "sending" /\ pc[g] = "parked" /\ t # g /\ UNCHANGED started
        /\ pc'[t] = "receiving" /\ pc'[g] = "js"
        /\ \A u \in Goroutines : u # t /\ u # g => pc'[u] = pc[u]
    BY <1>7 DEF SendArrives, TypeOK, Goroutines
  <2>. QED BY <2>1, <2>2 DEF SpawnedOnce, OneTurn, HoldsTurn, Goroutines
<1>8. ASSUME NEW g \in Gens, NEW t \in Goroutines, YieldArrives(t, g)
      PROVE  TurnInv'
  <2>1. TypeOK'
    BY <1>8 DEF YieldArrives, Answered, TypeOK, Places, Goroutines
  <2>2. /\ pc[g] = "yielding" /\ pc[t] = "receiving" /\ t # g /\ UNCHANGED started
        /\ pc'[t] = "js" /\ pc'[g] = "parked"
        /\ \A u \in Goroutines : u # t /\ u # g => pc'[u] = pc[u]
    BY <1>8 DEF YieldArrives, TypeOK, Goroutines
  <2>. QED BY <2>1, <2>2 DEF SpawnedOnce, OneTurn, HoldsTurn, Goroutines
<1>9. ASSUME NEW g \in Gens, NEW t \in Goroutines, ResultArrives(t, g)
      PROVE  TurnInv'
  <2>1. TypeOK'
    BY <1>9 DEF ResultArrives, Answered, TypeOK, Places, Goroutines
  <2>2. /\ pc[g] = "returning" /\ pc[t] = "receiving" /\ t # g /\ UNCHANGED started
        /\ pc'[t] = "js" /\ pc'[g] = "gone"
        /\ \A u \in Goroutines : u # t /\ u # g => pc'[u] = pc[u]
    BY <1>9 DEF ResultArrives, TypeOK, Goroutines
  <2>. QED BY <2>1, <2>2 DEF SpawnedOnce, OneTurn, HoldsTurn, Goroutines
<1>10. ASSUME NEW g \in Gens, StopObserved(g)
       PROVE  TurnInv'
  <2>1. TypeOK'
    BY <1>10 DEF StopObserved, TypeOK, Places
  <2>2. /\ pc[g] \in {"yielding", "parked", "returning"} /\ pc'[g] = "gone"
        /\ \A u \in Goroutines : u # g => pc'[u] = pc[u]
        /\ UNCHANGED started
    BY <1>10 DEF StopObserved, TypeOK, Goroutines
  <2>. QED BY <2>1, <2>2 DEF SpawnedOnce, OneTurn, HoldsTurn, Goroutines
<1>11. CASE UNCHANGED vars
  BY <1>11 DEF vars, TypeOK, SpawnedOnce, OneTurn, HoldsTurn
<1>12. CASE Next
  BY <1>12, <1>1, <1>2, <1>3, <1>4, <1>5, <1>6, <1>7, <1>8, <1>9, <1>10
  DEF Next, Communicate
<1>. QED BY <1>11, <1>12

(* TurnInv is an invariant of every script. *)
LEMMA TurnHolds == Spec => []TurnInv
BY TurnInit, TurnStep, PTL DEF Spec

(* Every field of genState and every channel operation keeps its type. *)
THEOREM GeneratorTypes == Spec => []TypeOK
<1>1. TurnInv => TypeOK
  BY DEF TurnInv
<1>. QED BY <1>1, TurnHolds, PTL

(* The interpreter needs no lock: whatever the script does, re-entrance
   included, at most one goroutine interprets or is about to. *)
THEOREM MutualExclusion == Spec => []OneTurn
<1>1. TurnInv => OneTurn
  BY DEF TurnInv
<1>. QED BY <1>1, TurnHolds, PTL

-----------------------------------------------------------------------------
(* Scripts that never step a generator from its own body. *)

(* What the code relies on when it leaves channel ends unguarded: a finished
   generator has no body executing, only return() closes stop, and next()
   sends to a body that is there to receive. *)
Rests ==
  /\ \A g \in Gens : done[g] => ~ Executing(g)
  /\ \A g \in Gens : stop[g] => done[g]
  /\ \A g \in Gens : started[g] /\ ~ done[g] => Executing(g) \/ pc[g] = "parked"
  /\ \A t \in Goroutines : pc[t] \in {"sending", "receiving"} => callee[t] \in Gens
  /\ \A t \in Goroutines : pc[t] = "sending" => ~ done[callee[t]]

(* PartnersWait is not inductive alone: that a sender finds its partner parked
   needs OneTurn (nobody moves meanwhile) and Rests (nobody stopped it). *)
CalmInv == TurnInv /\ PartnersWait /\ Rests

(* Before the first next() nobody waits. *)
LEMMA CalmInit == Init => CalmInv
<1> SUFFICES ASSUME Init PROVE CalmInv
  OBVIOUS
<1>1. Main \in Goroutines /\ Main \notin Gens /\ Gens \subseteq Goroutines
  BY NamesAssumption DEF Goroutines
<1>2. TurnInv
  BY TurnInit
<1>3. PartnersWait
  BY <1>1 DEF Init, PartnersWait, Executing
<1>4. Rests
  BY <1>1 DEF Init, Rests, Executing
<1>. QED BY <1>2, <1>3, <1>4 DEF CalmInv

(* In a script without re-entrance every step keeps CalmInv. *)
LEMMA CalmStep ==
  ASSUME ~ Reentrant, CalmInv, [Next]_vars
  PROVE  CalmInv'
<1>1. TurnInv'
  BY TurnStep DEF CalmInv
<1> USE DEF CalmInv
<1>0. /\ Gens \subseteq Goroutines
      /\ pc \in [Goroutines -> Places] /\ callee \in [Goroutines -> Gens \cup {NoGen}]
      /\ done \in [Gens -> BOOLEAN] /\ stop \in [Gens -> BOOLEAN]
      /\ started \in [Gens -> BOOLEAN]
      /\ NoGen \notin Gens
  BY NamesAssumption DEF TurnInv, TypeOK, Goroutines
<1>2. ASSUME NEW g \in Gens, NEW t \in Goroutines, AdvanceDone(t, g)
      PROVE  PartnersWait' /\ Rests'
  BY <1>2 DEF AdvanceDone, PartnersWait, Rests, Executing
<1>3. ASSUME NEW g \in Gens, NEW t \in Goroutines, AdvanceStart(t, g)
      PROVE  PartnersWait' /\ Rests'
  <2>1. /\ pc[t] = "js" /\ pc[g] = "unborn" /\ ~ done[g] /\ t # g
        /\ pc'[t] = "receiving" /\ pc'[g] = "js"
        /\ callee'[t] = g
        /\ started'[g]
        /\ \A h \in Gens : h # g => started'[h] = started[h]
        /\ \A u \in Goroutines : u # t /\ u # g => pc'[u] = pc[u]
        /\ \A u \in Goroutines : u # t => callee'[u] = callee[u]
        /\ UNCHANGED <<done, stop>>
    BY <1>3, <1>0 DEF AdvanceStart, TurnInv, SpawnedOnce
  <2>2. \A u \in Goroutines : pc'[u] # "sending"
    BY <2>1 DEF TurnInv, OneTurn, HoldsTurn
  <2>3. \A u \in Goroutines : pc[u] = "receiving" => callee[u] # g
    BY <2>1 DEF PartnersWait, Executing
  <2>4. PartnersWait'
    BY <2>1, <2>2, <2>3, <1>0 DEF PartnersWait, Executing
  <2>5. Rests'
    BY <2>1, <2>2, <1>0 DEF Rests, Executing
  <2>. QED BY <2>4, <2>5
<1>4. ASSUME NEW g \in Gens, NEW t \in Goroutines, NEW v \in Vals,
             AdvanceSend(t, g, v)
      PROVE  PartnersWait' /\ Rests'
  <2>1. /\ pc[t] = "js" /\ ~ done[g] /\ started[g] /\ ~ Executing(g)
        /\ pc'[t] = "sending" /\ callee'[t] = g
        /\ \A u \in Goroutines : u # t => pc'[u] = pc[u] /\ callee'[u] = callee[u]
        /\ UNCHANGED <<started, done, stop>>
    BY <1>4, <1>0 DEF AdvanceSend, MayStep
  <2>2. pc[g] = "parked" /\ t # g
    BY <2>1 DEF Rests
  <2>3. \A u \in Goroutines : pc'[u] = "sending" => u = t
    BY <2>1 DEF TurnInv, OneTurn, HoldsTurn
  <2>4. PartnersWait'
    BY SMTT(30), <2>1, <2>2, <2>3, <1>0 DEF PartnersWait, Executing
  <2>5. Rests'
    BY <2>1, <2>2, <2>3, <1>0 DEF Rests, Executing
  <2>. QED BY <2>4, <2>5
<1>5. ASSUME NEW g \in Gens, NEW t \in Goroutines, NEW v \in Vals,
             Terminate(t, g, v)
      PROVE  PartnersWait' /\ Rests'
  <2>1. /\ pc[t] = "js" /\ ~ Executing(g) /\ UNCHANGED <<started, pc, callee>>
        /\ done'[g]
        /\ \A h \in Gens : h # g => done'[h] = done[h] /\ stop'[h] = stop[h]
    BY <1>5, <1>0 DEF Terminate, MayStep
  <2>2. \A u \in Goroutines : pc[u] # "sending"
    BY <2>1 DEF TurnInv, OneTurn, HoldsTurn
  <2>. QED BY <2>1, <2>2, <1>0 DEF PartnersWait, Rests, Executing
<1>6. ASSUME NEW g \in Gens, pc[g] = "js", pc'[g] \in {"yielding", "returning"},
             \A u \in Goroutines : u # g => pc'[u] = pc[u],
             UNCHANGED <<started, done, stop, callee>>
      PROVE  PartnersWait' /\ Rests'
  BY <1>6, <1>0 DEF PartnersWait, Rests, Executing
<1>7. ASSUME NEW g \in Gens, NEW v \in Vals \cup {Undefined},
             OpYield(g, v) \/ BodyEnds(g, v)
      PROVE  PartnersWait' /\ Rests'
  <2>1. /\ pc[g] = "js" /\ pc'[g] \in {"yielding", "returning"}
        /\ \A u \in Goroutines : u # g => pc'[u] = pc[u]
        /\ UNCHANGED <<started, done, stop, callee>>
    BY <1>7, <1>0 DEF OpYield, BodyEnds
  <2>. QED BY <2>1, <1>6
<1>8. ASSUME NEW g \in Gens, NEW t \in Goroutines, SendArrives(t, g)
      PROVE  PartnersWait' /\ Rests'
  <2>1. /\ pc[t] = "sending" /\ callee[t] = g /\ pc[g] = "parked" /\ t # g
        /\ pc'[t] = "receiving" /\ pc'[g] = "js"
        /\ \A u \in Goroutines : u # t /\ u # g => pc'[u] = pc[u]
        /\ UNCHANGED <<started, done, stop, callee>>
    BY <1>8, <1>0 DEF SendArrives
  <2>2. \A u \in Goroutines : pc'[u] # "sending"
    BY <2>1 DEF TurnInv, OneTurn, HoldsTurn
  <2>3. \A u \in Goroutines : pc[u] = "receiving" => callee[u] # g
    BY <2>1 DEF PartnersWait, Executing
  <2>4. PartnersWait'
    BY <2>1, <2>2, <2>3, <1>0 DEF PartnersWait, Executing
  <2>5. Rests'
    BY <2>1, <2>2, <1>0 DEF Rests, Executing
  <2>. QED BY <2>4, <2>5
<1>9. ASSUME NEW g \in Gens, NEW t \in Goroutines, YieldArrives(t, g)
      PROVE  PartnersWait' /\ Rests'
  <2>1. /\ pc[g] = "yielding" /\ pc[t] = "receiving" /\ callee[t] = g /\ t # g
        /\ pc'[t] = "js" /\ pc'[g] = "parked" /\ callee'[t] = NoGen
        /\ \A u \in Goroutines : u # t /\ u # g => pc'[u] = pc[u]
        /\ \A u \in Goroutines : u # t => callee'[u] = callee[u]
        /\ UNCHANGED <<started, done, stop>>
    BY <1>9, <1>0 DEF YieldArrives
  <2>2. \A u \in Goroutines : pc'[u] # "sending"
    BY <2>1, <1>0 DEF TurnInv, OneTurn, HoldsTurn
  <2>3. PartnersWait'
    BY <2>1, <2>2, <1>0 DEF PartnersWait, Executing
  <2>4. Rests'
    BY <2>1, <2>2, <1>0 DEF Rests, Executing
  <2>. QED BY <2>3, <2>4
<1>10. ASSUME NEW g \in Gens, NEW t \in Goroutines, ResultArrives(t, g)
       PROVE  PartnersWait' /\ Rests'
  <2>1. /\ pc[g] = "returning" /\ pc[t] = "receiving" /\ callee[t] = g /\ t # g
        /\ pc'[t] = "js" /\ pc'[g] = "gone" /\ callee'[t] = NoGen
        /\ done'[g] /\ \A h \in Gens : h # g => done'[h] = done[h]
        /\ \A u \in Goroutines : u # t /\ u # g => pc'[u] = pc[u]
        /\ \A u \in Goroutines : u # t => callee'[u] = callee[u]
        /\ UNCHANGED <<started, stop>>
    BY <1>10, <1>0 DEF ResultArrives
  <2>2. \A u \in Goroutines : pc'[u] # "sending"
    BY <2>1, <1>0 DEF TurnInv, OneTurn, HoldsTurn
  <2>3. PartnersWait'
    BY <2>1, <2>2, <1>0 DEF PartnersWait, Executing
  <2>4. Rests'
    BY <2>1, <2>2, <1>0 DEF Rests, Executing
  <2>. QED BY <2>3, <2>4
<1>11. ASSUME NEW g \in Gens, StopObserved(g)
       PROVE  PartnersWait' /\ Rests'
  <2>1. /\ stop[g] /\ pc[g] \in {"yielding", "parked", "returning"} /\ pc'[g] = "gone"
        /\ \A u \in Goroutines : u # g => pc'[u] = pc[u]
        /\ UNCHANGED <<started, done, stop, callee>>
    BY <1>11, <1>0 DEF StopObserved
  <2>2. done[g] /\ pc[g] = "parked"
    BY <2>1 DEF Rests, Executing
  <2>3. \A t \in Goroutines : pc[t] = "sending" => callee[t] # g
    BY <2>2 DEF Rests
  <2>. QED BY <2>1, <2>2, <2>3, <1>0 DEF PartnersWait, Rests, Executing
<1>12. CASE UNCHANGED vars
  BY <1>12, <1>1 DEF vars, PartnersWait, Rests, Executing
<1>13. CASE Next
  <2>1. Vals \subseteq Vals \cup {Undefined}
    OBVIOUS
  <2>. QED BY <2>1, <1>13, <1>1, <1>2, <1>3, <1>4, <1>5, <1>7, <1>8, <1>9, <1>10, <1>11
           DEF Next, Communicate
<1>. QED BY <1>12, <1>13

(* CalmInv is an invariant of every script without re-entrance. *)
LEMMA CalmHolds == ASSUME ~ Reentrant PROVE Spec => []CalmInv
BY CalmInit, CalmStep, PTL DEF Spec

(* No channel operation of a generator blocks for ever, and every executing
   body has exactly one caller, however deeply generators drive each other. *)
THEOREM Rendezvous == ASSUME ~ Reentrant PROVE Spec => []PartnersWait
<1>1. CalmInv => PartnersWait
  BY DEF CalmInv
<1>. QED BY <1>1, CalmHolds, PTL

(* A generator that was return()ed or has finished answers nothing more. *)
THEOREM Closed == ASSUME ~ Reentrant PROVE Spec => ClosedForGood
<1>1. ASSUME CalmInv, [Next]_vars
      PROVE  [\A g \in Gens : done[g] => /\ done'[g]
                                         /\ got'[g] = got[g]
                                         /\ ~ (pc[g] = "yielding" /\ pc'[g] = "parked")]_vars
  <2> SUFFICES ASSUME Next, NEW g \in Gens, done[g]
               PROVE  /\ done'[g]
                      /\ got'[g] = got[g]
                      /\ ~ (pc[g] = "yielding" /\ pc'[g] = "parked")
    BY <1>1
  <2>1. pc[g] # "yielding"
    BY <1>1 DEF CalmInv, Rests, Executing
  <2>2. done \in [Gens -> BOOLEAN] /\ got \in [Gens -> Vals \cup {Undefined}]
    BY <1>1 DEF CalmInv, TurnInv, TypeOK
  <2>3. ASSUME NEW h \in Gens, NEW t \in Goroutines, SendArrives(t, h)
        PROVE  done'[g] /\ got'[g] = got[g]
    <3>1. h # g
      BY <2>3, <1>1 DEF SendArrives, CalmInv, Rests
    <3>. QED BY <2>2, <2>3, <3>1 DEF SendArrives
  <2>4. done'[g] /\ got'[g] = got[g]
    BY ZenonT(30), <2>2, <2>3 DEF Next, Communicate, AdvanceDone, AdvanceStart, AdvanceSend,
       Terminate, OpYield, BodyEnds, YieldArrives, ResultArrives, StopObserved
  <2>. QED BY <2>1, <2>4
<1>. QED BY <1>1, CalmHolds, PTL DEF Spec, ClosedForGood

-----------------------------------------------------------------------------
(* Generators implement coroutines. *)

(* Somebody executes: the turn is passed on, never dropped. *)
SomeTurn == \E t \in Goroutines : HoldsTurn(t)

FlowInv == CalmInv /\ SomeTurn

(* The main goroutine has the first turn. *)
LEMMA FlowInit == Init => FlowInv
BY CalmInit DEF Init, FlowInv, SomeTurn, HoldsTurn, Goroutines

(* Every step of a script without re-entrance keeps the turn somewhere. *)
LEMMA FlowStep ==
  ASSUME ~ Reentrant, FlowInv, [Next]_vars
  PROVE  FlowInv'
<1> USE DEF FlowInv
<1>0. CalmInv'
  BY CalmStep
<1>1. /\ pc \in [Goroutines -> Places] /\ Gens \subseteq Goroutines
      /\ \A g \in Gens : stop[g] => ~ Executing(g)
  BY DEF CalmInv, TurnInv, TypeOK, Rests, Goroutines
<1>2. PICK w \in Goroutines : HoldsTurn(w)
  BY DEF SomeTurn
<1>3. \A t \in Goroutines : HoldsTurn(t) => t = w
  BY <1>2 DEF CalmInv, TurnInv, OneTurn
<1>4. ASSUME NEW g \in Gens, NEW t \in Goroutines, AdvanceStart(t, g)
      PROVE  HoldsTurn(g)'
  BY <1>1, <1>4 DEF AdvanceStart, HoldsTurn
<1>5. ASSUME NEW g \in Gens, NEW t \in Goroutines, NEW v \in Vals, AdvanceSend(t, g, v)
      PROVE  HoldsTurn(t)'
  BY <1>1, <1>5 DEF AdvanceSend, HoldsTurn
<1>6. ASSUME NEW g \in Gens, NEW v \in Vals \cup {Undefined},
             OpYield(g, v) \/ BodyEnds(g, v)
      PROVE  HoldsTurn(g)'
  BY <1>1, <1>6 DEF OpYield, BodyEnds, HoldsTurn
<1>7. ASSUME NEW g \in Gens, NEW t \in Goroutines, SendArrives(t, g)
      PROVE  HoldsTurn(g)'
  BY <1>1, <1>7 DEF SendArrives, HoldsTurn
<1>8. ASSUME NEW g \in Gens, NEW t \in Goroutines, YieldArrives(t, g) \/ ResultArrives(t, g)
      PROVE  HoldsTurn(t)'
  BY <1>1, <1>8 DEF YieldArrives, ResultArrives, HoldsTurn
<1>9. ASSUME NEW g \in Gens, StopObserved(g)
      PROVE  HoldsTurn(w)'
  <2>1. w # g
    BY <1>1, <1>2, <1>9 DEF StopObserved, HoldsTurn, Executing
  <2>. QED BY <1>1, <1>2, <1>9, <2>1 DEF StopObserved, HoldsTurn
<1>10. CASE UNCHANGED pc
  BY <1>2, <1>10, <1>0 DEF HoldsTurn, SomeTurn
<1>11. CASE \E g \in Gens : \/ \E t \in Goroutines : AdvanceDone(t, g)
                            \/ \E t \in Goroutines, v \in Vals : Terminate(t, g, v)
  BY <1>10, <1>11 DEF AdvanceDone, Terminate
<1>12. CASE UNCHANGED vars
  BY <1>10, <1>12 DEF vars
<1>13. CASE Next
  <2>1. Vals \subseteq Vals \cup {Undefined}
    OBVIOUS
  <2>. QED BY <1>0, <1>1, <1>2, <1>4, <1>5, <1>6, <1>7, <1>8, <1>9, <1>11, <1>13, <2>1
           DEF Next, Communicate, SomeTurn
<1>. QED BY <1>12, <1>13

(* FlowInv is an invariant of every script without re-entrance. *)
LEMMA FlowHolds == ASSUME ~ Reentrant PROVE Spec => []FlowInv
BY FlowInit, FlowStep, PTL DEF Spec

(* Who runs, in the coroutine view. *)
Runner == CHOOSE t \in Goroutines : HoldsTurn(t)

(* What the refinement mapping makes of a state: the two CHOOSE expressions
   have one candidate at most. *)
Views ==
  /\ \A t \in Goroutines : HoldsTurn(t) => Runner = t
  /\ \A g \in Gens, t \in Goroutines :
       pc[t] = "receiving" /\ callee[t] = g => CallerOf(g) = t
  /\ \A g \in Gens :
       (\A t \in Goroutines : ~ (pc[t] = "receiving" /\ callee[t] = g))
         => CallerOf(g) = NoGen

(* In a state of FlowInv the candidates are unique. *)
LEMMA FlowViews == FlowInv => Views
<1> SUFFICES ASSUME FlowInv PROVE Views
  OBVIOUS
<1>1. ASSUME NEW t \in Goroutines, HoldsTurn(t) PROVE Runner = t
  BY <1>1 DEF FlowInv, CalmInv, TurnInv, OneTurn, Runner
<1>2. ASSUME NEW g \in Gens, NEW t \in Goroutines, pc[t] = "receiving", callee[t] = g
      PROVE  CallerOf(g) = t
  <2>1. \A u \in Goroutines : pc[u] = "receiving" /\ callee[u] = g => u = t
    BY <1>2 DEF FlowInv, CalmInv, PartnersWait
  <2>. QED BY <1>2, <2>1 DEF CallerOf
<1>3. ASSUME NEW g \in Gens,
             \A t \in Goroutines : ~ (pc[t] = "receiving" /\ callee[t] = g)
      PROVE  CallerOf(g) = NoGen
  BY <1>3 DEF CallerOf
<1>. QED BY <1>1, <1>2, <1>3 DEF Views

(* A step that leaves every receiver but those of g alone changes the caller of
   no other generator. *)
LEMMA CallersKept ==
  ASSUME Views, Views', NEW g,
         \A t \in Goroutines, h \in Gens : h # g =>
           ((pc[t] = "receiving" /\ callee[t] = h)
              <=> (pc'[t] = "receiving" /\ callee'[t] = h))
  PROVE  \A h \in Gens : h # g => CallerOf(h)' = CallerOf(h)
<1> SUFFICES ASSUME NEW h \in Gens, h # g PROVE CallerOf(h)' = CallerOf(h)
  OBVIOUS
<1>1. CASE \E t \in Goroutines : pc[t] = "receiving" /\ callee[t] = h
  <2>1. PICK t \in Goroutines : pc[t] = "receiving" /\ callee[t] = h
    BY <1>1
  <2>2. CallerOf(h) = t
    BY <2>1 DEF Views
  <2>3. pc'[t] = "receiving" /\ callee'[t] = h
    BY <2>1
  <2>4. CallerOf(h)' = t
    BY <2>3 DEF Views
  <2>. QED BY <2>2, <2>4
<1>2. CASE \A t \in Goroutines : ~ (pc[t] = "receiving" /\ callee[t] = h)
  <2>1. CallerOf(h) = NoGen
    BY <1>2 DEF Views
  <2>2. \A t \in Goroutines : ~ (pc'[t] = "receiving" /\ callee'[t] = h)
    BY <1>2
  <2>3. CallerOf(h)' = NoGen
    BY <2>2 DEF Views
  <2>. QED BY <2>1, <2>3
<1>. QED BY <1>1, <1>2

(* Whoever may step a generator finds it closed, fresh or suspended. *)
LEMMA LifeFacts ==
  ASSUME FlowInv, NEW g \in Gens
  PROVE  /\ Life(g) = "closed" <=> done[g]
         /\ Executing(g) => Life(g) = "active"
         /\ ~ done[g] /\ ~ started[g] => Life(g) = "fresh"
         /\ ~ done[g] /\ pc[g] = "parked" => Life(g) = "suspended"
         /\ ~ Executing(g) /\ ~ done[g] => Life(g) \in {"fresh", "suspended"}
BY DEF FlowInv, CalmInv, TurnInv, SpawnedOnce, Rests, Executing, Life

(* A step of a script without re-entrance is a step of the coroutines, or none:
   arrivals on the two channels resume a body or hand back its value, what goes
   before them is invisible. *)
LEMMA ProtocolStep ==
  ASSUME ~ Reentrant, FlowInv, FlowInv', [Next]_vars
  PROVE  [Protocol!Next]_(Protocol!absVars)
<1> DEFINE lives == [g \in Gens |-> Life(g)]
           callers == [g \in Gens |-> CallerOf(g)]
<1>0. Views /\ Views'
  BY FlowViews, PTL
<1>1. /\ Gens \subseteq Goroutines /\ Goroutines = Gens \cup {Main}
      /\ pc \in [Goroutines -> Places] /\ callee \in [Goroutines -> Gens \cup {NoGen}]
      /\ done \in [Gens -> BOOLEAN] /\ started \in [Gens -> BOOLEAN]
      /\ offer \in [Goroutines -> Vals \cup {Undefined}]
      /\ NoGen \notin Gens
  BY NamesAssumption DEF FlowInv, CalmInv, TurnInv, TypeOK, Goroutines
<1>2. /\ Runner \in Goroutines /\ HoldsTurn(Runner)
      /\ \A t \in Goroutines : HoldsTurn(t) => Runner = t
  BY <1>0 DEF FlowInv, SomeTurn, Views
<1>3. \A t \in Goroutines : HoldsTurn(t)' => Runner' = t
  BY <1>0 DEF Views
<1>4. ASSUME UNCHANGED <<lives, callers, Runner, got, answer>>
      PROVE  UNCHANGED Protocol!absVars
  BY <1>4 DEF Protocol!absVars, Runner
<1>5. ASSUME NEW g \in Gens, NEW t \in Goroutines, NEW v \in Vals \cup {Undefined},
             Runner = t, Life(g) \in {"fresh", "suspended"},
             lives' = [lives EXCEPT ![g] = "active"],
             callers' = [callers EXCEPT ![g] = t],
             Runner' = g,
             got' = IF Life(g) = "fresh" THEN got ELSE [got EXCEPT ![g] = v],
             UNCHANGED answer
      PROVE  Protocol!Next
  <2>1. Protocol!Resume(t, g, v)
    BY <1>5 DEF Protocol!Resume, Runner
  <2>. QED BY <1>1, <2>1 DEF Protocol!Next, Protocol!Activations
<1>6. ASSUME NEW g \in Gens, NEW t \in Goroutines, NEW v \in Vals \cup {Undefined},
             Runner = t, Life(g) = "closed", Answered(t, v, TRUE),
             UNCHANGED <<lives, callers, Runner, got>>
      PROVE  Protocol!Next
  <2>1. Protocol!AnswerClosed(t, g, v)
    BY <1>6 DEF Protocol!AnswerClosed, Protocol!Answered, Answered, Runner
  <2>. QED BY <1>1, <2>1 DEF Protocol!Next, Protocol!Activations
<1>7. ASSUME NEW g \in Gens, NEW v \in Vals \cup {Undefined}, NEW d \in BOOLEAN,
             Runner = g, Runner' = CallerOf(g), Answered(CallerOf(g), v, d),
             lives' = [lives EXCEPT ![g] = IF d THEN "closed" ELSE "suspended"],
             callers' = [callers EXCEPT ![g] = NoGen],
             UNCHANGED got
      PROVE  Protocol!Next
  <2>1. Protocol!HandBack(g, v, d)
    BY <1>7 DEF Protocol!HandBack, Protocol!Answered, Answered, Runner
  <2>. QED BY <1>1, <2>1 DEF Protocol!Next
<1>8. ASSUME NEW g \in Gens, NEW t \in Goroutines, NEW v \in Vals \cup {Undefined},
             Runner = t, Life(g) \in {"fresh", "suspended"},
             lives' = [lives EXCEPT ![g] = "closed"], Answered(t, v, TRUE),
             UNCHANGED <<callers, Runner, got>>
      PROVE  Protocol!Next
  <2>1. Protocol!Close(t, g, v)
    BY <1>8 DEF Protocol!Close, Protocol!Answered, Answered, Runner
  <2>. QED BY <1>1, <2>1 DEF Protocol!Next, Protocol!Activations
<1>9. CASE UNCHANGED vars
  <2>1. UNCHANGED lives
    BY <1>9 DEF vars, Life
  <2>2. UNCHANGED callers
    BY <1>9 DEF vars, CallerOf
  <2>3. UNCHANGED Runner
    BY <1>9 DEF vars, Runner, HoldsTurn
  <2>. QED BY <1>4, <1>9, <2>1, <2>2, <2>3 DEF vars
<1>10. ASSUME NEW g \in Gens, NEW t \in Goroutines, AdvanceDone(t, g)
       PROVE  Protocol!Next
  <2>1. UNCHANGED lives
    BY <1>10 DEF AdvanceDone, Life
  <2>2. UNCHANGED callers
    BY <1>10 DEF AdvanceDone, CallerOf
  <2>3. UNCHANGED Runner
    BY <1>10 DEF AdvanceDone, Runner, HoldsTurn
  <2>4. Runner = t
    BY <1>2, <1>10 DEF AdvanceDone, HoldsTurn
  <2>5. Life(g) = "closed"
    BY <1>10 DEF AdvanceDone, Life
  <2>. QED BY <1>6, <1>10, <2>1, <2>2, <2>3, <2>4, <2>5 DEF AdvanceDone
<1>11. ASSUME NEW g \in Gens, NEW t \in Goroutines, AdvanceStart(t, g)
       PROVE  Protocol!Next
  <2>1. /\ pc[t] = "js" /\ pc[g] = "unborn" /\ t # g /\ ~ done[g] /\ ~ started[g]
        /\ pc'[t] = "receiving" /\ pc'[g] = "js" /\ callee'[t] = g
        /\ \A u \in Goroutines : u # t /\ u # g => pc'[u] = pc[u]
        /\ \A u \in Goroutines : u # t => callee'[u] = callee[u]
        /\ started'[g] /\ \A h \in Gens : h # g => started'[h] = started[h]
        /\ UNCHANGED <<done, got, answer>>
    BY <1>1, <1>11 DEF AdvanceStart, FlowInv, CalmInv, TurnInv, SpawnedOnce
  <2>2. Life(g)' = "active" /\ Life(g) = "fresh"
    BY <2>1 DEF Life
  <2>3. \A h \in Gens : h # g => Life(h)' = Life(h)
    <3>1. \A h \in Gens : h = t => started[h]
      BY <2>1 DEF FlowInv, CalmInv, TurnInv, SpawnedOnce
    <3>. QED BY <1>1, <2>1, <3>1 DEF Life
  <2>4. CallerOf(g)' = t
    BY <1>0, <2>1 DEF Views
  <2>5. \A h \in Gens : h # g => CallerOf(h)' = CallerOf(h)
    <3>1. \A u \in Goroutines, h \in Gens : h # g =>
            ((pc[u] = "receiving" /\ callee[u] = h)
               <=> (pc'[u] = "receiving" /\ callee'[u] = h))
      BY <1>1, <2>1
    <3>. QED BY CallersKept, <1>0, <3>1, Zenon
  <2>6. Runner = t /\ Runner' = g
    BY <1>1, <1>2, <1>3, <2>1 DEF HoldsTurn
  <2>7. lives' = [lives EXCEPT ![g] = "active"]
    BY <2>2, <2>3
  <2>8. callers' = [callers EXCEPT ![g] = t]
    BY <2>4, <2>5
  <2>. QED BY <1>5, <2>1, <2>2, <2>6, <2>7, <2>8, Zenon
<1>12. ASSUME NEW g \in Gens, NEW t \in Goroutines, NEW v \in Vals, AdvanceSend(t, g, v)
       PROVE  UNCHANGED Protocol!absVars
  <2>1. /\ pc[t] = "js" /\ pc'[t] = "sending"
        /\ \A u \in Goroutines : u # t => pc'[u] = pc[u] /\ callee'[u] = callee[u]
        /\ UNCHANGED <<started, done, got, answer>>
    BY <1>1, <1>12 DEF AdvanceSend
  <2>2. \A h \in Gens : Life(h)' = Life(h)
    BY <1>1, <2>1 DEF Life
  <2>3. \A h \in Gens : CallerOf(h)' = CallerOf(h)
    <3>1. \A u \in Goroutines, h \in Gens : h # NoGen =>
            ((pc[u] = "receiving" /\ callee[u] = h)
               <=> (pc'[u] = "receiving" /\ callee'[u] = h))
      BY <1>1, <2>1
    <3>2. \A h \in Gens : h # NoGen => CallerOf(h)' = CallerOf(h)
      BY CallersKept, <1>0, <3>1, Zenon
    <3>. QED BY <1>1, <3>2
  <2>4. Runner' = Runner
    BY <1>1, <1>2, <1>3, <2>1 DEF HoldsTurn
  <2>. QED BY <1>4, <2>1, <2>2, <2>3, <2>4
<1>13. ASSUME NEW g \in Gens, NEW t \in Goroutines, NEW v \in Vals, Terminate(t, g, v)
       PROVE  Protocol!Next
  <2>1. /\ pc[t] = "js" /\ ~ Executing(g) /\ Answered(t, v, TRUE)
        /\ done'[g] /\ \A h \in Gens : h # g => done'[h] = done[h]
        /\ UNCHANGED <<started, pc, callee, got>>
    BY <1>1, <1>13 DEF Terminate, MayStep
  <2>2. \A h \in Gens : h # g => Life(h)' = Life(h)
    BY <2>1 DEF Life
  <2>3. Life(g)' = "closed"
    BY <2>1 DEF Life
  <2>4. UNCHANGED callers
    BY <2>1 DEF CallerOf
  <2>5. UNCHANGED Runner /\ Runner = t
    BY <1>2, <2>1 DEF Runner, HoldsTurn
  <2>6. Life(g) \in {"closed", "fresh", "suspended"}
    BY LifeFacts, <2>1
  <2>7. CASE Life(g) = "closed"
    <3>1. UNCHANGED lives
      BY <2>2, <2>3, <2>7
    <3>. QED BY <1>6, <2>1, <2>4, <2>5, <2>7, <3>1
  <2>8. CASE Life(g) \in {"fresh", "suspended"}
    <3>1. lives' = [lives EXCEPT ![g] = "closed"]
      BY <2>2, <2>3
    <3>. QED BY <1>8, <2>1, <2>4, <2>5, <2>8, <3>1
  <2>. QED BY <2>6, <2>7, <2>8
<1>14. ASSUME NEW g \in Gens, NEW v \in Vals \cup {Undefined}, OpYield(g, v) \/ BodyEnds(g, v)
       PROVE  UNCHANGED Protocol!absVars
  <2>1. /\ pc[g] = "js" /\ pc'[g] \in {"yielding", "returning"}
        /\ \A u \in Goroutines : u # g => pc'[u] = pc[u]
        /\ UNCHANGED <<started, done, callee, got, answer>>
    BY <1>1, <1>14 DEF OpYield, BodyEnds
  <2>2. \A h \in Gens : Life(h)' = Life(h)
    BY <1>1, <2>1 DEF Life
  <2>3. \A h \in Gens : CallerOf(h)' = CallerOf(h)
    BY CallersKept, <1>0, <1>1, <2>1
  <2>4. Runner' = Runner
    BY <1>1, <1>2, <1>3, <2>1 DEF HoldsTurn
  <2>. QED BY <1>4, <2>1, <2>2, <2>3, <2>4
<1>15. ASSUME NEW g \in Gens, NEW t \in Goroutines, SendArrives(t, g)
       PROVE  Protocol!Next
  <2>1. /\ pc[t] = "sending" /\ callee[t] = g /\ pc[g] = "parked" /\ t # g
        /\ pc'[t] = "receiving" /\ pc'[g] = "js"
        /\ \A u \in Goroutines : u # t /\ u # g => pc'[u] = pc[u]
        /\ got' = [got EXCEPT ![g] = offer[t]]
        /\ UNCHANGED <<started, done, callee, answer>>
    BY <1>1, <1>15 DEF SendArrives
  <2>2. started[g] /\ ~ done[g]
    BY <1>1, <2>1 DEF FlowInv, CalmInv, TurnInv, SpawnedOnce, Rests
  <2>3. Life(g) = "suspended" /\ Life(g)' = "active"
    BY <2>1, <2>2 DEF Life
  <2>4. \A h \in Gens : h # g => Life(h)' = Life(h)
    BY <1>1, <2>1 DEF Life
  <2>5. CallerOf(g)' = t
    BY <1>0, <2>1 DEF Views
  <2>6. \A h \in Gens : h # g => CallerOf(h)' = CallerOf(h)
    BY CallersKept, <1>0, <1>1, <2>1
  <2>7. Runner = t /\ Runner' = g
    BY <1>1, <1>2, <1>3, <2>1 DEF HoldsTurn
  <2>8. lives' = [lives EXCEPT ![g] = "active"] /\ callers' = [callers EXCEPT ![g] = t]
    BY <2>3, <2>4, <2>5, <2>6
  <2>9. offer[t] \in Vals \cup {Undefined} /\ Life(g) # "fresh" /\ answer' = answer
    BY <1>1, <2>1, <2>3
  <2>10. got' = IF Life(g) = "fresh" THEN got ELSE [got EXCEPT ![g] = offer[t]]
    BY <2>1, <2>9
  <2>. QED BY <1>5, <2>3, <2>7, <2>8, <2>9, <2>10
<1>16. ASSUME NEW g \in Gens, NEW t \in Goroutines, NEW d \in BOOLEAN,
              pc[t] = "receiving", callee[t] = g, pc'[t] = "js", callee'[t] = NoGen,
              pc[g] \in {"yielding", "returning"}, t # g,
              d => Life(g)' = "closed", ~ d => Life(g)' = "suspended",
              pc'[g] \in {"parked", "gone"},
              \A u \in Goroutines : u # t /\ u # g => pc'[u] = pc[u],
              \A u \in Goroutines : u # t => callee'[u] = callee[u],
              \A h \in Gens : h # g => done'[h] = done[h],
              Answered(t, offer[g], d),
              UNCHANGED <<started, got>>
       PROVE  Protocol!Next
  <2>1. \A h \in Gens : h # g => Life(h)' = Life(h)
    BY <1>1, <1>16 DEF Life
  <2>2. CallerOf(g) = t
    BY <1>0, <1>16 DEF Views
  <2>3. CallerOf(g)' = NoGen
    <3>1. \A u \in Goroutines : pc[u] = "receiving" /\ callee[u] = g => u = t
      BY <1>16 DEF FlowInv, CalmInv, PartnersWait
    <3>2. \A u \in Goroutines : ~ (pc'[u] = "receiving" /\ callee'[u] = g)
      BY <1>16, <3>1
    <3>. QED BY <1>0, <3>2 DEF Views
  <2>4. \A h \in Gens : h # g => CallerOf(h)' = CallerOf(h)
    BY CallersKept, <1>0, <1>1, <1>16
  <2>5. Runner = g /\ Runner' = t
    BY <1>1, <1>2, <1>3, <1>16 DEF HoldsTurn
  <2>6. lives' = [lives EXCEPT ![g] = IF d THEN "closed" ELSE "suspended"]
    BY <1>16, <2>1
  <2>7. callers' = [callers EXCEPT ![g] = NoGen]
    BY <2>3, <2>4
  <2>8. Runner' = CallerOf(g) /\ Answered(CallerOf(g), offer[g], d)
    BY <1>16, <2>2, <2>5
  <2>9. offer[g] \in Vals \cup {Undefined} /\ got' = got
    BY <1>1, <1>16
  <2>. QED BY Zenon, <1>7, <2>5, <2>6, <2>7, <2>8, <2>9
<1>17. ASSUME NEW g \in Gens, NEW t \in Goroutines, YieldArrives(t, g)
       PROVE  Protocol!Next
  <2>1. t # g /\ started[g] /\ ~ done[g]
    BY <1>1, <1>17 DEF YieldArrives, FlowInv, CalmInv, TurnInv, SpawnedOnce, Rests, Executing
  <2>2. Life(g)' = "suspended"
    BY <1>1, <1>17, <2>1 DEF YieldArrives, Life
  <2>3. /\ pc[t] = "receiving" /\ callee[t] = g /\ pc'[t] = "js" /\ callee'[t] = NoGen
        /\ pc[g] \in {"yielding", "returning"} /\ pc'[g] \in {"parked", "gone"}
        /\ \A u \in Goroutines : u # t /\ u # g => pc'[u] = pc[u]
        /\ \A u \in Goroutines : u # t => callee'[u] = callee[u]
        /\ \A h \in Gens : h # g => done'[h] = done[h]
        /\ UNCHANGED <<started, got>>
    BY <1>1, <1>17, <2>1 DEF YieldArrives
  <2>4. Answered(t, offer[g], FALSE)
    BY <1>17 DEF YieldArrives
  <2>. QED BY Zenon, <1>16, <2>1, <2>2, <2>3, <2>4
<1>18. ASSUME NEW g \in Gens, NEW t \in Goroutines, ResultArrives(t, g)
       PROVE  Protocol!Next
  <2>1. t # g
    BY <1>18 DEF ResultArrives
  <2>2. Life(g)' = "closed"
    BY <1>1, <1>18 DEF ResultArrives, Life
  <2>3. /\ pc[t] = "receiving" /\ callee[t] = g /\ pc'[t] = "js" /\ callee'[t] = NoGen
        /\ pc[g] \in {"yielding", "returning"} /\ pc'[g] \in {"parked", "gone"}
        /\ \A u \in Goroutines : u # t /\ u # g => pc'[u] = pc[u]
        /\ \A u \in Goroutines : u # t => callee'[u] = callee[u]
        /\ \A h \in Gens : h # g => done'[h] = done[h]
        /\ UNCHANGED <<started, got>>
    BY <1>1, <1>18, <2>1 DEF ResultArrives
  <2>4. Answered(t, offer[g], TRUE)
    BY <1>18 DEF ResultArrives
  <2>. QED BY Zenon, <1>16, <2>1, <2>2, <2>3, <2>4
<1>19. ASSUME NEW g \in Gens, StopObserved(g)
       PROVE  UNCHANGED Protocol!absVars
  <2>1. /\ done[g] /\ pc[g] = "parked" /\ pc'[g] = "gone"
        /\ \A u \in Goroutines : u # g => pc'[u] = pc[u]
        /\ UNCHANGED <<started, done, callee, got, answer>>
    BY <1>1, <1>19 DEF StopObserved, FlowInv, CalmInv, Rests, Executing
  <2>2. \A h \in Gens : Life(h)' = Life(h)
    BY <1>1, <2>1 DEF Life
  <2>3. \A h \in Gens : CallerOf(h)' = CallerOf(h)
    <3>1. \A u \in Goroutines, h \in Gens : h # NoGen =>
            ((pc[u] = "receiving" /\ callee[u] = h)
               <=> (pc'[u] = "receiving" /\ callee'[u] = h))
      BY <1>1, <2>1
    <3>2. \A h \in Gens : h # NoGen => CallerOf(h)' = CallerOf(h)
      BY CallersKept, <1>0, <3>1, Zenon
    <3>. QED BY <1>1, <3>2
  <2>4. Runner' = Runner
    BY <1>1, <1>2, <1>3, <2>1 DEF HoldsTurn
  <2>. QED BY <1>4, <2>1, <2>2, <2>3, <2>4
<1>20. CASE Next
  <2>1. Vals \subseteq Vals \cup {Undefined}
    OBVIOUS
  <2>. QED BY <1>10, <1>11, <1>12, <1>13, <1>14, <1>15, <1>17, <1>18, <1>19, <1>20, <2>1
           DEF Next, Communicate
<1>. QED BY <1>9, <1>20

(* The first state of the goroutines is the first state of the coroutines. *)
LEMMA ProtocolInit == Init => Protocol!Init
<1> SUFFICES ASSUME Init PROVE Protocol!Init
  OBVIOUS
<1>1. \A g \in Gens : Life(g) = "fresh" /\ CallerOf(g) = NoGen
  BY DEF Init, Life, CallerOf, Goroutines
<1>2. (CHOOSE t \in Goroutines : HoldsTurn(t)) = Main
  <2>1. Main \in Goroutines /\ HoldsTurn(Main)
    BY DEF Init, HoldsTurn, Goroutines
  <2>2. \A t \in Goroutines : HoldsTurn(t) => t = Main
    BY DEF Init, HoldsTurn
  <2>. QED BY <2>1, <2>2
<1>. QED BY <1>1, <1>2 DEF Init, Protocol!Init, Protocol!Activations, Goroutines

(* Two goroutines, two channels and a close implement coroutines: every
   behaviour of the goroutines is, seen through the mapping, a behaviour of
   IteratorProtocol. *)
THEOREM Coroutines == ASSUME ~ Reentrant PROVE Spec => ImplementsProtocol
BY ProtocolInit, ProtocolStep, FlowHolds, PTL DEF Spec, ImplementsProtocol, Protocol!Spec
================================================================================
