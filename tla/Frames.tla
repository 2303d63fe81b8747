-------------------------------- MODULE Frames --------------------------------
(***************************************************************************)
(* Variables at run time: the locals vectors of frames and their pool, the *)
(* closures that point into them, calls from script to script (doCall) and *)
(* through native functions (VM.Call, a nested invoke), returns and        *)
(* exceptions.  internal/vm/vm.go and helpers.go; operands are left to     *)
(* StackMachine, an instruction here is a load, a store or a call with the *)
(* operand it works on.                                                    *)
(***************************************************************************)
EXTENDS Integers, Sequences, FiniteSets

CONSTANTS Progs,        \* programs: .protos are the compiled functions, the first is the script
          Names,        \* names of global variables
          MaxSize,      \* the largest frame of a program
          MaxCalls,     \* maxCallDepth: frames that can be suspended in one invoke
          MaxNative,    \* maxNativeReentry: nested invokes
          MaxBucket     \* the vectors of one size the pool keeps (128)

(* A value is undefined, a number, an object whose fields hold a number, a
   closure, or an array the call made: the arguments object and the rest
   parameter, of which only the length counts. *)
Value == [tag : {"undef", "num", "obj", "fn", "args", "rest"}, n : Nat]
Undefined == [tag |-> "undef", n |-> 0]
Fn(c) == [tag |-> "fn", n |-> c]

(* How a name resolves (symRef): a slot of the frame, an upvalue, a global. *)
Ref == [kind : {"local", "up", "global"}, slot : Nat, name : Names]

Instructions == [op : {"store", "field", "log", "closure", "call", "native", "jump", "throw", "return"},
                 ref : Ref, val : Value, n : Nat]

Proto == [code : Seq(Instructions),
          handlers : Seq([start : Nat, end : Nat, pc : Nat]),
          size : 0..MaxSize,                                  \* MaxLocals
          arity : Nat, hasRest : BOOLEAN,
          hasArguments : BOOLEAN, argumentsSlot : Nat,
          descs : Seq([index : Nat, isLocal : BOOLEAN]),      \* UpvalueDescs
          localsEscape : BOOLEAN]

ASSUME FramesAssumption ==
  /\ MaxSize \in Nat /\ MaxCalls \in Nat /\ MaxNative \in Nat /\ MaxBucket \in Nat
  /\ \A p \in Progs : p.protos \in Seq(Proto) /\ p.protos # <<>>

VARIABLES prog,       \* the program that runs
          frames,     \* the frames, innermost last; entry marks the first of an invoke
          heap,       \* the locals vectors ever made
          pool,       \* localsPool: by size, the vectors to use again
          closures,   \* the functions ever made; ups are pointers into vectors
          globals,
          callDepth,  \* VM.callDepth
          log,        \* the values logged
          outcome

vars == <<prog, frames, heap, pool, closures, globals, callDepth, log, outcome>>

Cell == [vec : Nat, slot : Nat]
Frame(p, c, v, entry) == [fn |-> p, self |-> c, vec |-> v, ip |-> 1, entry |-> entry]

cur == frames[Len(frames)]
Code == prog.protos[cur.fn].code
Instr == Code[cur.ip]

Init ==
  /\ prog \in Progs
  /\ frames = <<Frame(1, 1, 1, TRUE)>>
  /\ heap = <<[i \in 1..prog.protos[1].size |-> Undefined]>>
  /\ closures = <<[fn |-> 1, ups |-> <<>>]>>
  /\ pool = [n \in 1..MaxSize |-> <<>>]
  /\ globals = [x \in Names |-> Undefined]
  /\ callDepth = 0 /\ log = <<>> /\ outcome = "running"

-----------------------------------------------------------------------------
At(op) == outcome = "running" /\ Instr.op = op

CellOf(r) == IF r.kind = "local" THEN [vec |-> cur.vec, slot |-> r.slot]
             ELSE closures[cur.self].ups[r.slot]

Load(r) == IF r.kind = "global" THEN globals[r.name]
           ELSE heap[CellOf(r).vec][CellOf(r).slot]

(* The frame goes on after the instruction, having stored v at r. *)
Store(r, v) ==
  IF r.kind = "global"
    THEN globals' = [globals EXCEPT ![r.name] = v] /\ UNCHANGED heap
    ELSE heap' = [heap EXCEPT ![CellOf(r).vec][CellOf(r).slot] = v] /\ UNCHANGED globals

Resumed(i) == [frames EXCEPT ![Len(frames)].ip = i]

StoreConstant ==
  /\ At("store") /\ Store(Instr.ref, Instr.val)
  /\ frames' = Resumed(cur.ip + 1)
  /\ UNCHANGED <<prog, pool, closures, callDepth, log, outcome>>

(* getProp: a field of the object in a slot, undefined of anything else. *)
Field ==
  /\ At("field")
  /\ Store(Instr.ref, IF heap[cur.vec][Instr.n].tag = "obj"
                        THEN [tag |-> "num", n |-> heap[cur.vec][Instr.n].n] ELSE Undefined)
  /\ frames' = Resumed(cur.ip + 1)
  /\ UNCHANGED <<prog, pool, closures, callDepth, log, outcome>>

Log ==
  /\ At("log") /\ log' = Append(log, Load(Instr.ref))
  /\ frames' = Resumed(cur.ip + 1)
  /\ UNCHANGED <<prog, heap, pool, closures, globals, callDepth, outcome>>

Jump ==
  /\ At("jump") /\ frames' = Resumed(Instr.n)
  /\ UNCHANGED <<prog, heap, pool, closures, globals, callDepth, log, outcome>>

(* OpClosure: a local of this frame by reference, or what this function itself
   captured. *)
Captured(d) == IF d.isLocal THEN [vec |-> cur.vec, slot |-> d.index]
               ELSE closures[cur.self].ups[d.index]

MakeClosure ==
  /\ At("closure")
  /\ LET descs == prog.protos[Instr.n].descs
     IN closures' = Append(closures, [fn |-> Instr.n,
                                      ups |-> [i \in DOMAIN descs |-> Captured(descs[i])]])
  /\ Store(Instr.ref, Fn(Len(closures) + 1))
  /\ frames' = Resumed(cur.ip + 1)
  /\ UNCHANGED <<prog, pool, callDepth, log, outcome>>

-----------------------------------------------------------------------------
(* Calls.  getLocals takes a vector of the size from the pool or makes one. *)

Pooled(n) == n > 0 /\ pool[n] # <<>>
Vector(n) == IF Pooled(n) THEN pool[n][Len(pool[n])] ELSE Len(heap) + 1
Taken(n) == IF Pooled(n) THEN [pool EXCEPT ![n] = SubSeq(@, 1, Len(@) - 1)] ELSE pool

With(v, contents) == IF v > Len(heap) THEN Append(heap, contents) ELSE [heap EXCEPT ![v] = contents]

(* The locals of a call of q with n arguments x: zeroed, the parameters, the
   rest parameter after them, the arguments array in its slot. *)
Seeded(q, n, x) ==
  [i \in 1..q.size |->
     IF q.hasArguments /\ i = q.argumentsSlot THEN [tag |-> "args", n |-> n]
     ELSE IF q.hasRest /\ i = q.arity + 1
            THEN [tag |-> "rest", n |-> IF n > q.arity THEN n - q.arity ELSE 0]
     ELSE IF i <= q.arity /\ i <= n THEN x ELSE Undefined]

Callee == Load(Instr.ref)
CalleeProto == prog.protos[closures[Callee.n].fn]

(* The frames of the running invoke below the running one (len(callStack)). *)
EntryOf(s) == CHOOSE k \in DOMAIN s : s[k].entry /\ \A j \in DOMAIN s : j > k => ~ s[j].entry
Suspended == Len(frames) - EntryOf(frames)

Call ==
  /\ At("call") /\ Callee.tag = "fn" /\ Suspended < MaxCalls
  /\ LET q == CalleeProto
     IN /\ heap' = With(Vector(q.size), Seeded(q, Instr.n, Instr.val))
        /\ pool' = Taken(q.size)
        /\ frames' = Append(Resumed(cur.ip + 1),
                            Frame(closures[Callee.n].fn, Callee.n, Vector(q.size), FALSE))
  /\ UNCHANGED <<prog, closures, globals, callDepth, log, outcome>>

(* A native function calls back: VM.Call and a nested invoke, whose first
   frame makes its vector itself. *)
Reenter ==
  /\ At("native") /\ Callee.tag = "fn" /\ callDepth < MaxNative
  /\ callDepth' = callDepth + 1
  /\ heap' = Append(heap, Seeded(CalleeProto, Instr.n, Instr.val))
  /\ frames' = Append(Resumed(cur.ip + 1),
                      Frame(closures[Callee.n].fn, Callee.n, Len(heap) + 1, TRUE))
  /\ UNCHANGED <<prog, pool, closures, globals, log, outcome>>

-----------------------------------------------------------------------------
(* Returns. *)

(* Slip: the vector goes back whether or not a closure points into it. *)
ReturnedAlways(fr) ==
  LET n == prog.protos[fr.fn].size
  IN IF n > 0 /\ Len(pool[n]) < MaxBucket THEN [pool EXCEPT ![n] = Append(@, fr.vec)] ELSE pool

(* OpReturn and putLocals: the pool gets the vector unless a closure may point
   into it. *)
Returned(fr) ==
  LET n == prog.protos[fr.fn].size
  IN IF n > 0 /\ Len(pool[n]) < MaxBucket /\ ~ prog.protos[fr.fn].localsEscape
       THEN [pool EXCEPT ![n] = Append(@, fr.vec)] ELSE pool

LeftInvoke(fr) == IF fr.entry THEN callDepth - 1 ELSE callDepth

Return ==
  /\ At("return") /\ pool' = Returned(cur)
  /\ IF Len(frames) = 1
       THEN outcome' = "returned" /\ UNCHANGED <<frames, callDepth>>
       ELSE /\ frames' = SubSeq(frames, 1, Len(frames) - 1)
            /\ callDepth' = LeftInvoke(cur)
            /\ UNCHANGED outcome
  /\ UNCHANGED <<prog, heap, closures, globals, log>>

-----------------------------------------------------------------------------
(* Exceptions: unwindTo pops frames of this invoke, whose vectors nobody gets;
   then the error passes the native function and goes on in the outer invoke.
   A frame below the running one is past its call instruction. *)

Covering(k) == LET hs == prog.protos[frames[k].fn].handlers
                   pc == IF k = Len(frames) THEN frames[k].ip ELSE frames[k].ip - 1
               IN {i \in DOMAIN hs : hs[i].start <= pc /\ pc < hs[i].end}

Catching == {k \in DOMAIN frames : Covering(k) # {}}

Entries(s) == {k \in 2..Len(s) : s[k].entry}

(* The innermost frame that catches, and where its first handler goes on. *)
Catcher == CHOOSE k \in Catching : \A j \in Catching : j <= k
Region == CHOOSE i \in Covering(Catcher) : \A j \in Covering(Catcher) : i <= j
Target == prog.protos[frames[Catcher].fn].handlers[Region].pc

(* Slip: the counter is only brought back when the nested call returns. *)
UnwindUncounted ==
  IF Catching = {} THEN outcome' = "thrown" /\ UNCHANGED <<frames, callDepth>>
  ELSE /\ frames' = [SubSeq(frames, 1, Catcher) EXCEPT ![Catcher].ip = Target]
       /\ UNCHANGED <<callDepth, outcome>>

Unwind ==
  IF Catching = {} THEN outcome' = "thrown" /\ callDepth' = 0 /\ UNCHANGED frames
  ELSE /\ frames' = [SubSeq(frames, 1, Catcher) EXCEPT ![Catcher].ip = Target]
       /\ callDepth' = callDepth - Cardinality(Entries(frames) \ Entries(SubSeq(frames, 1, Catcher)))
       /\ UNCHANGED outcome

Throw == At("throw") /\ Unwind /\ UNCHANGED <<prog, heap, pool, closures, globals, log>>

NotCallable ==
  /\ outcome = "running" /\ Instr.op \in {"call", "native"} /\ Callee.tag # "fn"
  /\ Unwind /\ UNCHANGED <<prog, heap, pool, closures, globals, log>>

(* The vector of the call is taken before the depth is looked at. *)
CallTooDeep ==
  /\ At("call") /\ Callee.tag = "fn" /\ Suspended >= MaxCalls
  /\ Unwind
  /\ pool' = Taken(CalleeProto.size)
  /\ heap' = With(Vector(CalleeProto.size), Seeded(CalleeProto, Instr.n, Instr.val))
  /\ UNCHANGED <<prog, closures, globals, log>>

ReenterTooDeep ==
  /\ At("native") /\ Callee.tag = "fn" /\ callDepth >= MaxNative
  /\ Unwind /\ UNCHANGED <<prog, heap, pool, closures, globals, log>>

Next == \/ StoreConstant \/ Field \/ Log \/ Jump \/ MakeClosure
        \/ Call \/ Reenter \/ Return
        \/ Throw \/ NotCallable \/ CallTooDeep \/ ReenterTooDeep

Spec == Init /\ [][Next]_vars

-----------------------------------------------------------------------------
(* What the interpreter relies on the compiler for: jumps and handlers stay in
   the code, slots in the frame, upvalues in the list, closures of protos whose
   upvalues exist here, and a function whose local is captured is marked. *)
RefFits(q, r) == /\ r.kind = "local" => r.slot \in 1..q.size
                 /\ r.kind = "up" => r.slot \in DOMAIN q.descs

Marked(p, q) ==
  \A i \in DOMAIN q.code : q.code[i].op = "closure" =>
    /\ q.code[i].n \in DOMAIN p.protos
    /\ LET descs == p.protos[q.code[i].n].descs
       IN \A j \in DOMAIN descs :
            IF descs[j].isLocal THEN descs[j].index \in 1..q.size /\ q.localsEscape
            ELSE descs[j].index \in DOMAIN q.descs

WellFormed(p) ==
  /\ p.protos[1].descs = <<>>
  /\ \A k \in DOMAIN p.protos :
       LET q == p.protos[k]
       IN /\ 1 \in DOMAIN q.code /\ Marked(p, q)
          /\ \A i \in DOMAIN q.code :
               /\ RefFits(q, q.code[i].ref) /\ q.code[i].val.tag # "fn"
               /\ q.code[i].op \notin {"jump", "return", "throw"} => i + 1 \in DOMAIN q.code
               /\ q.code[i].op = "field" => q.code[i].n \in 1..q.size
               /\ q.code[i].op = "jump" => q.code[i].n \in DOMAIN q.code
          /\ \A i \in DOMAIN q.handlers : q.handlers[i].pc \in DOMAIN q.code

-----------------------------------------------------------------------------
(* Frames, closures and the pool point at vectors that exist, and every slot
   holds a value. *)
TypeOK ==
  /\ frames \in Seq([fn : DOMAIN prog.protos, self : DOMAIN closures, vec : DOMAIN heap,
                     ip : Nat, entry : BOOLEAN]) /\ frames # <<>>
  /\ \A v \in DOMAIN heap : heap[v] \in Seq(Value)
  /\ \A n \in 1..MaxSize : pool[n] \in Seq(DOMAIN heap)
  /\ closures \in Seq([fn : DOMAIN prog.protos, ups : Seq(Cell)])
  /\ globals \in [Names -> Value] /\ log \in Seq(Value)
  /\ callDepth \in Nat /\ outcome \in {"running", "returned", "thrown"}

Pool == {v \in DOMAIN heap : \E n \in 1..MaxSize : \E i \in DOMAIN pool[n] : pool[n][i] = v}

(* getLocals: "the slice is exclusive to one frame at a time"; LocalsEscape: it
   must not be recycled while a closure holds a pointer into it. *)
PoolExclusive ==
  /\ \A j, k \in DOMAIN frames : j # k => frames[j].vec # frames[k].vec
  /\ \A n, m \in 1..MaxSize : \A i \in DOMAIN pool[n], j \in DOMAIN pool[m] :
       <<n, i>> # <<m, j>> => pool[n][i] # pool[m][j]
  /\ outcome = "running" => \A k \in DOMAIN frames : frames[k].vec \notin Pool
  /\ \A c \in DOMAIN closures : \A i \in DOMAIN closures[c].ups : closures[c].ups[i].vec \notin Pool

(* The two limits on depth: callDepth counts the nested invokes, also after an
   exception passed some of them, and an invoke suspends at most MaxCalls. *)
DepthsCounted ==
  /\ outcome = "running" => callDepth = Cardinality(Entries(frames))
  /\ callDepth <= MaxNative
  /\ \A j, k \in DOMAIN frames :
       j < k /\ (\A i \in (j + 1)..k : ~ frames[i].entry) => k - j <= MaxCalls
=============================================================================
