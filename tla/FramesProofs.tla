----------------------------- MODULE FramesProofs -----------------------------
(***************************************************************************)
(* The pool of locals vectors and the counting of nested invokes, for      *)
(* every set of programs that keep what WellFormed asks of the compiler,   *)
(* and every limit.  The invariant says where frames and closures point;   *)
(* Escapes is what makes the pool safe: a vector that a closure points     *)
(* into and a frame still uses belongs to a function that is marked.       *)
(***************************************************************************)
EXTENDS Frames, TLAPS, SequenceTheorems, FiniteSetTheorems, WellFoundedInduction

FrameSet == [fn : DOMAIN prog.protos, self : DOMAIN closures, vec : DOMAIN heap,
             ip : Nat, entry : BOOLEAN]

ClosureSet == [fn : DOMAIN prog.protos, ups : Seq(Cell)]

Types ==
  /\ prog \in Progs
  /\ heap \in Seq(Seq(Value))
  /\ frames \in Seq(FrameSet) /\ frames # <<>>
  /\ pool \in [1..MaxSize -> Seq(DOMAIN heap)]
  /\ closures \in Seq(ClosureSet)
  /\ globals \in [Names -> Value] /\ log \in Seq(Value)
  /\ outcome \in {"running", "returned", "thrown"}

(* Where frames and closures point. *)
FramePoints(fr) ==
  /\ closures[fr.self].fn = fr.fn
  /\ Len(heap[fr.vec]) = prog.protos[fr.fn].size
  /\ fr.ip \in DOMAIN prog.protos[fr.fn].code

CellExists(u) == u.vec \in DOMAIN heap /\ u.slot \in DOMAIN heap[u.vec]

ClosurePoints(cl) ==
  /\ Len(cl.ups) = Len(prog.protos[cl.fn].descs)
  /\ \A i \in DOMAIN cl.ups : CellExists(cl.ups[i])

Exists(x) == x.tag = "fn" => x.n \in DOMAIN closures

Points ==
  /\ \A k \in DOMAIN frames : FramePoints(frames[k])
  /\ \A c \in DOMAIN closures : ClosurePoints(closures[c])
  /\ \A v \in DOMAIN heap : \A i \in DOMAIN heap[v] : Exists(heap[v][i])
  /\ \A x \in Names : Exists(globals[x])

(* A closure that points into a frame's vector: the function is marked. *)
Escapes ==
  \A k \in DOMAIN frames, c \in DOMAIN closures : \A i \in DOMAIN closures[c].ups :
    closures[c].ups[i].vec = frames[k].vec => prog.protos[frames[k].fn].localsEscape

-----------------------------------------------------------------------------
(* What the programs give. *)

(* What FramesAssumption gives about a function of a program. *)
LEMMA ProtoFacts ==
  ASSUME NEW p \in Progs, NEW f \in DOMAIN p.protos
  PROVE  /\ p.protos \in Seq(Proto) /\ 1 \in DOMAIN p.protos
         /\ p.protos[f] \in Proto
         /\ p.protos[f].code \in Seq(Instructions)
         /\ p.protos[f].size \in 0..MaxSize
         /\ p.protos[f].descs \in Seq([index : Nat, isLocal : BOOLEAN])
         /\ p.protos[f].localsEscape \in BOOLEAN
         /\ p.protos[f].handlers \in Seq([start : Nat, end : Nat, pc : Nat])
<1>1. p.protos \in Seq(Proto) /\ p.protos # <<>>
  BY FramesAssumption
<1>2. 1 \in DOMAIN p.protos
  BY <1>1
<1>3. p.protos[f] \in Proto
  BY <1>1, ElementOfSeq
<1>. QED BY <1>1, <1>2, <1>3 DEF Proto

(* An instruction of a well-formed program: its operands fit the function, and its
   constant is no function. *)
LEMMA InstructionFacts ==
  ASSUME NEW p \in Progs, WellFormed(p), NEW f \in DOMAIN p.protos,
         NEW i \in DOMAIN p.protos[f].code
  PROVE  /\ p.protos[f].code[i] \in Instructions
         /\ p.protos[f].code[i].ref \in Ref
         /\ p.protos[f].code[i].val \in Value /\ p.protos[f].code[i].val.tag # "fn"
         /\ p.protos[f].code[i].n \in Nat
         /\ RefFits(p.protos[f], p.protos[f].code[i].ref)
<1>1. p.protos[f].code[i] \in Instructions
  BY ProtoFacts, ElementOfSeq
<1>2. RefFits(p.protos[f], p.protos[f].code[i].ref) /\ p.protos[f].code[i].val.tag # "fn"
  BY DEF WellFormed
<1>. QED BY <1>1, <1>2 DEF Instructions

(* A closure has a function and upvalues that are cells. *)
LEMMA ClosureFacts ==
  ASSUME Types, NEW c \in DOMAIN closures
  PROVE  /\ closures[c] \in ClosureSet
         /\ closures[c].fn \in DOMAIN prog.protos
         /\ closures[c].ups \in Seq(Cell)
         /\ \A i \in DOMAIN closures[c].ups : closures[c].ups[i] \in Cell
<1>1. closures \in Seq(ClosureSet)
  BY DEF Types
<1>2. closures[c] \in ClosureSet
  BY <1>1, ElementOfSeq
<1>3. closures[c].fn \in DOMAIN prog.protos /\ closures[c].ups \in Seq(Cell)
  BY <1>2 DEF ClosureSet
<1>. QED BY <1>2, <1>3, ElementOfSeq

(* A frame has a function, a closure and a vector. *)
LEMMA FrameFacts ==
  ASSUME Types, NEW k \in DOMAIN frames
  PROVE  /\ frames[k] \in FrameSet
         /\ frames[k].fn \in DOMAIN prog.protos /\ frames[k].self \in DOMAIN closures
         /\ frames[k].vec \in DOMAIN heap
<1>1. frames \in Seq(FrameSet)
  BY DEF Types
<1>2. frames[k] \in FrameSet
  BY <1>1, ElementOfSeq
<1>. QED BY <1>2 DEF FrameSet

(* The frame that runs. *)
LEMMA CurFacts ==
  ASSUME Types, Points
  PROVE  /\ Len(frames) \in Nat /\ Len(frames) >= 1 /\ Len(frames) \in DOMAIN frames
         /\ cur \in FrameSet
         /\ cur.fn \in DOMAIN prog.protos /\ cur.self \in DOMAIN closures
         /\ cur.vec \in DOMAIN heap
         /\ FramePoints(cur) /\ cur.ip \in DOMAIN Code
         /\ closures[cur.self] \in ClosureSet
         /\ ClosurePoints(closures[cur.self])
<1>1. Len(frames) \in Nat /\ Len(frames) >= 1 /\ Len(frames) \in DOMAIN frames
  BY EmptySeq DEF Types
<1>2. cur \in FrameSet /\ cur.fn \in DOMAIN prog.protos /\ cur.self \in DOMAIN closures
      /\ cur.vec \in DOMAIN heap
  BY <1>1, FrameFacts DEF cur
<1>3. FramePoints(cur) /\ cur.ip \in DOMAIN Code
  BY <1>1 DEF Points, FramePoints, cur, Code
<1>4. closures[cur.self] \in ClosureSet
      /\ ClosurePoints(closures[cur.self])
  BY <1>2, ClosureFacts DEF Points
<1>. QED BY <1>1, <1>2, <1>3, <1>4

(* The instruction that runs: its operands fit, and the next one exists. *)
LEMMA InstrFacts ==
  ASSUME Types, Points, WellFormed(prog)
  PROVE  /\ Instr \in Instructions /\ Instr.ref \in Ref /\ Instr.n \in Nat
         /\ Instr.val \in Value /\ Instr.val.tag # "fn"
         /\ RefFits(prog.protos[cur.fn], Instr.ref)
         /\ Instr.op \notin {"jump", "return", "throw"} => cur.ip + 1 \in DOMAIN Code
         /\ Instr.op = "jump" => Instr.n \in DOMAIN Code
         /\ Instr.op = "field" => Instr.n \in 1..prog.protos[cur.fn].size
<1>1. cur.fn \in DOMAIN prog.protos /\ cur.ip \in DOMAIN Code /\ prog \in Progs
  BY CurFacts DEF Types
<1>. QED BY <1>1, InstructionFacts DEF Instr, Code, WellFormed

(* The cell of a reference exists; what is loaded is a value. *)
LEMMA CellFacts ==
  ASSUME Types, Points, WellFormed(prog),
         NEW r \in Ref, RefFits(prog.protos[cur.fn], r), r.kind # "global"
  PROVE  CellExists(CellOf(r))
<1>1. CASE r.kind = "local"
  BY <1>1, CurFacts DEF CellOf, CellExists, FramePoints, RefFits, Types
<1>2. CASE r.kind = "up"
  <2>1. Len(closures[cur.self].ups) = Len(prog.protos[cur.fn].descs)
    BY CurFacts DEF ClosurePoints, FramePoints
  <2>2. r.slot \in DOMAIN prog.protos[cur.fn].descs
    BY <1>2 DEF RefFits
  <2>3. prog.protos[cur.fn].descs \in Seq([index : Nat, isLocal : BOOLEAN])
    BY CurFacts, ProtoFacts DEF Types
  <2>4. r.slot \in DOMAIN closures[cur.self].ups
    BY <2>1, <2>2, <2>3, CurFacts
  <2>. QED BY <1>2, <2>4, CurFacts DEF CellOf, ClosurePoints
<1>. QED BY <1>1, <1>2 DEF Ref

(* What a reference holds is a value, and the closure it names exists. *)
LEMMA LoadFacts ==
  ASSUME Types, Points, WellFormed(prog), NEW r \in Ref, RefFits(prog.protos[cur.fn], r)
  PROVE  Load(r) \in Value /\ Exists(Load(r))
<1>1. CASE r.kind = "global"
  BY <1>1 DEF Load, Types, Points, Ref
<1>2. CASE r.kind # "global"
  <2>1. CellExists(CellOf(r))
    BY <1>2, CellFacts
  <2>2. heap[CellOf(r).vec] \in Seq(Value)
    BY <2>1, ElementOfSeq DEF Types, CellExists
  <2>. QED BY <1>2, <2>1, <2>2, ElementOfSeq DEF Load, Points, CellExists
<1>. QED BY <1>1, <1>2

(* What a call instruction calls, once it is known to be a function. *)
LEMMA CalleeFacts ==
  ASSUME Types, Points, WellFormed(prog), Callee.tag = "fn"
  PROVE  /\ Callee.n \in DOMAIN closures
         /\ closures[Callee.n].fn \in DOMAIN prog.protos
         /\ CalleeProto \in Proto /\ CalleeProto.size \in 0..MaxSize
         /\ 1 \in DOMAIN CalleeProto.code
<1>1. Callee.n \in DOMAIN closures
  BY LoadFacts, InstrFacts DEF Callee, Exists
<1>2. closures[Callee.n].fn \in DOMAIN prog.protos
  BY <1>1, ClosureFacts
<1>. QED BY <1>1, <1>2, ProtoFacts DEF CalleeProto, Types, WellFormed

-----------------------------------------------------------------------------
(* What every step but a return does. *)

NewClosure(cl) ==
  /\ Len(cl.ups) = Len(prog.protos[cl.fn].descs)
  /\ \A i \in DOMAIN cl.ups :
       \/ /\ cl.ups[i].vec = cur.vec /\ cl.ups[i].slot \in DOMAIN heap[cur.vec]
          /\ prog.protos[cur.fn].localsEscape
       \/ \E j \in DOMAIN closures[cur.self].ups : cl.ups[i] = closures[cur.self].ups[j]

(* Vectors that are pointed at keep their lengths, the pool gets nothing. *)
Carried ==
  /\ prog' = prog
  /\ Len(heap') >= Len(heap)
  /\ \A k \in DOMAIN frames : Len(heap'[frames[k].vec]) = Len(heap[frames[k].vec])
  /\ \A c \in DOMAIN closures : \A i \in DOMAIN closures[c].ups :
       Len(heap'[closures[c].ups[i].vec]) = Len(heap[closures[c].ups[i].vec])
  /\ \A v \in DOMAIN heap' : \A i \in DOMAIN heap'[v] : Exists(heap[v][i])'
  /\ \A x \in Names : Exists(globals[x])'
  /\ \A m \in 1..MaxSize : \A i \in DOMAIN pool'[m] :
       i \in DOMAIN pool[m] /\ pool'[m][i] = pool[m][i]
  /\ \A c \in DOMAIN closures' : \/ c \in DOMAIN closures /\ closures'[c] = closures[c]
                                 \/ NewClosure(closures'[c])

OldFrame(k) ==
  /\ k \in DOMAIN frames
  /\ frames'[k].fn = frames[k].fn /\ frames'[k].self = frames[k].self
  /\ frames'[k].vec = frames[k].vec
  /\ frames'[k].ip \in DOMAIN prog.protos[frames[k].fn].code
  /\ closures'[frames[k].self].fn = closures[frames[k].self].fn

NewFrame(k) ==
  /\ k = Len(frames) + 1 /\ FramePoints(frames[k])'
  /\ \A j \in DOMAIN frames : frames[j].vec # frames'[k].vec
  /\ \A m \in 1..MaxSize : \A i \in DOMAIN pool'[m] : pool'[m][i] # frames'[k].vec
  /\ \A c \in DOMAIN closures' : \A i \in DOMAIN closures'[c].ups :
       closures'[c].ups[i].vec # frames'[k].vec

FramesFollow == \A k \in DOMAIN frames' : OldFrame(k) \/ NewFrame(k)

(* A vector in the pool is no frame's and no closure's. *)
LEMMA PoolMembers ==
  ASSUME Types, PoolExclusive, outcome = "running",
         NEW m \in 1..MaxSize, NEW i \in DOMAIN pool[m]
  PROVE  /\ pool[m][i] \in DOMAIN heap
         /\ \A k \in DOMAIN frames : frames[k].vec # pool[m][i]
         /\ \A c \in DOMAIN closures : \A j \in DOMAIN closures[c].ups :
              closures[c].ups[j].vec # pool[m][i]
<1>1. pool[m] \in Seq(DOMAIN heap)
  BY DEF Types
<1>2. pool[m][i] \in DOMAIN heap
  BY <1>1, ElementOfSeq
<1>3. pool[m][i] \in Pool
  BY <1>2 DEF Pool
<1>. QED BY <1>2, <1>3 DEF PoolExclusive

(* A cell outlives every step that leaves its vector as long as it was. *)
LEMMA CellKept ==
  ASSUME Types, Types', Len(heap') >= Len(heap),
         NEW u, CellExists(u), Len(heap'[u.vec]) = Len(heap[u.vec])
  PROVE  u.vec \in DOMAIN heap' /\ u.slot \in DOMAIN heap'[u.vec]
<1>1. heap \in Seq(Seq(Value)) /\ heap' \in Seq(Seq(Value))
  BY DEF Types
<1>2. u.vec \in DOMAIN heap /\ u.slot \in DOMAIN heap[u.vec]
  BY DEF CellExists
<1>3. u.vec \in DOMAIN heap'
  BY <1>1, <1>2
<1>4. heap[u.vec] \in Seq(Value) /\ heap'[u.vec] \in Seq(Value)
  BY <1>1, <1>2, <1>3, ElementOfSeq
<1>. QED BY <1>2, <1>3, <1>4

(* A step that carries everything over and whose frames follow leaves no frame and
   no closure pointing nowhere. *)
LEMMA PointsKept ==
  ASSUME Types, Points, Types', Carried, FramesFollow
  PROVE  Points'
<1>1. ASSUME NEW k \in DOMAIN frames'
      PROVE  FramePoints(frames[k])'
  <2>1. CASE OldFrame(k)
    BY <2>1 DEF OldFrame, Carried, Points, FramePoints
  <2>2. CASE NewFrame(k)
    BY <2>2 DEF NewFrame
  <2>. QED BY <2>1, <2>2 DEF FramesFollow
<1>2. ASSUME NEW c \in DOMAIN closures'
      PROVE  ClosurePoints(closures[c])'
  <2>1. CASE c \in DOMAIN closures /\ closures'[c] = closures[c]
    <3>1. Len(closures'[c].ups) = Len(prog'.protos[closures'[c].fn].descs)
      BY <2>1 DEF Points, ClosurePoints, Carried
    <3>2. ASSUME NEW i \in DOMAIN closures'[c].ups
          PROVE  /\ closures'[c].ups[i].vec \in DOMAIN heap'
                 /\ closures'[c].ups[i].slot \in DOMAIN heap'[closures'[c].ups[i].vec]
      <4>1. CellExists(closures[c].ups[i])
        BY <2>1, <3>2 DEF Points, ClosurePoints
      <4>2. Len(heap'[closures[c].ups[i].vec]) = Len(heap[closures[c].ups[i].vec])
        BY <2>1, <3>2 DEF Carried
      <4>. QED BY <2>1, <4>1, <4>2, CellKept DEF Carried
    <3>. QED BY <3>1, <3>2 DEF ClosurePoints, CellExists
  <2>2. CASE NewClosure(closures'[c])
    <3>1. Len(closures'[c].ups) = Len(prog'.protos[closures'[c].fn].descs)
      BY <2>2 DEF NewClosure, Carried
    <3>2. ASSUME NEW i \in DOMAIN closures'[c].ups
          PROVE  /\ closures'[c].ups[i].vec \in DOMAIN heap'
                 /\ closures'[c].ups[i].slot \in DOMAIN heap'[closures'[c].ups[i].vec]
      <4>1. CASE /\ closures'[c].ups[i].vec = cur.vec
                 /\ closures'[c].ups[i].slot \in DOMAIN heap[cur.vec]
        <5>1. Len(heap'[cur.vec]) = Len(heap[cur.vec]) /\ cur.vec \in DOMAIN heap
          BY CurFacts DEF Carried, cur
        <5>. QED BY <4>1, <5>1, CellKept DEF CellExists, Carried
      <4>2. CASE \E j \in DOMAIN closures[cur.self].ups :
                   closures'[c].ups[i] = closures[cur.self].ups[j]
        <5>1. PICK j \in DOMAIN closures[cur.self].ups :
                     closures'[c].ups[i] = closures[cur.self].ups[j]
          BY <4>2
        <5>2. CellExists(closures[cur.self].ups[j]) /\ cur.self \in DOMAIN closures
          BY CurFacts DEF ClosurePoints
        <5>. QED BY <5>1, <5>2, CellKept DEF Carried
      <4>. QED BY <2>2, <4>1, <4>2 DEF NewClosure
    <3>. QED BY <3>1, <3>2 DEF ClosurePoints, CellExists
  <2>. QED BY <2>1, <2>2 DEF Carried
<1>. QED BY <1>1, <1>2 DEF Points, Carried

(* Where a closure of the next state points. *)
LEMMA ClosureOrigins ==
  ASSUME Types, Points, Carried, NEW c \in DOMAIN closures', NEW i \in DOMAIN closures'[c].ups
  PROVE  \/ \E d \in DOMAIN closures : \E j \in DOMAIN closures[d].ups :
              closures'[c].ups[i].vec = closures[d].ups[j].vec
         \/ closures'[c].ups[i].vec = cur.vec /\ prog.protos[cur.fn].localsEscape
<1>1. CASE c \in DOMAIN closures /\ closures'[c] = closures[c]
  BY <1>1
<1>2. CASE NewClosure(closures'[c])
  BY <1>2, CurFacts DEF NewClosure
<1>. QED BY <1>1, <1>2 DEF Carried

(* Such a step lets a closure point into the vector of an unmarked function only
   if one did before. *)
LEMMA EscapesKept ==
  ASSUME Types, Points, PoolExclusive, Escapes, Carried, FramesFollow
  PROVE  Escapes'
<1>. SUFFICES ASSUME NEW k \in DOMAIN frames', NEW c \in DOMAIN closures',
                     NEW i \in DOMAIN closures'[c].ups,
                     closures'[c].ups[i].vec = frames'[k].vec
              PROVE  prog'.protos[frames'[k].fn].localsEscape
  BY DEF Escapes
<1>1. ~ NewFrame(k)
  BY DEF NewFrame
<1>2. OldFrame(k)
  BY <1>1 DEF FramesFollow
<1>3. CASE \E d \in DOMAIN closures : \E j \in DOMAIN closures[d].ups :
             closures'[c].ups[i].vec = closures[d].ups[j].vec
  BY <1>2, <1>3 DEF OldFrame, Escapes, Carried
<1>4. CASE closures'[c].ups[i].vec = cur.vec /\ prog.protos[cur.fn].localsEscape
  <2>1. frames[k].vec = frames[Len(frames)].vec
    BY <1>2, <1>4 DEF OldFrame, cur
  <2>2. k = Len(frames)
    BY <2>1, <1>2, CurFacts DEF OldFrame, PoolExclusive
  <2>. QED BY <2>2, <1>2, <1>4 DEF OldFrame, Carried, cur
<1>. QED BY <1>3, <1>4, ClosureOrigins

(* Such a step lets two frames share a vector, or the pool hold one in use, only
   if they did before. *)
LEMMA ExclusiveKept ==
  ASSUME Types, Points, PoolExclusive, outcome = "running", Types', Carried, FramesFollow
  PROVE  PoolExclusive'
<1>1. ASSUME NEW j \in DOMAIN frames', NEW k \in DOMAIN frames', j # k
      PROVE  frames'[j].vec # frames'[k].vec
  <2>1. CASE OldFrame(j) /\ OldFrame(k)
    BY <1>1, <2>1 DEF OldFrame, PoolExclusive
  <2>2. CASE OldFrame(j) /\ NewFrame(k)
    BY <2>2 DEF OldFrame, NewFrame
  <2>3. CASE NewFrame(j) /\ OldFrame(k)
    BY <2>3 DEF OldFrame, NewFrame
  <2>4. CASE NewFrame(j) /\ NewFrame(k)
    BY <1>1, <2>4 DEF NewFrame
  <2>. QED BY <2>1, <2>2, <2>3, <2>4 DEF FramesFollow
<1>2. ASSUME NEW n \in 1..MaxSize, NEW m \in 1..MaxSize,
             NEW i \in DOMAIN pool'[n], NEW j \in DOMAIN pool'[m], <<n, i>> # <<m, j>>
      PROVE  pool'[n][i] # pool'[m][j]
  BY <1>2 DEF Carried, PoolExclusive
<1>3. ASSUME NEW n \in 1..MaxSize, NEW i \in DOMAIN pool'[n], NEW k \in DOMAIN frames'
      PROVE  pool'[n][i] # frames'[k].vec
  <2>1. i \in DOMAIN pool[n] /\ pool'[n][i] = pool[n][i]
    BY DEF Carried
  <2>2. CASE OldFrame(k)
    BY <2>1, <2>2, PoolMembers DEF OldFrame
  <2>3. CASE NewFrame(k)
    BY <2>3 DEF NewFrame
  <2>. QED BY <2>2, <2>3 DEF FramesFollow
<1>4. ASSUME NEW n \in 1..MaxSize, NEW j \in DOMAIN pool'[n],
             NEW c \in DOMAIN closures', NEW i \in DOMAIN closures'[c].ups
      PROVE  pool'[n][j] # closures'[c].ups[i].vec
  <2>1. j \in DOMAIN pool[n] /\ pool'[n][j] = pool[n][j]
    BY DEF Carried
  <2>2. CASE \E d \in DOMAIN closures : \E e \in DOMAIN closures[d].ups :
               closures'[c].ups[i].vec = closures[d].ups[e].vec
    BY <2>1, <2>2, PoolMembers
  <2>3. CASE closures'[c].ups[i].vec = cur.vec
    BY <2>1, <2>3, PoolMembers, CurFacts DEF cur
  <2>. QED BY <2>2, <2>3, ClosureOrigins
<1>. QED BY <1>1, <1>2, <1>3, <1>4 DEF PoolExclusive, Pool

-----------------------------------------------------------------------------
(* Steps within a frame. *)

Inv == Types /\ Points /\ PoolExclusive /\ Escapes

(* No slot and no global holds anything new but v. *)
Stores(v) ==
  /\ heap' \in Seq(Seq(Value)) /\ Len(heap') = Len(heap)
  /\ \A w \in DOMAIN heap : Len(heap'[w]) = Len(heap[w])
  /\ \A w \in DOMAIN heap : \A i \in DOMAIN heap[w] : heap'[w][i] \in {heap[w][i], v}
  /\ globals' \in [Names -> Value]
  /\ \A x \in Names : globals'[x] \in {globals[x], v}

(* storeRef puts the value in one place and changes no length. *)
LEMMA StoreFacts ==
  ASSUME Types, Points, WellFormed(prog),
         NEW r \in Ref, RefFits(prog.protos[cur.fn], r), NEW v \in Value, Store(r, v)
  PROVE  Stores(v)
<1>1. CASE r.kind = "global"
  <2>1. r.name \in Names /\ heap' = heap /\ globals' = [globals EXCEPT ![r.name] = v]
    BY <1>1 DEF Store, Ref
  <2>. QED BY <2>1 DEF Stores, Types
<1>2. CASE r.kind # "global"
  <2>. DEFINE w0 == CellOf(r).vec
              s0 == CellOf(r).slot
              new == [heap[w0] EXCEPT ![s0] = v]
  <2>1. w0 \in DOMAIN heap /\ s0 \in DOMAIN heap[w0]
    BY <1>2, CellFacts DEF CellExists
  <2>2. heap[w0] \in Seq(Value)
    BY <2>1, ElementOfSeq DEF Types
  <2>3. new \in Seq(Value) /\ Len(new) = Len(heap[w0])
        /\ \A i \in DOMAIN heap[w0] : new[i] \in {heap[w0][i], v}
    <3>. HIDE DEF w0, s0
    <3>. QED BY <2>1, <2>2
  <2>4. heap' = [heap EXCEPT ![w0] = new] /\ globals' = globals
    BY <1>2 DEF Store
  <2>5. heap' \in Seq(Seq(Value)) /\ Len(heap') = Len(heap)
        /\ heap'[w0] = new /\ \A w \in DOMAIN heap \ {w0} : heap'[w] = heap[w]
    <3>. HIDE DEF w0, new
    <3>. QED BY <2>1, <2>3, <2>4, ExceptSeq DEF Types
  <2>. HIDE DEF w0, s0, new
  <2>6. \A w \in DOMAIN heap : Len(heap'[w]) = Len(heap[w])
    BY <2>3, <2>5
  <2>7. \A w \in DOMAIN heap : \A i \in DOMAIN heap[w] : heap'[w][i] \in {heap[w][i], v}
    BY <2>3, <2>5
  <2>8. globals' \in [Names -> Value] /\ \A x \in Names : globals'[x] \in {globals[x], v}
    BY <2>4 DEF Types
  <2>. QED BY <2>5, <2>6, <2>7, <2>8 DEF Stores
<1>. QED BY <1>1, <1>2

(* A step that writes to no vector and no global stores any value trivially. *)
LEMMA StoresNothing ==
  ASSUME Types, UNCHANGED <<heap, globals>>, NEW v
  PROVE  Stores(v)
<1>1. heap' = heap /\ globals' = globals
  OBVIOUS
<1>. QED BY <1>1 DEF Stores, Types

(* The closures there were stay. *)
Grows ==
  /\ closures' \in Seq(ClosureSet) /\ Len(closures') >= Len(closures)
  /\ \A c \in DOMAIN closures : closures'[c] = closures[c]
  /\ \A c \in DOMAIN closures' : c \in DOMAIN closures \/ NewClosure(closures'[c])

(* The first n frames, the last of them at j. *)
Moved(n, j) == [i \in 1..n |-> IF i = n THEN [frames[n] EXCEPT !.ip = j] ELSE frames[i]]

(* Moving the n-th frame to j and dropping those above it changes no function, no
   closure and no vector. *)
LEMMA MovedFacts ==
  ASSUME Types, Points, NEW n \in 1..Len(frames),
         NEW j \in DOMAIN prog.protos[frames[n].fn].code
  PROVE  /\ Moved(n, j) \in Seq(FrameSet) /\ Len(Moved(n, j)) = n
         /\ \A k \in 1..n :
              /\ k \in DOMAIN frames
              /\ Moved(n, j)[k].fn = frames[k].fn /\ Moved(n, j)[k].self = frames[k].self
              /\ Moved(n, j)[k].vec = frames[k].vec /\ Moved(n, j)[k].entry = frames[k].entry
              /\ Moved(n, j)[k].ip \in DOMAIN prog.protos[frames[k].fn].code
<1>1. frames \in Seq(FrameSet) /\ n \in Nat /\ DOMAIN frames = 1..Len(frames)
      /\ 1..n \subseteq DOMAIN frames
  BY CurFacts DEF Types
<1>2. j \in Nat
  <2>1. frames[n].fn \in DOMAIN prog.protos /\ prog \in Progs
    BY <1>1, FrameFacts DEF Types
  <2>2. prog.protos[frames[n].fn].code \in Seq(Instructions)
    BY <2>1, ProtoFacts
  <2>. QED BY <2>2
<1>3. ASSUME NEW k \in 1..n
      PROVE  /\ Moved(n, j)[k] \in FrameSet
             /\ Moved(n, j)[k].fn = frames[k].fn /\ Moved(n, j)[k].self = frames[k].self
             /\ Moved(n, j)[k].vec = frames[k].vec /\ Moved(n, j)[k].entry = frames[k].entry
             /\ Moved(n, j)[k].ip \in DOMAIN prog.protos[frames[k].fn].code
  <2>1. k \in DOMAIN frames /\ frames[k] \in FrameSet
    BY <1>1, ElementOfSeq
  <2>2. CASE k = n
    <3>1. Moved(n, j)[k] = [frames[k] EXCEPT !.ip = j]
      BY <2>2 DEF Moved
    <3>. QED BY <1>2, <2>1, <2>2, <3>1 DEF FrameSet
  <2>3. CASE k # n
    <3>1. Moved(n, j)[k] = frames[k]
      BY <2>3 DEF Moved
    <3>. QED BY <2>1, <3>1 DEF Points, FramePoints
  <2>. QED BY <2>2, <2>3
<1>4. Moved(n, j) \in [1..n -> FrameSet]
  BY <1>3 DEF Moved
<1>. QED BY <1>1, <1>3, <1>4, SeqDef

(* A frame of the moved stack is an old frame. *)
LEMMA MovedFollows ==
  ASSUME Types, Points, prog' = prog, Grows, Len(heap') >= Len(heap), heap' \in Seq(Seq(Value)),
         NEW n \in 1..Len(frames), NEW j \in DOMAIN prog.protos[frames[n].fn].code,
         NEW k \in 1..n, frames'[k] = Moved(n, j)[k]
  PROVE  OldFrame(k) /\ frames'[k] \in FrameSet'
<1>1. DOMAIN heap \subseteq DOMAIN heap' /\ DOMAIN closures \subseteq DOMAIN closures'
  BY DEF Types, Grows
<1>2. FrameSet \subseteq FrameSet'
  BY <1>1 DEF FrameSet
<1>3. k \in DOMAIN frames /\ Moved(n, j)[k] \in FrameSet
  BY MovedFacts, ElementOfSeq
<1>4. closures'[frames[k].self].fn = closures[frames[k].self].fn
  BY <1>3, FrameFacts DEF Grows
<1>. QED BY <1>2, <1>3, <1>4, MovedFacts DEF OldFrame

(* Going on at j in the running frame moves the stack and drops nothing. *)
LEMMA ResumedIsMoved ==
  ASSUME Types, Points, NEW j \in DOMAIN Code
  PROVE  /\ Resumed(j) = Moved(Len(frames), j) /\ Len(frames) \in 1..Len(frames)
         /\ j \in DOMAIN prog.protos[frames[Len(frames)].fn].code
<1>1. frames \in Seq(FrameSet) /\ Len(frames) \in 1..Len(frames)
  BY CurFacts DEF Types
<1>2. DOMAIN frames = 1..Len(frames)
  BY <1>1
<1>3. Resumed(j) = [i \in DOMAIN frames |->
                      IF i = Len(frames) THEN [frames[i] EXCEPT !.ip = j] ELSE frames[i]]
  BY Zenon DEF Resumed
<1>4. Resumed(j) = Moved(Len(frames), j)
  BY <1>2, <1>3, Zenon DEF Moved
<1>. QED BY <1>1, <1>4 DEF Code, cur

(* After a step within the running frame every frame is an old one. *)
LEMMA ResumeFollows ==
  ASSUME Types, Points, prog' = prog, NEW j \in DOMAIN Code, frames' = Resumed(j),
         Grows, Len(heap') >= Len(heap), heap' \in Seq(Seq(Value))
  PROVE  /\ frames' \in Seq(FrameSet') /\ Len(frames') = Len(frames) /\ frames' # <<>>
         /\ \A k \in DOMAIN frames' : OldFrame(k)
<1>. DEFINE n == Len(frames)
<1>1. /\ frames' = Moved(n, j) /\ n \in 1..n
      /\ j \in DOMAIN prog.protos[frames[n].fn].code
  BY ResumedIsMoved
<1>. HIDE DEF n
<1>2. n \in 1..Len(frames) /\ n = Len(frames)
  BY <1>1 DEF n
<1>3. frames' \in Seq(FrameSet) /\ Len(frames') = n
  BY <1>1, <1>2, MovedFacts
<1>4. \A k \in 1..n : OldFrame(k) /\ frames'[k] \in FrameSet'
  BY <1>1, <1>2, MovedFollows
<1>5. frames' \in Seq(FrameSet')
  BY <1>3, <1>4, SeqDef
<1>. QED BY <1>2, <1>3, <1>4, <1>5, EmptySeq

(* The three halves of a step's proof together. *)
LEMMA Kept ==
  ASSUME Inv, outcome = "running", Types', Carried, FramesFollow
  PROVE  Inv'
BY PointsKept, EscapesKept, ExclusiveKept DEF Inv

(* A step that stores one value and goes on within the frame keeps the invariant. *)
LEMMA GoesKeeps ==
  ASSUME Inv, WellFormed(prog), outcome = "running", prog' = prog,
         NEW j \in DOMAIN Code, frames' = Resumed(j), pool' = pool, outcome' = outcome,
         log' \in Seq(Value), NEW v, v.tag = "fn" => v.n \in DOMAIN closures', Stores(v), Grows
  PROVE  Inv'
<1>. USE DEF Inv
<1>1. /\ frames' \in Seq(FrameSet') /\ Len(frames') = Len(frames) /\ frames' # <<>>
      /\ \A k \in DOMAIN frames' : OldFrame(k)
  BY ResumeFollows DEF Stores, Types
<1>2. DOMAIN heap' = DOMAIN heap /\ DOMAIN closures \subseteq DOMAIN closures'
  BY DEF Stores, Types, Grows
<1>3. ClosureSet' = ClosureSet
  BY DEF ClosureSet
<1>4. Types'
  BY <1>1, <1>2, <1>3 DEF Types, Stores, Grows
<1>5. Carried
  <2>1. \A k \in DOMAIN frames : Len(heap'[frames[k].vec]) = Len(heap[frames[k].vec])
    BY FrameFacts DEF Stores
  <2>2. \A c \in DOMAIN closures : \A i \in DOMAIN closures[c].ups :
          Len(heap'[closures[c].ups[i].vec]) = Len(heap[closures[c].ups[i].vec])
    BY DEF Stores, Points, ClosurePoints, CellExists
  <2>3. ASSUME NEW w \in DOMAIN heap', NEW i \in DOMAIN heap'[w]
        PROVE  heap'[w][i].tag = "fn" => heap'[w][i].n \in DOMAIN closures'
    <3>1. w \in DOMAIN heap /\ i \in DOMAIN heap[w]
      <4>1. w \in DOMAIN heap /\ Len(heap'[w]) = Len(heap[w])
        BY <1>2 DEF Stores
      <4>2. heap[w] \in Seq(Value) /\ heap'[w] \in Seq(Value)
        BY <4>1, ElementOfSeq DEF Stores, Types
      <4>. QED BY <4>1, <4>2
    <3>. QED BY <3>1, <1>2 DEF Stores, Points, Exists
  <2>4. \A x \in Names : globals'[x].tag = "fn" => globals'[x].n \in DOMAIN closures'
    BY <1>2 DEF Stores, Points, Exists
  <2>. QED BY <2>1, <2>2, <2>3, <2>4 DEF Carried, Stores, Grows, Exists, Types
<1>6. FramesFollow
  BY <1>1 DEF FramesFollow
<1>. QED BY <1>4, <1>5, <1>6, Kept

(* A step that makes no closure keeps those there are. *)
LEMMA SameClosures ==
  ASSUME Types, closures' = closures
  PROVE  Grows
BY DEF Types, Grows

(* OpConst and a store keep the invariant. *)
LEMMA StoreConstantKeeps ==
  ASSUME Inv, WellFormed(prog), StoreConstant
  PROVE  Inv'
<1>. USE DEF Inv
<1>1. Stores(Instr.val)
  BY StoreFacts, InstrFacts DEF StoreConstant
<1>. QED BY <1>1, InstrFacts, SameClosures, GoesKeeps DEF StoreConstant, At, Types

(* Reading a field and storing it keeps the invariant: a field holds no function. *)
LEMMA FieldKeeps ==
  ASSUME Inv, WellFormed(prog), Field
  PROVE  Inv'
<1>. USE DEF Inv
<1>. DEFINE x == heap[cur.vec][Instr.n]
            v == IF x.tag = "obj" THEN [tag |-> "num", n |-> x.n] ELSE Undefined
<1>1. x \in Value
  <2>1. heap[cur.vec] \in Seq(Value) /\ Len(heap[cur.vec]) = prog.protos[cur.fn].size
    BY CurFacts, ElementOfSeq DEF Types, FramePoints
  <2>2. Instr.n \in 1..Len(heap[cur.vec])
    BY <2>1, InstrFacts DEF Field, At
  <2>. QED BY <2>1, <2>2, ElementOfSeq
<1>2. v \in Value /\ v.tag # "fn"
  BY <1>1 DEF Value, Undefined
<1>3. Store(Instr.ref, v)
  BY DEF Field
<1>. HIDE DEF x, v
<1>4. Stores(v)
  BY <1>2, <1>3, StoreFacts, InstrFacts
<1>. QED BY <1>2, <1>4, InstrFacts, SameClosures, GoesKeeps DEF Field, At, Types

(* A step that reads a variable keeps the invariant. *)
LEMMA LogKeeps ==
  ASSUME Inv, WellFormed(prog), Log
  PROVE  Inv'
<1>. USE DEF Inv
<1>1. Load(Instr.ref) \in Value
  BY LoadFacts, InstrFacts
<1>2. log' \in Seq(Value)
  BY <1>1, AppendProperties DEF Log, Types
<1>3. Stores(Undefined) /\ Undefined.tag # "fn"
  BY StoresNothing DEF Log, Undefined
<1>. QED BY <1>2, <1>3, InstrFacts, SameClosures, GoesKeeps DEF Log, At, Types

(* A jump keeps the invariant. *)
LEMMA JumpKeeps ==
  ASSUME Inv, WellFormed(prog), Jump
  PROVE  Inv'
<1>. USE DEF Inv
<1>1. Stores(Undefined) /\ Undefined.tag # "fn"
  BY StoresNothing DEF Jump, Undefined
<1>. QED BY <1>1, InstrFacts, SameClosures, GoesKeeps DEF Jump, At, Types

(* What a closure captures: cells of this frame, whose function is marked, and
   cells this function captured itself. *)
LEMMA CaptureFacts ==
  ASSUME Inv, WellFormed(prog), At("closure")
  PROVE  LET descs == prog.protos[Instr.n].descs
             cl == [fn |-> Instr.n, ups |-> [i \in DOMAIN descs |-> Captured(descs[i])]]
         IN cl \in ClosureSet /\ NewClosure(cl)
<1>. USE DEF Inv
<1>. DEFINE descs == prog.protos[Instr.n].descs
            q == prog.protos[cur.fn]
            ups == [i \in DOMAIN descs |-> Captured(descs[i])]
<1>1. cur.fn \in DOMAIN prog.protos /\ cur.ip \in DOMAIN q.code /\ prog \in Progs
  BY CurFacts DEF Types, Code
<1>2. Instr = q.code[cur.ip] /\ Instr.op = "closure"
  BY DEF At, Instr, Code
<1>3. Marked(prog, q)
  BY <1>1 DEF WellFormed
<1>4. Instr.n \in DOMAIN prog.protos
      /\ \A j \in DOMAIN descs : IF descs[j].isLocal
                                   THEN descs[j].index \in 1..q.size /\ q.localsEscape
                                   ELSE descs[j].index \in DOMAIN q.descs
  BY <1>1, <1>2, <1>3 DEF Marked
<1>5. /\ descs \in Seq([index : Nat, isLocal : BOOLEAN])
      /\ q.descs \in Seq([index : Nat, isLocal : BOOLEAN])
      /\ q.size \in 0..MaxSize
  BY <1>1, <1>4, ProtoFacts
<1>6. /\ heap[cur.vec] \in Seq(Value) /\ Len(heap[cur.vec]) = q.size
      /\ closures[cur.self].ups \in Seq(Cell) /\ Len(closures[cur.self].ups) = Len(q.descs)
      /\ cur.vec \in DOMAIN heap /\ cur.vec \in Nat
  <2>1. cur.vec \in DOMAIN heap /\ cur.self \in DOMAIN closures /\ cur \in FrameSet
    BY CurFacts
  <2>2. heap \in Seq(Seq(Value))
    BY DEF Types
  <2>3. heap[cur.vec] \in Seq(Value) /\ cur.vec \in Nat
    BY <2>1, <2>2, ElementOfSeq
  <2>. QED BY <2>1, <2>3, CurFacts, ClosureFacts DEF FramePoints, ClosurePoints
<1>7. ASSUME NEW i \in DOMAIN descs
      PROVE  /\ Captured(descs[i]) \in Cell
             /\ \/ /\ Captured(descs[i]).vec = cur.vec
                   /\ Captured(descs[i]).slot \in DOMAIN heap[cur.vec] /\ q.localsEscape
                \/ \E j \in DOMAIN closures[cur.self].ups :
                     Captured(descs[i]) = closures[cur.self].ups[j]
  <2>. DEFINE d == descs[i]
  <2>1. IF d.isLocal THEN d.index \in 1..q.size /\ q.localsEscape ELSE d.index \in DOMAIN q.descs
    BY <1>4
  <2>. HIDE DEF d
  <2>2. CASE d.isLocal
    <3>1. Captured(d) = [vec |-> cur.vec, slot |-> d.index] /\ d.index \in 1..q.size
      BY <2>1, <2>2 DEF Captured
    <3>2. d.index \in Nat /\ d.index \in DOMAIN heap[cur.vec]
      BY <3>1, <1>5, <1>6
    <3>3. Captured(d) \in Cell /\ Captured(d).vec = cur.vec
          /\ Captured(d).slot \in DOMAIN heap[cur.vec]
      BY <3>1, <3>2, <1>6 DEF Cell
    <3>. QED BY <3>3, <2>1, <2>2 DEF d
  <2>3. CASE ~ d.isLocal
    <3>1. Captured(d) = closures[cur.self].ups[d.index]
      BY <2>3 DEF Captured
    <3>2. d.index \in DOMAIN closures[cur.self].ups
      BY <2>1, <2>3, <1>5, <1>6, SMTT(30)
    <3>3. Captured(d) \in Cell
      BY <3>1, <3>2, CurFacts, ClosureFacts
    <3>. QED BY <3>1, <3>2, <3>3 DEF d
  <2>. QED BY <2>2, <2>3
<1>. HIDE DEF q
<1>8. ups \in Seq(Cell) /\ Len(ups) = Len(descs) /\ DOMAIN ups = DOMAIN descs
  <2>1. Len(descs) \in Nat /\ DOMAIN descs = 1..Len(descs)
    BY <1>5
  <2>2. \A i \in DOMAIN descs : Captured(descs[i]) \in Cell
    BY <1>7
  <2>. HIDE DEF descs
  <2>3. ups \in [1..Len(descs) -> Cell]
    BY <2>1, <2>2
  <2>. QED BY <2>1, <2>3, SeqDef
<1>. QED BY <1>4, <1>7, <1>8 DEF ClosureSet, NewClosure, q

(* OpClosure keeps the invariant: what the closure captures is a cell of this
   frame, whose function is marked, or one that this closure has captured. *)
LEMMA MakeClosureKeeps ==
  ASSUME Inv, WellFormed(prog), MakeClosure
  PROVE  Inv'
<1>. USE DEF Inv
<1>. DEFINE descs == prog.protos[Instr.n].descs
            cl == [fn |-> Instr.n, ups |-> [i \in DOMAIN descs |-> Captured(descs[i])]]
<1>1. closures' = Append(closures, cl)
  BY DEF MakeClosure
<1>2. cl \in ClosureSet /\ NewClosure(cl)
  BY CaptureFacts DEF MakeClosure
<1>. HIDE DEF cl
<1>3. Grows /\ Len(closures') = Len(closures) + 1
  <2>1. closures' \in Seq(ClosureSet) /\ Len(closures') = Len(closures) + 1
        /\ closures'[Len(closures) + 1] = cl
        /\ \A c \in 1..Len(closures) : closures'[c] = closures[c]
    BY <1>1, <1>2, AppendProperties DEF Types
  <2>2. Len(closures) \in Nat /\ DOMAIN closures = 1..Len(closures)
        /\ DOMAIN closures' = 1..(Len(closures) + 1)
    BY <2>1 DEF Types
  <2>3. \A c \in DOMAIN closures : closures'[c] = closures[c]
    BY <2>1, <2>2
  <2>4. \A c \in DOMAIN closures' : c \in DOMAIN closures \/ NewClosure(closures'[c])
    BY <2>1, <2>2, <1>2
  <2>. QED BY <2>1, <2>2, <2>3, <2>4 DEF Grows
<1>. DEFINE v == Fn(Len(closures) + 1)
<1>4. v \in Value /\ v.n \in DOMAIN closures'
  BY <1>3 DEF Fn, Value, Types, Grows
<1>5. Stores(v)
  BY <1>4, StoreFacts, InstrFacts DEF MakeClosure
<1>. HIDE DEF v
<1>. QED BY <1>3, <1>4, <1>5, InstrFacts, GoesKeeps DEF MakeClosure, At, Types

-----------------------------------------------------------------------------
(* Calls. *)

(* v, with the contents given, is used by nobody in the heap H and the pool P. *)
Takes(v, contents, H, P) ==
  /\ H \in Seq(Seq(Value)) /\ Len(H) >= Len(heap)
  /\ v \in DOMAIN H /\ H[v] = contents
  /\ \A w \in DOMAIN H : w = v \/ (w \in DOMAIN heap /\ H[w] = heap[w])
  /\ P \in [1..MaxSize -> Seq(DOMAIN heap)]
  /\ \A m \in 1..MaxSize : \A i \in DOMAIN P[m] :
       i \in DOMAIN pool[m] /\ P[m][i] = pool[m][i] /\ P[m][i] # v
  /\ \A k \in DOMAIN frames : frames[k].vec # v
  /\ \A c \in DOMAIN closures : \A i \in DOMAIN closures[c].ups : closures[c].ups[i].vec # v

(* A callee's vector holds the argument and undefined, no functions. *)
LEMMA SeededFacts ==
  ASSUME NEW q \in Proto, NEW n \in Nat, NEW x \in Value, x.tag # "fn"
  PROVE  /\ Seeded(q, n, x) \in Seq(Value) /\ Len(Seeded(q, n, x)) = q.size
         /\ \A i \in DOMAIN Seeded(q, n, x) : Seeded(q, n, x)[i].tag # "fn"
<1>1. q.size \in Nat /\ q.arity \in Nat
  BY FramesAssumption DEF Proto
<1>2. \A i \in 1..q.size : Seeded(q, n, x)[i] \in Value /\ Seeded(q, n, x)[i].tag # "fn"
  <2>. TAKE i \in 1..q.size
  <2>1. Seeded(q, n, x)[i] \in {[tag |-> "args", n |-> n],
                                [tag |-> "rest", n |-> IF n > q.arity THEN n - q.arity ELSE 0],
                                x, Undefined}
    BY DEF Seeded
  <2>2. (IF n > q.arity THEN n - q.arity ELSE 0) \in Nat
    BY <1>1
  <2>. QED BY <2>1, <2>2 DEF Value, Undefined
<1>3. Seeded(q, n, x) \in [1..q.size -> Value]
  BY <1>2 DEF Seeded
<1>. QED BY <1>1, <1>2, <1>3, SeqDef

(* A new vector. *)
LEMMA NewVectorFacts ==
  ASSUME Inv, NEW contents \in Seq(Value)
  PROVE  Takes(Len(heap) + 1, contents, Append(heap, contents), pool)
<1>. USE DEF Inv
<1>. DEFINE v == Len(heap) + 1
<1>1. heap \in Seq(Seq(Value)) /\ DOMAIN heap = 1..Len(heap) /\ Len(heap) \in Nat
  BY DEF Types
<1>2. v \notin DOMAIN heap
  BY <1>1
<1>3. /\ Append(heap, contents) \in Seq(Seq(Value)) /\ Len(Append(heap, contents)) = Len(heap) + 1
      /\ Append(heap, contents)[v] = contents
      /\ \A w \in DOMAIN heap : Append(heap, contents)[w] = heap[w]
  BY <1>1, AppendProperties
<1>4. \A m \in 1..MaxSize : \A i \in DOMAIN pool[m] : pool[m][i] # v
  <2>. TAKE m \in 1..MaxSize
  <2>1. pool[m] \in Seq(DOMAIN heap)
    BY DEF Types
  <2>. QED BY <2>1, <1>2, ElementOfSeq
<1>5. \A k \in DOMAIN frames : frames[k].vec # v
  BY <1>2, FrameFacts
<1>6. \A c \in DOMAIN closures : \A i \in DOMAIN closures[c].ups : closures[c].ups[i].vec # v
  BY <1>2 DEF Points, ClosurePoints, CellExists
<1>7. pool \in [1..MaxSize -> Seq(DOMAIN heap)]
  BY DEF Types
<1>. HIDE DEF v
<1>8. \A w \in DOMAIN Append(heap, contents) :
        w = v \/ (w \in DOMAIN heap /\ Append(heap, contents)[w] = heap[w])
  BY <1>1, <1>3 DEF v
<1>. QED BY <1>1, <1>3, <1>4, <1>5, <1>6, <1>7, <1>8 DEF Takes, v

(* The vector getLocals finds in the pool. *)
LEMMA PooledVectorFacts ==
  ASSUME Inv, outcome = "running", NEW n \in 1..MaxSize, pool[n] # <<>>,
         NEW contents \in Seq(Value)
  PROVE  LET v == pool[n][Len(pool[n])]
         IN /\ v \in DOMAIN heap
            /\ Takes(v, contents, [heap EXCEPT ![v] = contents],
                     [pool EXCEPT ![n] = SubSeq(@, 1, Len(@) - 1)])
<1>. USE DEF Inv
<1>. DEFINE v == pool[n][Len(pool[n])]
            P == [pool EXCEPT ![n] = SubSeq(@, 1, Len(@) - 1)]
            H == [heap EXCEPT ![v] = contents]
<1>1. pool[n] \in Seq(DOMAIN heap) /\ pool \in [1..MaxSize -> Seq(DOMAIN heap)]
      /\ heap \in Seq(Seq(Value))
  BY DEF Types
<1>2. Len(pool[n]) \in DOMAIN pool[n] /\ Len(pool[n]) \in Nat /\ DOMAIN pool[n] = 1..Len(pool[n])
  BY <1>1, EmptySeq
<1>3. v \in DOMAIN heap
  BY <1>1, <1>2, PoolMembers
<1>4. /\ \A k \in DOMAIN frames : frames[k].vec # v
      /\ \A c \in DOMAIN closures : \A i \in DOMAIN closures[c].ups : closures[c].ups[i].vec # v
  BY <1>2, PoolMembers
<1>5. SubSeq(pool[n], 1, Len(pool[n]) - 1) \in Seq(DOMAIN heap)
      /\ Len(SubSeq(pool[n], 1, Len(pool[n]) - 1)) = Len(pool[n]) - 1
      /\ \A i \in 1..(Len(pool[n]) - 1) : SubSeq(pool[n], 1, Len(pool[n]) - 1)[i] = pool[n][i]
  BY <1>1, <1>2, SubSeqProperties, SMTT(30)
<1>6. P \in [1..MaxSize -> Seq(DOMAIN heap)]
  BY <1>1, <1>5
<1>7. ASSUME NEW m \in 1..MaxSize, NEW i \in DOMAIN P[m]
      PROVE  i \in DOMAIN pool[m] /\ P[m][i] = pool[m][i] /\ P[m][i] # v
  <2>1. CASE m = n
    <3>1. P[m] = SubSeq(pool[n], 1, Len(pool[n]) - 1)
      BY <1>1, <2>1
    <3>2. i \in 1..(Len(pool[n]) - 1)
      BY <3>1, <1>2, <1>5
    <3>3. i \in DOMAIN pool[n] /\ i # Len(pool[n])
      BY <3>2, <1>2
    <3>5. P[m][i] = pool[n][i]
      BY <3>1, <3>2, <1>5, Zenon
    <3>4. pool[n][i] # pool[n][Len(pool[n])]
      BY <3>3, <1>2 DEF PoolExclusive
    <3>. QED BY <2>1, <3>3, <3>4, <3>5
  <2>2. CASE m # n
    <3>1. P[m] = pool[m]
      BY <1>1, <2>2
    <3>2. pool[m][i] # pool[n][Len(pool[n])]
      BY <3>1, <2>2, <1>2 DEF PoolExclusive
    <3>. QED BY <3>1, <3>2
  <2>. QED BY <2>1, <2>2
<1>. HIDE DEF v, P
<1>8. /\ H \in Seq(Seq(Value)) /\ Len(H) = Len(heap) /\ DOMAIN H = DOMAIN heap
      /\ H[v] = contents /\ \A w \in DOMAIN heap : w = v \/ H[w] = heap[w]
  BY <1>1, <1>3, ExceptSeq
<1>. HIDE DEF H
<1>9. Takes(v, contents, H, P)
  BY <1>1, <1>3, <1>4, <1>6, <1>7, <1>8, SMTT(30) DEF Takes
<1>. QED BY <1>3, <1>9 DEF v, P, H

(* getLocals gives a vector that nobody uses, new or from the pool. *)
LEMMA TakeFacts ==
  ASSUME Inv, outcome = "running", NEW n \in 0..MaxSize, NEW contents \in Seq(Value)
  PROVE  Takes(Vector(n), contents, With(Vector(n), contents), Taken(n))
<1>1. Len(heap) \in Nat /\ DOMAIN heap = 1..Len(heap)
  BY DEF Inv, Types
<1>2. CASE Pooled(n)
  <2>1. n \in 1..MaxSize /\ pool[n] # <<>>
    BY <1>2, FramesAssumption DEF Pooled
  <2>2. /\ Vector(n) = pool[n][Len(pool[n])]
        /\ Taken(n) = [pool EXCEPT ![n] = SubSeq(@, 1, Len(@) - 1)]
    BY <1>2 DEF Vector, Taken
  <2>3. Vector(n) \in DOMAIN heap
    BY <2>1, <2>2, PooledVectorFacts
  <2>4. With(Vector(n), contents) = [heap EXCEPT ![Vector(n)] = contents]
    <3>1. ~ (Vector(n) > Len(heap))
      BY <2>3, <1>1
    <3>. QED BY <3>1, Zenon DEF With
  <2>5. Takes(pool[n][Len(pool[n])], contents, [heap EXCEPT ![pool[n][Len(pool[n])]] = contents],
              [pool EXCEPT ![n] = SubSeq(@, 1, Len(@) - 1)])
    BY <2>1, PooledVectorFacts, Zenon
  <2>. QED BY <2>2, <2>4, <2>5, Zenon
<1>3. CASE ~ Pooled(n)
  <2>1. Vector(n) = Len(heap) + 1 /\ Taken(n) = pool
    BY <1>3 DEF Vector, Taken
  <2>2. With(Vector(n), contents) = Append(heap, contents)
    <3>1. Vector(n) > Len(heap)
      BY <2>1, <1>1
    <3>. QED BY <3>1, Zenon DEF With
  <2>. QED BY <2>1, <2>2, NewVectorFacts
<1>. QED BY <1>2, <1>3

(* Taking a vector for contents without functions leaves the rest alone. *)
LEMMA TakesCarried ==
  ASSUME Inv, prog' = prog, closures' = closures, globals' = globals,
         NEW v, NEW contents, Takes(v, contents, heap', pool'),
         \A i \in DOMAIN contents : contents[i].tag # "fn"
  PROVE  Carried /\ pool' \in [1..MaxSize -> Seq(DOMAIN heap')]
<1>. USE DEF Inv
<1>1. DOMAIN heap \subseteq DOMAIN heap'
  BY DEF Takes, Types
<1>2. \A w \in DOMAIN heap : w # v => heap'[w] = heap[w]
  BY <1>1 DEF Takes
<1>3. \A k \in DOMAIN frames : Len(heap'[frames[k].vec]) = Len(heap[frames[k].vec])
  BY <1>2, FrameFacts DEF Takes
<1>4. \A c \in DOMAIN closures : \A i \in DOMAIN closures[c].ups :
        Len(heap'[closures[c].ups[i].vec]) = Len(heap[closures[c].ups[i].vec])
  BY <1>2 DEF Takes, Points, ClosurePoints, CellExists
<1>5. \A w \in DOMAIN heap' : \A i \in DOMAIN heap'[w] :
        heap'[w][i].tag = "fn" => heap'[w][i].n \in DOMAIN closures'
  BY DEF Takes, Points, Exists
<1>6. \A x \in Names : globals'[x].tag = "fn" => globals'[x].n \in DOMAIN closures'
  BY DEF Points, Exists
<1>7. \A m \in 1..MaxSize : \A i \in DOMAIN pool'[m] :
        i \in DOMAIN pool[m] /\ pool'[m][i] = pool[m][i]
  BY DEF Takes
<1>8. pool' \in [1..MaxSize -> Seq(DOMAIN heap')]
  <2>1. \A m \in 1..MaxSize : pool'[m] \in Seq(DOMAIN heap')
    <3>. TAKE m \in 1..MaxSize
    <3>1. pool'[m] \in Seq(DOMAIN heap)
      BY DEF Takes
    <3>. QED BY <3>1, <1>1, ElementOfSeq, SeqDef
  <2>. QED BY <2>1 DEF Takes
<1>9. Len(heap') >= Len(heap)
  BY DEF Takes
<1>. QED BY <1>3, <1>4, <1>5, <1>6, <1>7, <1>8, <1>9 DEF Carried, Exists

(* Appending to a sequence over T. *)
LEMMA AppendInto ==
  ASSUME NEW S, NEW T, NEW s \in Seq(S), \A i \in 1..Len(s) : s[i] \in T, NEW x \in T
  PROVE  Append(s, x) \in Seq(T)
<1>1. Len(s) \in Nat /\ DOMAIN s = 1..Len(s) /\ s = [i \in 1..Len(s) |-> s[i]]
  BY SeqDef
<1>2. s \in Seq(T)
  BY <1>1, SeqDef
<1>. QED BY <1>2, AppendProperties

(* A call, into this invoke or a nested one, whose locals are in v. *)
LEMMA PushKeeps ==
  ASSUME Inv, WellFormed(prog), outcome = "running",
         Instr.op \in {"call", "native"}, Callee.tag = "fn",
         prog' = prog, closures' = closures, globals' = globals, log' = log, outcome' = outcome,
         NEW v, NEW e \in BOOLEAN,
         Takes(v, Seeded(CalleeProto, Instr.n, Instr.val), heap', pool'),
         frames' = Append(Resumed(cur.ip + 1), Frame(closures[Callee.n].fn, Callee.n, v, e))
  PROVE  Inv'
<1>. USE DEF Inv
<1>. DEFINE n == Len(frames)
            j == cur.ip + 1
            new == Frame(closures[Callee.n].fn, Callee.n, v, e)
            contents == Seeded(CalleeProto, Instr.n, Instr.val)
<1>1. contents \in Seq(Value) /\ Len(contents) = CalleeProto.size
      /\ \A i \in DOMAIN contents : contents[i].tag # "fn"
  BY CalleeFacts, InstrFacts, SeededFacts
<1>. HIDE DEF contents
<1>2. Takes(v, contents, heap', pool')
  BY DEF contents
<1>3. Carried /\ pool' \in [1..MaxSize -> Seq(DOMAIN heap')]
  BY <1>1, <1>2, TakesCarried
<1>4. j \in DOMAIN Code
  BY InstrFacts
<1>5. /\ Resumed(j) = Moved(n, j) /\ n \in 1..Len(frames) /\ n \in Nat
      /\ j \in DOMAIN prog.protos[frames[n].fn].code
  BY <1>4, ResumedIsMoved, CurFacts
<1>. HIDE DEF j
<1>6. /\ heap' \in Seq(Seq(Value)) /\ Len(heap') >= Len(heap)
      /\ v \in DOMAIN heap' /\ heap'[v] = contents
  BY <1>2 DEF Takes
<1>7. Grows
  BY SameClosures
<1>8. Moved(n, j) \in Seq(FrameSet) /\ Len(Moved(n, j)) = n
  BY <1>5, MovedFacts
<1>9. frames' = Append(Moved(n, j), new)
  BY <1>5 DEF j
<1>. HIDE DEF n, new
<1>10. Len(frames') = n + 1 /\ frames'[n + 1] = new
       /\ DOMAIN frames' = 1..(n + 1)
       /\ \A k \in 1..n : frames'[k] = Moved(n, j)[k]
  <2>1. Moved(n, j) \in Seq({Moved(n, j)[k] : k \in 1..n} \cup {new})
    BY <1>8, SeqDef
  <2>. QED BY <1>5, <1>8, <1>9, <2>1, AppendProperties, SMTT(30)
<1>11. \A k \in 1..n : OldFrame(k) /\ frames'[k] \in FrameSet'
  BY <1>5, <1>6, <1>7, <1>10, MovedFollows
<1>12. /\ new.fn = closures[Callee.n].fn /\ new.self = Callee.n /\ new.vec = v
       /\ new.ip = 1 /\ new.entry = e
       /\ new \in FrameSet'
  BY <1>6, CalleeFacts DEF new, Frame, FrameSet
<1>13. ASSUME NEW k, k = n + 1
       PROVE  NewFrame(k)
  <2>1. /\ closures'[new.self].fn = new.fn
        /\ Len(heap'[new.vec]) = prog'.protos[new.fn].size
        /\ new.ip \in DOMAIN prog'.protos[new.fn].code
    BY <1>1, <1>6, <1>12, CalleeFacts DEF CalleeProto
  <2>2. frames'[k] = new
    BY <1>10, <1>13
  <2>3. FramePoints(frames[k])'
    BY <2>1, <2>2 DEF FramePoints
  <2>. QED BY <2>2, <2>3, <1>2, <1>12, <1>13 DEF NewFrame, Takes, n
<1>14. FramesFollow
  BY <1>5, <1>10, <1>11, <1>13 DEF FramesFollow
<1>15. frames' \in Seq(FrameSet') /\ frames' # <<>>
  <2>1. \A k \in 1..n : Moved(n, j)[k] \in FrameSet'
    BY <1>10, <1>11
  <2>2. frames' \in Seq(FrameSet')
    BY <2>1, <1>8, <1>9, <1>12, AppendInto
  <2>. QED BY <2>2, <1>5, <1>10, EmptySeq
<1>16. ClosureSet' = ClosureSet
  BY DEF ClosureSet
<1>17. Types'
  BY <1>3, <1>6, <1>15, <1>16 DEF Types
<1>. QED BY <1>3, <1>14, <1>17, Kept

(* A call within the invoke keeps the invariant. *)
LEMMA CallKeeps ==
  ASSUME Inv, WellFormed(prog), Call
  PROVE  Inv'
<1>. DEFINE contents == Seeded(CalleeProto, Instr.n, Instr.val)
            w == Vector(CalleeProto.size)
<1>1. outcome = "running" /\ Instr.op = "call" /\ Callee.tag = "fn"
  BY DEF Call, At
<1>2. contents \in Seq(Value) /\ CalleeProto.size \in 0..MaxSize
  BY <1>1, CalleeFacts, InstrFacts, SeededFacts DEF Inv
<1>3. Takes(w, contents, heap', pool')
  BY <1>1, <1>2, TakeFacts DEF Call
<1>. QED BY <1>1, <1>3, PushKeeps DEF Call

(* A call through a native, into an invoke of its own, keeps the invariant. *)
LEMMA ReenterKeeps ==
  ASSUME Inv, WellFormed(prog), Reenter
  PROVE  Inv'
<1>. DEFINE contents == Seeded(CalleeProto, Instr.n, Instr.val)
<1>1. outcome = "running" /\ Instr.op = "native" /\ Callee.tag = "fn"
  BY DEF Reenter, At
<1>2. contents \in Seq(Value)
  BY <1>1, CalleeFacts, InstrFacts, SeededFacts DEF Inv
<1>3. Takes(Len(heap) + 1, contents, heap', pool')
  BY <1>2, NewVectorFacts DEF Reenter
<1>. QED BY <1>1, <1>3, PushKeeps DEF Reenter

-----------------------------------------------------------------------------
(* Exceptions. *)

(* A nonempty set of numbers has a least one: findHandler's region exists. *)
LEMMA LeastExists ==
  ASSUME NEW S \in SUBSET Nat, S # {}
  PROVE  \E i \in S : \A j \in S : i <= j
<1>1. PICK x \in S : \A y \in S : ~ (<<y, x>> \in OpToRel(<, Nat))
  BY NatLessThanWellFounded, WFMin
<1>2. ASSUME NEW y \in S
      PROVE  x <= y
  <2>1. <<y, x>> \in Nat \X Nat /\ <<y, x>>[1] = y /\ <<y, x>>[2] = x
    OBVIOUS
  <2>2. y < x => <<y, x>> \in OpToRel(<, Nat)
    BY <2>1, Zenon DEF OpToRel
  <2>3. ~ (y < x)
    BY <1>1, <2>2, Zenon
  <2>. QED BY <2>3
<1>. QED BY <1>2

(* A nonempty bounded set of numbers has a greatest one: unwindTo's frame exists. *)
LEMMA GreatestExists ==
  ASSUME NEW n \in Nat, NEW S \in SUBSET (1..n), S # {}
  PROVE  \E i \in S : \A j \in S : j <= i
<1>. DEFINE T == {n - k : k \in S}
<1>1. T \in SUBSET Nat /\ T # {}
  <2>1. \A k \in S : n - k \in Nat
    OBVIOUS
  <2>. QED BY <2>1
<1>2. PICK x \in T : \A y \in T : x <= y
  BY <1>1, LeastExists
<1>3. PICK k \in S : x = n - k
  BY <1>2
<1>4. ASSUME NEW j \in S
      PROVE  j <= k
  <2>1. n - k <= n - j
    BY <1>2, <1>3
  <2>. QED BY <2>1
<1>. QED BY <1>4

(* The frame that catches, and the instruction its handler starts at, exist. *)
LEMMA CatcherFacts ==
  ASSUME Types, Points, WellFormed(prog), Catching # {}
  PROVE  /\ Catcher \in 1..Len(frames)
         /\ Target \in DOMAIN prog.protos[frames[Catcher].fn].code
<1>1. Len(frames) \in Nat /\ DOMAIN frames = 1..Len(frames)
  BY DEF Types
<1>2. Catcher \in Catching
  <2>1. Catching \subseteq 1..Len(frames)
    BY <1>1 DEF Catching
  <2>2. \E k \in Catching : \A j \in Catching : j <= k
    BY <1>1, <2>1, GreatestExists
  <2>. QED BY <2>2 DEF Catcher
<1>3. Catcher \in DOMAIN frames /\ Covering(Catcher) # {}
  BY <1>2 DEF Catching
<1>4. frames[Catcher].fn \in DOMAIN prog.protos /\ prog \in Progs
  BY <1>3, FrameFacts DEF Types
<1>. DEFINE hs == prog.protos[frames[Catcher].fn].handlers
<1>5. hs \in Seq([start : Nat, end : Nat, pc : Nat])
  BY <1>4, ProtoFacts
<1>6. Covering(Catcher) \subseteq DOMAIN hs /\ DOMAIN hs \subseteq Nat
  <2>1. Covering(Catcher) \subseteq DOMAIN hs
    BY DEF Covering
  <2>2. DOMAIN hs \subseteq Nat
    <3>. HIDE DEF hs
    <3>. QED BY <1>5
  <2>. QED BY <2>1, <2>2
<1>7. Region \in DOMAIN hs
  <2>1. \E i \in Covering(Catcher) : \A j \in Covering(Catcher) : i <= j
    BY <1>3, <1>6, LeastExists
  <2>. QED BY <2>1, <1>6 DEF Region
<1>8. Target \in DOMAIN prog.protos[frames[Catcher].fn].code
  BY <1>4, <1>7 DEF WellFormed, Target
<1>. QED BY <1>1, <1>3, <1>8

(* unwindTo drops the frames above the one that catches, moves that one to its
   handler and counts the invokes it leaves. *)
LEMMA UnwindIsMoved ==
  ASSUME Types, Points, WellFormed(prog), Unwind, Catching # {}
  PROVE  frames' = Moved(Catcher, Target) /\ outcome' = outcome
         /\ callDepth' = callDepth
              - Cardinality(Entries(frames) \ Entries(SubSeq(frames, 1, Catcher)))
<1>1. frames' = [SubSeq(frames, 1, Catcher) EXCEPT ![Catcher].ip = Target] /\ outcome' = outcome
      /\ callDepth' = callDepth - Cardinality(Entries(frames) \ Entries(SubSeq(frames, 1, Catcher)))
  BY DEF Unwind
<1>2. Catcher \in 1..Len(frames) /\ frames \in Seq(FrameSet) /\ Len(frames) \in Nat
  BY CatcherFacts, CurFacts DEF Types
<1>3. /\ SubSeq(frames, 1, Catcher) \in Seq(FrameSet) /\ Len(SubSeq(frames, 1, Catcher)) = Catcher
      /\ \A i \in 1..Catcher : SubSeq(frames, 1, Catcher)[i] = frames[i]
  BY <1>2, SubSeqProperties
<1>. DEFINE s == SubSeq(frames, 1, Catcher)
            c == Catcher
            t == Target
<1>4. s \in [1..c -> FrameSet] /\ c \in 1..c /\ \A i \in 1..c : s[i] = frames[i]
  <2>1. c \in Nat /\ c \in 1..c
    BY <1>2
  <2>2. s \in Seq(FrameSet) /\ Len(s) = c /\ \A i \in 1..c : s[i] = frames[i]
    BY <1>3
  <2>. HIDE DEF s, c
  <2>. QED BY <2>1, <2>2
<1>5. frames' = [s EXCEPT ![c].ip = t]
  BY <1>1
<1>. HIDE DEF s, c, t
<1>6. [s EXCEPT ![c].ip = t] = [i \in 1..c |-> IF i = c THEN [s[c] EXCEPT !.ip = t] ELSE s[i]]
  BY <1>4
<1>7. frames' = Moved(c, t)
  BY <1>4, <1>5, <1>6 DEF Moved
<1>. QED BY <1>1, <1>7 DEF c, t

(* An exception, caught or not, keeps the invariant if nothing else is disturbed. *)
LEMMA UnwindKeeps ==
  ASSUME Inv, WellFormed(prog), outcome = "running", Unwind, Carried,
         closures' = closures, globals' = globals, log' = log,
         heap' \in Seq(Seq(Value)), pool' \in [1..MaxSize -> Seq(DOMAIN heap')]
  PROVE  Inv'
<1>. USE DEF Inv
<1>1. Grows /\ ClosureSet' = ClosureSet /\ DOMAIN heap \subseteq DOMAIN heap'
  BY SameClosures DEF Carried, ClosureSet, Types
<1>2. CASE Catching = {}
  <2>1. frames' = frames /\ outcome' = "thrown"
    BY <1>2 DEF Unwind
  <2>2. FramesFollow
    BY <2>1 DEF FramesFollow, OldFrame, Points, FramePoints
  <2>3. FrameSet \subseteq FrameSet'
    BY <1>1 DEF FrameSet, Carried
  <2>4. frames' \in Seq(FrameSet')
    BY <2>1, <2>3, ElementOfSeq, SeqDef DEF Types
  <2>5. Types'
    BY <1>1, <2>1, <2>4 DEF Types, Carried
  <2>. QED BY <2>2, <2>5, Kept
<1>3. CASE Catching # {}
  <2>. DEFINE n == Catcher
  <2>1. /\ frames' = Moved(n, Target) /\ outcome' = outcome /\ n \in 1..Len(frames)
        /\ Target \in DOMAIN prog.protos[frames[n].fn].code
    BY <1>3, UnwindIsMoved, CatcherFacts
  <2>. HIDE DEF n
  <2>2. frames' \in Seq(FrameSet) /\ Len(frames') = n
    BY <2>1, MovedFacts
  <2>3. \A k \in 1..n : OldFrame(k) /\ frames'[k] \in FrameSet'
    BY <1>1, <2>1, MovedFollows DEF Carried
  <2>4. frames' \in Seq(FrameSet') /\ DOMAIN frames' = 1..n /\ frames' # <<>>
    BY <2>1, <2>2, <2>3, SeqDef, EmptySeq
  <2>5. Types'
    BY <1>1, <2>1, <2>4 DEF Types, Carried
  <2>6. FramesFollow
    BY <2>3, <2>4 DEF FramesFollow
  <2>. QED BY <2>5, <2>6, Kept
<1>. QED BY <1>2, <1>3

(* The exceptions that come with no other change keep the invariant. *)
LEMMA ThrowsKeep ==
  ASSUME Inv, WellFormed(prog), outcome = "running", Unwind,
         UNCHANGED <<prog, heap, pool, closures, globals, log>>
  PROVE  Inv'
<1>. USE DEF Inv
<1>1. prog' = prog /\ heap' = heap /\ pool' = pool /\ closures' = closures /\ globals' = globals
      /\ log' = log
  OBVIOUS
<1>2. Carried
  BY <1>1 DEF Carried, Types, Points, Exists
<1>3. heap' \in Seq(Seq(Value)) /\ pool' \in [1..MaxSize -> Seq(DOMAIN heap')]
  BY <1>1 DEF Types
<1>. QED BY <1>1, <1>2, <1>3, UnwindKeeps

(* The call beyond the limit, which has taken its locals already, keeps the
   invariant. *)
LEMMA CallTooDeepKeeps ==
  ASSUME Inv, WellFormed(prog), CallTooDeep
  PROVE  Inv'
<1>. DEFINE contents == Seeded(CalleeProto, Instr.n, Instr.val)
            w == Vector(CalleeProto.size)
<1>1. outcome = "running" /\ Callee.tag = "fn" /\ Unwind
  BY DEF CallTooDeep, At
<1>2. contents \in Seq(Value) /\ CalleeProto.size \in 0..MaxSize
      /\ \A i \in DOMAIN contents : contents[i].tag # "fn"
  BY <1>1, CalleeFacts, InstrFacts, SeededFacts DEF Inv
<1>3. Takes(w, contents, heap', pool')
  BY <1>1, <1>2, TakeFacts DEF CallTooDeep
<1>. HIDE DEF contents, w
<1>4. Carried /\ pool' \in [1..MaxSize -> Seq(DOMAIN heap')]
  BY <1>2, <1>3, TakesCarried DEF CallTooDeep
<1>5. heap' \in Seq(Seq(Value))
  BY <1>3 DEF Takes
<1>. QED BY <1>1, <1>4, <1>5, UnwindKeeps DEF CallTooDeep

-----------------------------------------------------------------------------
(* Returns. *)

(* What the pool holds when a frame has returned: nothing new, or its vector,
   and then its function was not marked. *)
LEMMA ReturnedFacts ==
  ASSUME Inv, WellFormed(prog), pool' = Returned(cur)
  PROVE  /\ pool' \in [1..MaxSize -> Seq(DOMAIN heap)]
         /\ \A m \in 1..MaxSize : \A i \in DOMAIN pool'[m] :
              \/ i \in DOMAIN pool[m] /\ pool'[m][i] = pool[m][i]
              \/ /\ m = prog.protos[cur.fn].size /\ i = Len(pool[m]) + 1
                 /\ pool'[m][i] = cur.vec /\ ~ prog.protos[cur.fn].localsEscape
<1>. USE DEF Inv
<1>. DEFINE n == prog.protos[cur.fn].size
<1>1. pool \in [1..MaxSize -> Seq(DOMAIN heap)] /\ cur.vec \in DOMAIN heap
  BY CurFacts DEF Types
<1>2. n \in 0..MaxSize
  BY CurFacts, ProtoFacts DEF Types
<1>3. CASE n > 0 /\ Len(pool[n]) < MaxBucket /\ ~ prog.protos[cur.fn].localsEscape
  <2>1. pool' = [pool EXCEPT ![n] = Append(@, cur.vec)]
    BY <1>3 DEF Returned
  <2>. HIDE DEF n
  <2>2. n \in 1..MaxSize /\ pool[n] \in Seq(DOMAIN heap)
    BY <1>1, <1>2, <1>3, FramesAssumption
  <2>3. /\ Append(pool[n], cur.vec) \in Seq(DOMAIN heap)
        /\ Len(Append(pool[n], cur.vec)) = Len(pool[n]) + 1
        /\ Append(pool[n], cur.vec)[Len(pool[n]) + 1] = cur.vec
        /\ \A i \in 1..Len(pool[n]) : Append(pool[n], cur.vec)[i] = pool[n][i]
    BY <1>1, <2>2, AppendProperties
  <2>4. pool' \in [1..MaxSize -> Seq(DOMAIN heap)]
    BY <1>1, <2>1, <2>2, <2>3
  <2>5. ASSUME NEW m \in 1..MaxSize, NEW i \in DOMAIN pool'[m]
        PROVE  \/ i \in DOMAIN pool[m] /\ pool'[m][i] = pool[m][i]
               \/ m = n /\ i = Len(pool[m]) + 1 /\ pool'[m][i] = cur.vec
    <3>1. CASE m = n
      <4>1. pool'[m] = Append(pool[n], cur.vec)
        BY <1>1, <2>1, <2>2, <3>1
      <4>2. i \in 1..(Len(pool[n]) + 1) /\ DOMAIN pool[n] = 1..Len(pool[n]) /\ Len(pool[n]) \in Nat
        BY <4>1, <2>2, <2>3
      <4>3. CASE i = Len(pool[n]) + 1
        BY <3>1, <4>1, <4>3, <2>3
      <4>4. CASE i # Len(pool[n]) + 1
        <5>1. i \in 1..Len(pool[n])
          BY <4>2, <4>4
        <5>. QED BY <3>1, <4>1, <4>2, <5>1, <2>3
      <4>. QED BY <4>3, <4>4
    <3>2. CASE m # n
      BY <1>1, <2>1, <3>2
    <3>. QED BY <3>1, <3>2
  <2>. QED BY <1>3, <2>4, <2>5 DEF n
<1>4. CASE ~ (n > 0 /\ Len(pool[n]) < MaxBucket /\ ~ prog.protos[cur.fn].localsEscape)
  <2>1. pool' = pool
    BY <1>4, Zenon DEF Returned
  <2>. QED BY <1>1, <2>1
<1>. QED BY <1>3, <1>4

(* The frames that are left after a return. *)
LEMMA ReturnFrames ==
  ASSUME Inv, Return
  PROVE  /\ frames' \in Seq(FrameSet) /\ frames' # <<>> /\ outcome' \in {"running", "returned"}
         /\ \A k \in DOMAIN frames' : k \in DOMAIN frames /\ frames'[k] = frames[k]
         /\ outcome' = "running" => Len(frames) \notin DOMAIN frames'
<1>. USE DEF Inv
<1>1. frames \in Seq(FrameSet) /\ Len(frames) \in Nat /\ Len(frames) >= 1
      /\ DOMAIN frames = 1..Len(frames)
  BY CurFacts DEF Types
<1>2. CASE Len(frames) = 1
  <2>1. frames' = frames /\ outcome' = "returned"
    BY <1>2 DEF Return
  <2>. QED BY <1>1, <2>1 DEF Types
<1>3. CASE Len(frames) # 1
  <2>. DEFINE n == Len(frames) - 1
  <2>1. frames' = SubSeq(frames, 1, n) /\ outcome' = outcome
    BY <1>3 DEF Return
  <2>2. /\ SubSeq(frames, 1, n) \in Seq(FrameSet) /\ Len(SubSeq(frames, 1, n)) = n
        /\ \A i \in 1..n : SubSeq(frames, 1, n)[i] = frames[i]
    BY <1>1, <1>3, SubSeqProperties
  <2>3. DOMAIN frames' = 1..n
    BY <2>1, <2>2
  <2>4. frames' # <<>>
    <3>1. 1 \in DOMAIN frames'
      BY <1>1, <1>3, <2>3
    <3>. QED BY <3>1
  <2>. QED BY <1>1, <2>1, <2>2, <2>3, <2>4 DEF Return, At
<1>. QED BY <1>2, <1>3

(* OpReturn keeps the invariant: the vector it recycles is one that no closure
   points into, by Escapes, and no other frame uses. *)
LEMMA ReturnKeeps ==
  ASSUME Inv, WellFormed(prog), Return
  PROVE  Inv'
<1>. USE DEF Inv
<1>1. /\ outcome = "running" /\ prog' = prog /\ heap' = heap /\ closures' = closures
      /\ globals' = globals /\ log' = log /\ pool' = Returned(cur)
  BY DEF Return, At
<1>2. FrameSet' = FrameSet /\ ClosureSet' = ClosureSet
  BY <1>1 DEF FrameSet, ClosureSet
<1>3. Types'
  BY <1>1, <1>2, ReturnFrames, ReturnedFacts DEF Types
<1>4. Points'
  <2>1. \A k \in DOMAIN frames' : FramePoints(frames[k])'
    BY <1>1, ReturnFrames DEF Points, FramePoints
  <2>. QED BY <1>1, <2>1 DEF Points, ClosurePoints, CellExists, Exists
<1>5. Escapes'
  BY <1>1, ReturnFrames DEF Escapes
<1>6. PoolExclusive'
  <2>1. \A j, k \in DOMAIN frames' : j # k => frames'[j].vec # frames'[k].vec
    BY ReturnFrames DEF PoolExclusive
  <2>2. ASSUME NEW n \in 1..MaxSize, NEW m \in 1..MaxSize,
               NEW i \in DOMAIN pool'[n], NEW j \in DOMAIN pool'[m], <<n, i>> # <<m, j>>
        PROVE  pool'[n][i] # pool'[m][j]
    <3>1. CASE /\ i \in DOMAIN pool[n] /\ pool'[n][i] = pool[n][i]
               /\ j \in DOMAIN pool[m] /\ pool'[m][j] = pool[m][j]
      BY <2>2, <3>1 DEF PoolExclusive
    <3>2. CASE /\ i \in DOMAIN pool[n] /\ pool'[n][i] = pool[n][i]
               /\ pool'[m][j] = cur.vec
      BY <1>1, <3>2, CurFacts, PoolMembers DEF cur
    <3>3. CASE /\ pool'[n][i] = cur.vec
               /\ j \in DOMAIN pool[m] /\ pool'[m][j] = pool[m][j]
      BY <1>1, <3>3, CurFacts, PoolMembers DEF cur
    <3>4. CASE /\ n = prog.protos[cur.fn].size /\ i = Len(pool[n]) + 1
               /\ m = prog.protos[cur.fn].size /\ j = Len(pool[m]) + 1
      BY <2>2, <3>4
    <3>. QED BY <1>1, <3>1, <3>2, <3>3, <3>4, ReturnedFacts
  <2>3. ASSUME NEW n \in 1..MaxSize, NEW i \in DOMAIN pool'[n], NEW k \in DOMAIN frames',
               outcome' = "running"
        PROVE  pool'[n][i] # frames'[k].vec
    <3>1. k \in DOMAIN frames /\ frames'[k] = frames[k] /\ k # Len(frames)
      BY <2>3, ReturnFrames
    <3>2. CASE i \in DOMAIN pool[n] /\ pool'[n][i] = pool[n][i]
      BY <1>1, <3>1, <3>2, PoolMembers
    <3>3. CASE pool'[n][i] = cur.vec
      BY <3>1, <3>3, CurFacts DEF PoolExclusive, cur
    <3>. QED BY <1>1, <3>2, <3>3, ReturnedFacts
  <2>4. ASSUME NEW n \in 1..MaxSize, NEW j \in DOMAIN pool'[n],
               NEW c \in DOMAIN closures, NEW i \in DOMAIN closures[c].ups
        PROVE  pool'[n][j] # closures[c].ups[i].vec
    <3>1. CASE j \in DOMAIN pool[n] /\ pool'[n][j] = pool[n][j]
      BY <1>1, <3>1, PoolMembers
    <3>2. CASE pool'[n][j] = cur.vec /\ ~ prog.protos[cur.fn].localsEscape
      BY <3>2, CurFacts DEF Escapes, cur
    <3>. QED BY <1>1, <3>1, <3>2, ReturnedFacts
  <2>. QED BY <1>1, <2>1, <2>2, <2>3, <2>4 DEF PoolExclusive, Pool
<1>. QED BY <1>3, <1>4, <1>5, <1>6

-----------------------------------------------------------------------------
(* The theorems. *)

(* The first frame is alone with its vector. *)
LEMMA InitInv ==
  ASSUME Init, WellFormed(prog)
  PROVE  Inv
<1>. DEFINE v == [i \in 1..prog.protos[1].size |-> Undefined]
<1>1. /\ prog \in Progs /\ prog.protos \in Seq(Proto) /\ 1 \in DOMAIN prog.protos
      /\ prog.protos[1].size \in 0..MaxSize /\ prog.protos[1].size \in Nat
      /\ 1 \in DOMAIN prog.protos[1].code /\ prog.protos[1].descs = <<>>
  <2>1. prog \in Progs /\ prog.protos \in Seq(Proto) /\ prog.protos # <<>>
    BY FramesAssumption DEF Init
  <2>2. 1 \in DOMAIN prog.protos
    BY <2>1
  <2>. QED BY <2>1, <2>2, ProtoFacts, FramesAssumption DEF WellFormed
<1>2. v \in Seq(Value) /\ Len(v) = prog.protos[1].size /\ \A i \in DOMAIN v : v[i] = Undefined
  <2>1. v \in [1..prog.protos[1].size -> Value] /\ DOMAIN v = 1..prog.protos[1].size
    BY DEF Value, Undefined
  <2>2. \A i \in DOMAIN v : v[i] = Undefined
    BY <2>1
  <2> HIDE DEF v
  <2>3. v \in Seq(Value)
    BY <1>1, <2>1, SeqDef
  <2>4. Len(v) = prog.protos[1].size
    BY <1>1, <2>1, <2>3, LenProperties
  <2>. QED BY <2>2, <2>3, <2>4
<1>3. heap = <<v>> /\ closures = <<[fn |-> 1, ups |-> <<>>]>> /\ frames = <<Frame(1, 1, 1, TRUE)>>
      /\ pool = [n \in 1..MaxSize |-> <<>>] /\ globals = [x \in Names |-> Undefined]
      /\ log = <<>> /\ outcome = "running"
  BY DEF Init
<1>. HIDE DEF v
<1>4. DOMAIN heap = {1} /\ heap[1] = v /\ DOMAIN frames = {1} /\ DOMAIN closures = {1}
      /\ closures[1].ups = <<>> /\ closures[1].fn = 1
      /\ frames[1].fn = 1 /\ frames[1].self = 1 /\ frames[1].vec = 1 /\ frames[1].ip = 1
  BY <1>3 DEF Frame
<1>5. Types
  <2>1. frames \in Seq(FrameSet) /\ frames # <<>>
    <3>. DEFINE f == Frame(1, 1, 1, TRUE)
    <3>1. f \in FrameSet
      BY <1>1, <1>4 DEF Frame, FrameSet
    <3>2. frames = <<f>>
      BY <1>3
    <3>. HIDE DEF f
    <3>3. frames \in Seq(FrameSet)
      BY <3>1, <3>2
    <3>4. frames # <<>>
      BY <3>2
    <3>. QED BY <3>3, <3>4
  <2>2. closures \in Seq(ClosureSet)
    <3>1. [fn |-> 1, ups |-> <<>>] \in ClosureSet
      BY <1>1 DEF ClosureSet
    <3>. QED BY <1>3, <3>1
  <2>3. heap \in Seq(Seq(Value))
    BY <1>2, <1>3
  <2>4. pool \in [1..MaxSize -> Seq(DOMAIN heap)] /\ log \in Seq(Value)
    BY <1>3
  <2>5. globals \in [Names -> Value]
    BY <1>3 DEF Value, Undefined
  <2>. QED BY <1>1, <1>3, <2>1, <2>2, <2>3, <2>4, <2>5 DEF Types
<1>6. Points
  <2>1. FramePoints(frames[1])
    BY <1>1, <1>2, <1>4 DEF FramePoints
  <2>2. ClosurePoints(closures[1])
    BY <1>1, <1>4 DEF ClosurePoints
  <2>3. \A w \in DOMAIN heap : \A i \in DOMAIN heap[w] : Exists(heap[w][i])
    BY <1>2, <1>4 DEF Exists, Undefined
  <2>4. \A x \in Names : Exists(globals[x])
    BY <1>3 DEF Exists, Undefined
  <2>5. \A k \in DOMAIN frames : FramePoints(frames[k])
    BY <1>4, <2>1
  <2>6. \A c \in DOMAIN closures : ClosurePoints(closures[c])
    BY <1>4, <2>2
  <2>. QED BY <2>3, <2>4, <2>5, <2>6 DEF Points
<1>7. PoolExclusive
  BY <1>3, <1>4 DEF PoolExclusive, Pool
<1>8. Escapes
  BY <1>4 DEF Escapes
<1>. QED BY <1>5, <1>6, <1>7, <1>8 DEF Inv

(* Every step keeps the invariant. *)
LEMMA NextKeeps ==
  ASSUME Inv, WellFormed(prog), [Next]_vars
  PROVE  Inv'
<1>1. CASE StoreConstant
  BY <1>1, StoreConstantKeeps
<1>2. CASE Field
  BY <1>2, FieldKeeps
<1>3. CASE Log
  BY <1>3, LogKeeps
<1>4. CASE Jump
  BY <1>4, JumpKeeps
<1>5. CASE MakeClosure
  BY <1>5, MakeClosureKeeps
<1>6. CASE Call
  BY <1>6, CallKeeps
<1>7. CASE Reenter
  BY <1>7, ReenterKeeps
<1>8. CASE Return
  BY <1>8, ReturnKeeps
<1>9. CASE Throw \/ NotCallable \/ ReenterTooDeep
  BY <1>9, ThrowsKeep DEF Throw, NotCallable, ReenterTooDeep, At
<1>10. CASE CallTooDeep
  BY <1>10, CallTooDeepKeeps
<1>11. CASE UNCHANGED vars
  BY <1>11, SMTT(30) DEF vars, Inv, Types, FrameSet, ClosureSet, Points, FramePoints, ClosurePoints,
     CellExists, Exists, PoolExclusive, Pool, Escapes
<1>. QED BY <1>1, <1>2, <1>3, <1>4, <1>5, <1>6, <1>7, <1>8, <1>9, <1>10, <1>11 DEF Next

(* The program does not change. *)
LEMMA SameProgram ==
  ASSUME [Next]_vars
  PROVE  prog' = prog
BY DEF Next, vars, StoreConstant, Field, Log, Jump, MakeClosure, Call, Reenter, Return, Throw,
   NotCallable, CallTooDeep, ReenterTooDeep

(* In well-formed programs the invariant always holds. *)
LEMMA PoolInvariant == Spec => [](WellFormed(prog) => Inv)
<1>1. Init => (WellFormed(prog) => Inv)
  BY InitInv
<1>2. (WellFormed(prog) => Inv) /\ [Next]_vars => (WellFormed(prog) => Inv)'
  <2>. SUFFICES ASSUME WellFormed(prog) => Inv, [Next]_vars, WellFormed(prog)'
                PROVE  Inv'
    OBVIOUS
  <2>1. WellFormed(prog)
    <3>1. prog' = prog
      BY SameProgram
    <3>. QED BY <3>1, Zenon
  <2>. QED BY <2>1, NextKeeps
<1>. QED BY <1>1, <1>2, PTL DEF Spec

(* getLocals: "the slice is exclusive to one frame at a time".  In programs that
   are as the interpreter needs them, no vector is in two frames, none is in the
   pool twice, and none in the pool is a running frame's or reached by a closure:
   what MakeClosure captured stays what the closure sees. *)
THEOREM Recycling == Spec => [](WellFormed(prog) => PoolExclusive)
<1>1. (WellFormed(prog) => Inv) => (WellFormed(prog) => PoolExclusive)
  BY DEF Inv
<1>. QED BY <1>1, PoolInvariant, PTL

-----------------------------------------------------------------------------
(* Depths. *)

DepthInv == Inv /\ DepthsCounted /\ frames[1].entry /\ callDepth \in Nat

(* Between two frames of one invoke there are at most MaxCalls calls. *)
Limited(s) == \A j, k \in DOMAIN s :
                j < k /\ (\A i \in (j + 1)..k : ~ s[i].entry) => k - j <= MaxCalls

(* What the invariant says of depths. *)
LEMMA DepthFacts ==
  ASSUME DepthInv
  PROVE  /\ MaxCalls \in Nat /\ MaxNative \in Nat /\ Limited(frames) /\ callDepth <= MaxNative
         /\ outcome = "running" => callDepth = Cardinality(Entries(frames))
BY FramesAssumption DEF DepthInv, DepthsCounted, Limited

(* The limit on calls, for two given frames of one invoke. *)
LEMMA LimitUse ==
  ASSUME DepthInv, NEW j \in DOMAIN frames, NEW k \in DOMAIN frames, j < k,
         \A i \in (j + 1)..k : ~ frames[i].entry
  PROVE  k - j <= MaxCalls
BY DepthFacts DEF Limited

(* The frames that start an invoke can be counted. *)
LEMMA EntriesFinite ==
  ASSUME NEW s, Len(s) \in Nat
  PROVE  IsFiniteSet(Entries(s)) /\ Cardinality(Entries(s)) \in Nat
<1>1. IsFiniteSet(2..Len(s))
  BY FS_Interval
<1>2. Entries(s) \subseteq 2..Len(s)
  BY DEF Entries
<1>. QED BY <1>1, <1>2, FS_Subset, FS_CardinalityType

(* Frames of the same kinds: the depths are as before. *)
LEMMA SameDepths ==
  ASSUME DepthInv, frames' \in Seq(FrameSet'), Len(frames') = Len(frames),
         \A k \in 1..Len(frames) : frames'[k].entry = frames[k].entry,
         callDepth' = callDepth, outcome = "running"
  PROVE  DepthsCounted' /\ frames'[1].entry /\ callDepth' \in Nat
<1>1. Len(frames) \in Nat /\ Len(frames) >= 1 /\ DOMAIN frames = 1..Len(frames)
      /\ DOMAIN frames' = 1..Len(frames)
  BY CurFacts DEF DepthInv, Inv, Types
<1>2. Entries(frames') = Entries(frames)
  BY <1>1 DEF Entries
<1>3. Limited(frames) => Limited(frames')
  BY <1>1 DEF Limited
<1>. QED BY <1>1, <1>2, <1>3 DEF DepthsCounted, DepthInv, Limited

(* A step within the running frame leaves the depths alone. *)
LEMMA GoesDepths ==
  ASSUME DepthInv, outcome = "running", NEW j \in DOMAIN Code,
         frames' = Resumed(j), callDepth' = callDepth, Types'
  PROVE  DepthsCounted' /\ frames'[1].entry /\ callDepth' \in Nat
<1>. DEFINE n == Len(frames)
<1>0. Types /\ Points
  BY DEF DepthInv, Inv
<1>1. /\ frames' = Moved(n, j) /\ n \in 1..n
      /\ j \in DOMAIN prog.protos[frames[n].fn].code
  BY <1>0, ResumedIsMoved
<1>2. Len(Moved(n, j)) = n /\ \A k \in 1..n : Moved(n, j)[k].entry = frames[k].entry
  BY <1>0, <1>1, MovedFacts
<1>3. frames' \in Seq(FrameSet')
  BY DEF Types
<1>. QED BY <1>1, <1>2, <1>3, SameDepths

(* The running invoke has a first frame, and none above it starts another. *)
LEMMA EntryFacts ==
  ASSUME DepthInv
  PROVE  /\ EntryOf(frames) \in 1..Len(frames) /\ frames[EntryOf(frames)].entry
         /\ \A j \in 1..Len(frames) : j > EntryOf(frames) => ~ frames[j].entry
<1>1. Len(frames) \in Nat /\ Len(frames) >= 1 /\ DOMAIN frames = 1..Len(frames) /\ frames[1].entry
  BY CurFacts DEF DepthInv, Inv, Types
<1>. DEFINE S == {k \in 1..Len(frames) : frames[k].entry}
<1>2. PICK k \in S : \A j \in S : j <= k
  <2>1. S \in SUBSET (1..Len(frames)) /\ 1 \in S
    BY <1>1
  <2>. HIDE DEF S
  <2>. QED BY <1>1, <2>1, GreatestExists
<1>3. k \in DOMAIN frames /\ frames[k].entry /\ \A j \in DOMAIN frames : j > k => ~ frames[j].entry
  BY <1>1, <1>2
<1>4. /\ EntryOf(frames) \in DOMAIN frames /\ frames[EntryOf(frames)].entry
      /\ \A j \in DOMAIN frames : j > EntryOf(frames) => ~ frames[j].entry
  BY <1>3 DEF EntryOf
<1>. QED BY <1>1, <1>4

(* One more frame on top of those there are. *)
LEMMA PushedFrames ==
  ASSUME Inv, WellFormed(prog), Instr.op \in {"call", "native"}, NEW fr,
         frames' = Append(Resumed(cur.ip + 1), fr)
  PROVE  /\ Len(frames') = Len(frames) + 1 /\ DOMAIN frames' = 1..(Len(frames) + 1)
         /\ frames'[Len(frames) + 1] = fr
         /\ \A k \in 1..Len(frames) : frames'[k].entry = frames[k].entry
<1>. DEFINE n == Len(frames)
            j == cur.ip + 1
<1>0. Types /\ Points
  BY DEF Inv
<1>1. j \in DOMAIN Code
  BY <1>0, InstrFacts
<1>2. /\ Resumed(j) = Moved(n, j) /\ n \in 1..n /\ n \in Nat
      /\ j \in DOMAIN prog.protos[frames[n].fn].code
  BY <1>0, <1>1, ResumedIsMoved, CurFacts
<1>3. Moved(n, j) \in Seq(FrameSet) /\ Len(Moved(n, j)) = n
      /\ \A k \in 1..n : Moved(n, j)[k].entry = frames[k].entry
  BY <1>0, <1>2, MovedFacts
<1>4. frames' = Append(Moved(n, j), fr)
  BY <1>2
<1>5. Moved(n, j) \in Seq(FrameSet \cup {fr})
  BY <1>3, SeqDef
<1>. HIDE DEF n, j
<1>6. /\ Len(Append(Moved(n, j), fr)) = n + 1 /\ DOMAIN Append(Moved(n, j), fr) = 1..(n + 1)
      /\ Append(Moved(n, j), fr)[n + 1] = fr
      /\ \A k \in 1..n : Append(Moved(n, j), fr)[k] = Moved(n, j)[k]
  BY <1>2, <1>3, <1>5, AppendProperties
<1>. QED BY <1>3, <1>4, <1>6 DEF n

(* A call adds a frame to the invoke, below the limit, and no invoke. *)
LEMMA CallDepths ==
  ASSUME DepthInv, WellFormed(prog), Call
  PROVE  DepthsCounted' /\ frames'[1].entry /\ callDepth' \in Nat
<1>. DEFINE n == Len(frames)
            fr == Frame(closures[Callee.n].fn, Callee.n, Vector(CalleeProto.size), FALSE)
<1>1. Inv /\ Instr.op = "call" /\ outcome = "running" /\ callDepth' = callDepth
      /\ frames' = Append(Resumed(cur.ip + 1), fr) /\ Suspended < MaxCalls
  BY DEF DepthInv, Call, At
<1>2. ~ fr.entry
  BY DEF Frame
<1>. HIDE DEF fr
<1>3. /\ Len(frames') = n + 1 /\ DOMAIN frames' = 1..(n + 1) /\ frames'[n + 1] = fr
      /\ \A k \in 1..n : frames'[k].entry = frames[k].entry
  BY <1>1, PushedFrames
<1>4. n \in Nat /\ n >= 1 /\ DOMAIN frames = 1..n
  BY <1>1, CurFacts DEF Inv, Types
<1>5. Entries(frames') = Entries(frames)
  BY <1>2, <1>3, <1>4 DEF Entries
<1>6. Limited(frames')
  <2>. SUFFICES ASSUME NEW j \in 1..(n + 1), NEW k \in 1..(n + 1), j < k,
                       \A i \in (j + 1)..k : ~ frames'[i].entry
                PROVE  k - j <= MaxCalls
    BY <1>3 DEF Limited
  <2>1. CASE k <= n
    <3>1. \A i \in (j + 1)..k : ~ frames[i].entry
      BY <1>3, <1>4, <2>1
    <3>2. j \in DOMAIN frames /\ k \in DOMAIN frames
      BY <1>4, <2>1
    <3>. QED BY <3>1, <3>2, LimitUse
  <2>2. CASE k = n + 1
    <3>. DEFINE e == EntryOf(frames)
    <3>1. e \in 1..n /\ frames[e].entry
      BY EntryFacts
    <3>2. n - e < MaxCalls
      BY <1>1 DEF Suspended
    <3>. HIDE DEF e
    <3>3. ~ (j < e)
      BY <1>3, <1>4, <2>2, <3>1
    <3>. QED BY <1>4, <2>2, <3>1, <3>2, <3>3, FramesAssumption
  <2>. QED BY <1>4, <2>1, <2>2
<1>7. DepthsCounted'
  <2>1. callDepth = Cardinality(Entries(frames)) /\ callDepth <= MaxNative
    BY <1>1, DepthFacts
  <2>2. callDepth' = Cardinality(Entries(frames')) /\ callDepth' <= MaxNative
    BY <1>1, <1>5, <2>1
  <2>. QED BY <1>6, <2>2 DEF DepthsCounted, Limited
<1>8. frames'[1].entry
  BY <1>3, <1>4 DEF DepthInv
<1>. QED BY <1>1, <1>7, <1>8 DEF DepthInv

(* A call through a native adds one invoke, below the limit. *)
LEMMA ReenterDepths ==
  ASSUME DepthInv, WellFormed(prog), Reenter
  PROVE  DepthsCounted' /\ frames'[1].entry /\ callDepth' \in Nat
<1>. DEFINE n == Len(frames)
            fr == Frame(closures[Callee.n].fn, Callee.n, Len(heap) + 1, TRUE)
<1>1. Inv /\ Instr.op = "native" /\ outcome = "running" /\ callDepth' = callDepth + 1
      /\ frames' = Append(Resumed(cur.ip + 1), fr) /\ callDepth < MaxNative
  BY DEF DepthInv, Reenter, At
<1>2. fr.entry
  BY DEF Frame
<1>. HIDE DEF fr
<1>3. /\ Len(frames') = n + 1 /\ DOMAIN frames' = 1..(n + 1) /\ frames'[n + 1] = fr
      /\ \A k \in 1..n : frames'[k].entry = frames[k].entry
  BY <1>1, PushedFrames
<1>4. n \in Nat /\ n >= 1 /\ DOMAIN frames = 1..n
  BY <1>1, CurFacts DEF Inv, Types
<1>5. Entries(frames') = Entries(frames) \cup {n + 1} /\ n + 1 \notin Entries(frames)
  BY <1>2, <1>3, <1>4 DEF Entries
<1>6. Cardinality(Entries(frames')) = Cardinality(Entries(frames)) + 1
  BY <1>4, <1>5, EntriesFinite, FS_AddElement
<1>7. Limited(frames')
  <2>. SUFFICES ASSUME NEW j \in 1..(n + 1), NEW k \in 1..(n + 1), j < k,
                       \A i \in (j + 1)..k : ~ frames'[i].entry
                PROVE  k - j <= MaxCalls
    BY <1>3 DEF Limited
  <2>1. k # n + 1
    BY <1>2, <1>3, <1>4
  <2>2. \A i \in (j + 1)..k : ~ frames[i].entry
    BY <1>3, <1>4, <2>1
  <2>3. j \in DOMAIN frames /\ k \in DOMAIN frames
    BY <1>4, <2>1
  <2>. QED BY <2>2, <2>3, LimitUse
<1>8. callDepth' = Cardinality(Entries(frames')) /\ callDepth' <= MaxNative /\ callDepth' \in Nat
  BY <1>1, <1>6, DepthFacts DEF DepthInv
<1>9. frames'[1].entry
  BY <1>3, <1>4 DEF DepthInv
<1>. QED BY <1>7, <1>8, <1>9 DEF DepthsCounted, Limited

(* A prefix of the frames, of which all but the last frames that are cut off
   were entries or not. *)
LEMMA CutDepths ==
  ASSUME DepthInv, outcome = "running", NEW n \in 1..Len(frames),
         frames' \in Seq(FrameSet'), Len(frames') = n,
         \A k \in 1..n : frames'[k].entry = frames[k].entry,
         callDepth' = callDepth - Cardinality(Entries(frames) \ Entries(frames'))
  PROVE  DepthsCounted' /\ frames'[1].entry /\ callDepth' \in Nat
<1>1. Len(frames) \in Nat /\ Len(frames) >= 1 /\ DOMAIN frames = 1..Len(frames)
      /\ DOMAIN frames' = 1..n /\ n \in Nat
  BY CurFacts DEF DepthInv, Inv, Types
<1>2. Entries(frames') \subseteq Entries(frames)
  BY <1>1 DEF Entries
<1>3. /\ IsFiniteSet(Entries(frames)) /\ IsFiniteSet(Entries(frames'))
      /\ Cardinality(Entries(frames)) \in Nat /\ Cardinality(Entries(frames')) \in Nat
  BY <1>1, EntriesFinite
<1>4. Cardinality(Entries(frames) \ Entries(frames')) =
        Cardinality(Entries(frames)) - Cardinality(Entries(frames'))
  <2>1. Entries(frames) \cap Entries(frames') = Entries(frames')
    BY <1>2
  <2>. QED BY <1>3, <2>1, FS_Difference
<1>5. callDepth = Cardinality(Entries(frames)) /\ callDepth <= MaxNative /\ MaxNative \in Nat
  BY DepthFacts
<1>6. callDepth' = Cardinality(Entries(frames')) /\ callDepth' <= MaxNative /\ callDepth' \in Nat
  <2>. DEFINE a == Cardinality(Entries(frames))
              b == Cardinality(Entries(frames'))
  <2>1. Cardinality(Entries(frames')) <= Cardinality(Entries(frames))
    BY <1>2, <1>3, FS_Subset
  <2>2. callDepth' = a - (a - b) /\ a \in Nat /\ b \in Nat /\ b <= a /\ a <= MaxNative
    BY <1>3, <1>4, <1>5, <2>1
  <2>. HIDE DEF a, b
  <2>3. callDepth' = b /\ b <= MaxNative
    BY <2>2, <1>5
  <2>. QED BY <2>2, <2>3 DEF b
<1>7. Limited(frames')
  <2>. SUFFICES ASSUME NEW j \in 1..n, NEW k \in 1..n, j < k,
                       \A i \in (j + 1)..k : ~ frames'[i].entry
                PROVE  k - j <= MaxCalls
    BY <1>1 DEF Limited
  <2>1. \A i \in (j + 1)..k : ~ frames[i].entry
    BY <1>1
  <2>2. j \in DOMAIN frames /\ k \in DOMAIN frames
    BY <1>1
  <2>. QED BY <2>1, <2>2, LimitUse
<1>. QED BY <1>1, <1>6, <1>7 DEF DepthInv, DepthsCounted, Limited

(* An exception uncounts exactly the invokes it leaves. *)
LEMMA UnwindDepths ==
  ASSUME DepthInv, WellFormed(prog), outcome = "running", Unwind, Types'
  PROVE  DepthsCounted' /\ frames'[1].entry /\ callDepth' \in Nat
<1>. DEFINE n == Catcher
<1>0. Types /\ Points
  BY DEF DepthInv, Inv
<1>1. CASE Catching = {}
  <2>1. frames' = frames /\ outcome' = "thrown" /\ callDepth' = 0
    BY <1>1 DEF Unwind
  <2>2. Limited(frames')
    BY <2>1, DepthFacts
  <2>. QED BY <2>1, <2>2, DepthFacts DEF DepthInv, DepthsCounted, Limited
<1>2. CASE Catching # {}
  <2>1. /\ frames' = Moved(n, Target) /\ n \in 1..Len(frames)
        /\ Target \in DOMAIN prog.protos[frames[n].fn].code
        /\ callDepth' = callDepth - Cardinality(Entries(frames) \ Entries(SubSeq(frames, 1, n)))
    BY <1>0, <1>2, UnwindIsMoved, CatcherFacts
  <2>. HIDE DEF n
  <2>2. Len(frames') = n /\ \A k \in 1..n : frames'[k].entry = frames[k].entry
    BY <1>0, <2>1, MovedFacts
  <2>3. frames' \in Seq(FrameSet')
    BY DEF Types
  <2>4. Entries(SubSeq(frames, 1, n)) = Entries(frames')
    <3>1. frames \in Seq(FrameSet) /\ Len(frames) \in Nat
      BY CurFacts, <1>0 DEF Types
    <3>2. Len(SubSeq(frames, 1, n)) = n /\ \A i \in 1..n : SubSeq(frames, 1, n)[i] = frames[i]
      BY <2>1, <3>1, SubSeqProperties
    <3>3. n \in Nat
      BY <2>1, <3>1
    <3>. QED BY <2>2, <3>2, <3>3 DEF Entries
  <2>. QED BY <2>1, <2>2, <2>3, <2>4, CutDepths
<1>. QED BY <1>1, <1>2

(* A return uncounts the invoke if its frame is the first of one. *)
LEMMA ReturnDepths ==
  ASSUME DepthInv, WellFormed(prog), Return, Types'
  PROVE  DepthsCounted' /\ frames'[1].entry /\ callDepth' \in Nat
<1>. DEFINE n == Len(frames) - 1
<1>0. Types /\ outcome = "running"
  BY DEF DepthInv, Inv, Return, At
<1>1. frames \in Seq(FrameSet) /\ Len(frames) \in Nat /\ Len(frames) >= 1
      /\ DOMAIN frames = 1..Len(frames) /\ frames[1].entry
  BY CurFacts DEF DepthInv, Inv, Types
<1>2. CASE Len(frames) = 1
  <2>1. frames' = frames /\ callDepth' = callDepth
    BY <1>2 DEF Return
  <2>2. Limited(frames') /\ callDepth' <= MaxNative
    BY <2>1, DepthFacts
  <2>3. outcome' = "returned"
    BY <1>2 DEF Return
  <2>. QED BY <1>1, <2>1, <2>2, <2>3 DEF DepthInv, DepthsCounted, Limited
<1>3. CASE Len(frames) # 1
  <2>1. frames' = SubSeq(frames, 1, n) /\ outcome' = outcome /\ callDepth' = LeftInvoke(cur)
    BY <1>3 DEF Return
  <2>2. n \in 1..Len(frames) /\ n \in Nat
    BY <1>1, <1>3
  <2>3. Len(frames') = n /\ \A k \in 1..n : frames'[k].entry = frames[k].entry
    BY <1>1, <2>1, <2>2, SubSeqProperties
  <2>4. callDepth' = callDepth - Cardinality(Entries(frames) \ Entries(frames'))
    <3>1. CASE cur.entry
      <4>1. Entries(frames) \ Entries(frames') = {Len(frames)}
        BY <1>1, <1>3, <2>3, <3>1 DEF Entries, cur
      <4>2. Cardinality({Len(frames)}) = 1
        BY FS_Singleton
      <4>. QED BY <2>1, <3>1, <4>1, <4>2 DEF LeftInvoke
    <3>2. CASE ~ cur.entry
      <4>1. Entries(frames) \ Entries(frames') = {}
        BY <1>1, <1>3, <2>3, <3>2 DEF Entries, cur
      <4>2. Cardinality({}) = 0
        BY FS_EmptySet
      <4>3. callDepth' = callDepth /\ callDepth \in Nat
        BY <2>1, <3>2 DEF LeftInvoke, DepthInv
      <4>. QED BY <4>1, <4>2, <4>3
    <3>. QED BY <3>1, <3>2
  <2>5. frames' \in Seq(FrameSet')
    BY DEF Types
  <2>. HIDE DEF n
  <2>. QED BY <1>0, <2>2, <2>3, <2>4, <2>5, CutDepths
<1>. QED BY <1>2, <1>3

(* Every step keeps the depths. *)
LEMMA NextDepths ==
  ASSUME DepthInv, WellFormed(prog), [Next]_vars
  PROVE  DepthInv'
<1>1. Inv /\ Types /\ Points
  BY DEF DepthInv, Inv
<1>2. Inv' /\ Types'
  BY <1>1, NextKeeps DEF Inv
<1>3. CASE StoreConstant \/ Field \/ Log \/ MakeClosure
  <2>1. outcome = "running" /\ cur.ip + 1 \in DOMAIN Code /\ frames' = Resumed(cur.ip + 1)
        /\ callDepth' = callDepth
    BY <1>1, <1>3, InstrFacts DEF StoreConstant, Field, Log, MakeClosure, At
  <2>. QED BY <1>1, <1>2, <2>1, GoesDepths DEF DepthInv
<1>4. CASE Jump
  <2>1. outcome = "running" /\ Instr.n \in DOMAIN Code /\ frames' = Resumed(Instr.n)
        /\ callDepth' = callDepth
    BY <1>1, <1>4, InstrFacts DEF Jump, At
  <2>. QED BY <1>1, <1>2, <2>1, GoesDepths DEF DepthInv
<1>5. CASE Call
  BY <1>2, <1>5, CallDepths DEF DepthInv
<1>6. CASE Reenter
  BY <1>2, <1>6, ReenterDepths DEF DepthInv
<1>7. CASE Return
  BY <1>2, <1>7, ReturnDepths DEF DepthInv
<1>8. CASE Throw \/ NotCallable \/ CallTooDeep \/ ReenterTooDeep
  <2>1. outcome = "running" /\ Unwind
    BY <1>8 DEF Throw, NotCallable, CallTooDeep, ReenterTooDeep, At
  <2>. QED BY <1>2, <2>1, UnwindDepths DEF DepthInv
<1>9. CASE UNCHANGED vars
  <2>1. frames' = frames /\ callDepth' = callDepth /\ outcome' = outcome
    BY <1>9 DEF vars
  <2>. QED BY <1>2, <2>1 DEF DepthInv, DepthsCounted
<1>. QED BY <1>3, <1>4, <1>5, <1>6, <1>7, <1>8, <1>9 DEF Next

(* At the start there is one frame and nothing nested. *)
LEMMA InitDepths ==
  ASSUME Init, WellFormed(prog)
  PROVE  DepthInv
<1>1. Inv
  BY InitInv
<1>. DEFINE f == Frame(1, 1, 1, TRUE)
<1>2. frames = <<f>> /\ f.entry /\ callDepth = 0
  BY DEF Init, Frame
<1>. HIDE DEF f
<1>3. Len(frames) = 1 /\ DOMAIN frames = {1} /\ frames[1].entry
  BY <1>2
<1>4. Entries(frames) = {}
  BY <1>3 DEF Entries
<1>5. DepthsCounted
  <2>1. Cardinality(Entries(frames)) = 0 /\ MaxNative \in Nat
    BY <1>4, FS_EmptySet, FramesAssumption
  <2>2. callDepth = Cardinality(Entries(frames)) /\ callDepth <= MaxNative
    BY <1>2, <2>1
  <2>3. ~ \E j, k \in DOMAIN frames : j < k
    BY <1>3
  <2>. QED BY <2>2, <2>3 DEF DepthsCounted
<1>. QED BY <1>1, <1>2, <1>3, <1>5 DEF DepthInv

(* maxCallDepth and maxNativeReentry: callDepth counts the nested invokes that
   are under way, after returns and after exceptions that passed some of them,
   and neither limit is exceeded. *)
THEOREM Depths == Spec => [](WellFormed(prog) => DepthsCounted)
<1>1. Init => (WellFormed(prog) => DepthInv)
  BY InitDepths
<1>2. (WellFormed(prog) => DepthInv) /\ [Next]_vars => (WellFormed(prog) => DepthInv)'
  <2>. SUFFICES ASSUME WellFormed(prog) => DepthInv, [Next]_vars, WellFormed(prog)'
                PROVE  DepthInv'
    OBVIOUS
  <2>1. WellFormed(prog)
    <3>1. prog' = prog
      BY SameProgram
    <3>. QED BY <3>1, Zenon
  <2>. QED BY <2>1, NextDepths
<1>3. (WellFormed(prog) => DepthInv) => (WellFormed(prog) => DepthsCounted)
  BY DEF DepthInv
<1>. QED BY <1>1, <1>2, <1>3, PTL DEF Spec
=============================================================================
