-------------------------------- MODULE Dispatch --------------------------------
(***************************************************************************)
(* Property operations on objects, functions, proxies and typed arrays:    *)
(* OpGetProp, OpSetProp, OpNew and their neighbours in internal/vm/vm.go,  *)
(* the lookups of internal/value/object.go and function.go, and the        *)
(* builtins that reach them.  The own data properties of an object are the *)
(* map that ShapeCacheProofs proves slots, tombstones and inline caches    *)
(* implement, so GetOwnCached is GetOwn and SetCached is Set here.         *)
(* Getters, setters, traps and constructors are script functions: calls is *)
(* the stack of those that run, and any operation may happen in them.      *)
(***************************************************************************)
EXTENDS TypedArrays, FiniteSets

CONSTANTS PlainNames, \* property names of the script
          Functions,  \* functions of the script
          get, set,   \* the names of the traps
          Prims,      \* primitive values of properties
          Getters, Setters, Constructors,   \* the uses scripts make of Functions
          Numbers,    \* what is written to elements
          Indices,    \* numeric keys
          Undefined, Pending, Hung, Missing, NoFunction, NoProxy, NoView, NoBytes,
          Scripts,    \* [heap, uses, ops]: what literals have built, and the bound on
                      \* what follows: kinds of operations and how many of them
          MaxObjects, \* bound: objects
          MaxCalls    \* bound: script functions running at one time

VARIABLES script,  \* the member of Scripts that runs
          heap,    \* heap[o]: the Object with address o
          fprops,  \* Function.Props: prototype and Symbol.hasInstance
          calls,   \* [of, fn, this, args]: v.Call of a script function
          answer,  \* [of, is]: the last operation, and what it pushed
          born,    \* history: who constructed an object, in which epoch of its prototype
          epoch,   \* history: assignments to the prototype of a function
          steps

vars == <<script, heap, fprops, calls, answer, born, epoch, steps>>

Names == PlainNames \cup {get, set}
Nil == 0

Held == Prims \cup Functions \cup Int   \* by data properties, elements among them
Pairs == [Get : Functions \cup {NoFunction}, Set : Functions \cup {NoFunction}]   \* Accessor
Origins == [by : Functions, epoch : Nat]

(* All elements of a view lie in the bytes under it; one made behind their end has none. *)
Lies(view, bytes) ==
  /\ bytes # NoBytes
  /\ view.length > 0 => view.offset + BytesPerElem(view.kind) * view.length <= Len(bytes)

(* The Object o among the objects h; addresses refer to what is there. *)
ObjectTyped(h, o) ==
  LET r == h[o]
  IN /\ r = [data |-> r.data, accessors |-> r.accessors, proto |-> r.proto,
             proxy |-> r.proxy, view |-> r.view, bytes |-> r.bytes]
     /\ r.data \in [DOMAIN r.data -> Held] /\ DOMAIN r.data \subseteq Names \cup Int
     /\ r.accessors \in [DOMAIN r.accessors -> Pairs] /\ DOMAIN r.accessors \subseteq Names
     /\ r.proto \in 0..Len(h)
     /\ r.proxy \in [target : 1..Len(h), handler : 1..Len(h)] \cup {NoProxy}
     /\ r.view \in [kind : Kinds, buffer : 1..Len(h), offset : Nat, length : Int] \cup {NoView}
     /\ r.view # NoView => Lies(r.view, h[r.view.buffer].bytes)
     /\ r.bytes \in Seq(0..(Base - 1)) \cup {NoBytes}
HeapTyped(h) == /\ Len(h) \in Nat /\ h = [o \in 1..Len(h) |-> h[o]]
                /\ \A o \in 1..Len(h) : ObjectTyped(h, o)

(* No name is an index, nothing is what stands for nothing, and literals build
   well-typed objects. *)
ASSUME DispatchAssumption ==
  /\ MaxObjects \in Nat /\ MaxCalls \in Nat
  /\ Getters \cup Setters \cup Constructors \subseteq Functions
  /\ Numbers \subseteq Int /\ Indices \subseteq Int /\ Names \cap Int = {} /\ Prims \cap Int = {}
  /\ NoFunction \notin Functions
  /\ NoProxy \notin [target : Nat, handler : Nat]
  /\ NoView \notin [kind : Kinds, buffer : Nat, offset : Nat, length : Int]
  /\ NoBytes \notin Seq(0..(Base - 1))
  /\ Missing \notin Origins \cup Pairs \cup Prims \cup Functions \cup Nat
  /\ Missing \notin [kind : {"data"}, val : Held]
  /\ Missing \notin [kind : {"accessor"}, get : Functions \cup {NoFunction},
                     set : Functions \cup {NoFunction}]
  /\ \A s \in Scripts : Len(s.heap) \in 1..MaxObjects /\ HeapTyped(s.heap) /\ s.ops \in Nat

Objects == DOMAIN heap
FNames == {"prototype", "hasInstance"}
NoData == [n \in {} |-> Undefined]

NewBareObject == [data |-> NoData, accessors |-> [n \in {} |-> Missing], proto |-> Nil,
                  proxy |-> NoProxy, view |-> NoView, bytes |-> NoBytes]
ObjectPrototype == 1
NewObject == [NewBareObject EXCEPT !.proto = ObjectPrototype]

Init ==
  /\ script \in Scripts /\ heap = script.heap
  /\ fprops = [f \in Functions |-> [n \in FNames |-> Missing]]
  /\ calls = <<>> /\ answer = [of |-> <<"start">>, is |-> Undefined]
  /\ born = [o \in DOMAIN heap |-> Missing]
  /\ epoch = [f \in Functions |-> 0] /\ steps = 0

-----------------------------------------------------------------------------
(* Lookups. *)

Owns(o, n) == n \in DOMAIN heap[o].data
Accessor(o, n) == IF n \in DOMAIN heap[o].accessors THEN heap[o].accessors[n] ELSE Missing

(* The walk p = p.proto, as far as it can go without coming round. *)
Protos == [o \in Objects |-> heap[o].proto]
Walk(o) ==
  LET up[k \in 0..Len(Protos)] == IF k = 0 THEN o ELSE IF up[k - 1] = Nil THEN Nil ELSE Protos[up[k - 1]]
  IN up
Endless(o) == Walk(o)[Len(heap)] # Nil

(* The first object of the walk that is in the set, or Nil. *)
FirstOf(o, objs) ==
  LET walk == Walk(o)
      hits == {k \in DOMAIN walk : walk[k] # Nil /\ walk[k] \in objs}
  IN IF hits = {} THEN Nil ELSE walk[CHOOSE k \in hits : \A j \in hits : k <= j]

LookupAccessor(o, n) ==
  LET at == FirstOf(o, {p \in DOMAIN heap : Accessor(p, n) # Missing})
  IN IF at = Nil THEN Missing ELSE Accessor(at, n)

GetInherited(o, n) ==
  LET at == FirstOf(o, {p \in DOMAIN heap \ {o} : Owns(p, n)})
  IN IF at = Nil THEN Undefined ELSE heap[at].data[n]
LookedUp(o, n) == IF Owns(o, n) THEN heap[o].data[n] ELSE GetInherited(o, n)   \* Object.Get

Stored(o, n, v) == [heap EXCEPT ![o].data =                                    \* Object.Set
                      [m \in DOMAIN @ \cup {n} |-> IF m = n THEN v ELSE @[m]]]
WithAccessor(o, n, g, s) == [heap EXCEPT ![o].accessors =
                      [m \in DOMAIN @ \cup {n} |-> IF m = n THEN [Get |-> g, Set |-> s] ELSE @[m]]]

-----------------------------------------------------------------------------
(* What an operation leaves behind. *)

Running == answer.is # Hung
Step == Running /\ steps < script.ops /\ steps' = steps + 1

Answers(of, v) == answer' = [of |-> of, is |-> v] /\ UNCHANGED calls
Call(of, fn, this, args) ==
  /\ Len(calls) < MaxCalls
  /\ calls' = Append(calls, [of |-> of, fn |-> fn, this |-> this, args |-> args])
  /\ answer' = [of |-> of, is |-> Pending]
(* Nothing follows: a walk over a closed chain that finds nothing never ends, and
   nothing recovers from a Go panic. *)
Hangs(of) == Answers(of, Hung)

History == UNCHANGED <<born, epoch>>
Reads == UNCHANGED <<heap, fprops>> /\ History
Writes(h) == heap' = h /\ UNCHANGED fprops /\ History

Trap(o, name) ==
  LET p == heap[o].proxy
  IN IF p # NoProxy /\ Owns(p.handler, name) /\ heap[p.handler].data[name] \in Functions
       THEN heap[p.handler].data[name] ELSE NoFunction
Behind(o) == IF heap[o].proxy = NoProxy THEN o ELSE heap[o].proxy.target

(* Slip: accessors are looked up before own data. *)
ResolveAccessorFirst(of, o, n) ==
  LET acc == LookupAccessor(o, n)
  IN IF acc # Missing THEN IF acc.Get = NoFunction THEN Answers(of, Undefined) ELSE Call(of, acc.Get, o, <<>>)
     ELSE IF Endless(o) THEN Hangs(of) ELSE Answers(of, LookedUp(o, n))

(* The fast path and the slow path of OpGetProp. *)
Resolve(of, o, n) ==
  LET acc == IF Accessor(o, n) # Missing THEN Accessor(o, n) ELSE LookupAccessor(o, n)
  IN IF Accessor(o, n) = Missing /\ Owns(o, n) THEN Answers(of, heap[o].data[n])
     ELSE IF acc # Missing
            THEN IF acc.Get = NoFunction THEN Answers(of, Undefined) ELSE Call(of, acc.Get, o, <<>>)
     ELSE IF Endless(o) THEN Hangs(of) ELSE Answers(of, GetInherited(o, n))

OpGetProp(o, n) ==
  LET of == <<"get", o, n>>
  IN /\ Step /\ Reads
     /\ IF Trap(o, get) # NoFunction
          THEN Call(of, Trap(o, get), heap[o].proxy.handler, <<Behind(o), n, o>>)
          ELSE Resolve(of, Behind(o), n)

OpSetProp(o, n, v) ==
  LET of == <<"set", o, n, v>>  obj == Behind(o)  acc == LookupAccessor(Behind(o), n)
  IN /\ Step
     /\ \/ /\ Trap(o, set) # NoFunction /\ Reads
           /\ Call(of, Trap(o, set), heap[o].proxy.handler, <<obj, n, v, o>>)
        \/ /\ Trap(o, set) = NoFunction /\ acc # Missing /\ Reads
           /\ IF acc.Set = NoFunction THEN Answers(of, v) ELSE Call(of, acc.Set, obj, <<v>>)
        \/ /\ Trap(o, set) = NoFunction /\ acc = Missing
           /\ IF Endless(obj) THEN Reads /\ Hangs(of) ELSE Writes(Stored(obj, n, v)) /\ Answers(of, v)

(* Object and class literals, and Object.defineProperty. *)
Half(o, n, half) == IF Accessor(o, n) = Missing THEN NoFunction ELSE Accessor(o, n)[half]

OpDefineGetter(o, n, f) == /\ Step /\ Writes(WithAccessor(o, n, f, Half(o, n, "Set")))
                           /\ Answers(<<"getter", o, n, f>>, o)
OpDefineSetter(o, n, f) == /\ Step /\ Writes(WithAccessor(o, n, Half(o, n, "Get"), f))
                           /\ Answers(<<"setter", o, n, f>>, o)
DefineAccessorProperty(o, n, g, s) == /\ Step /\ Writes(WithAccessor(o, n, g, s))
                                      /\ Answers(<<"accessor", o, n, g, s>>, o)
DefineDataProperty(o, n, v) == /\ Step /\ Writes(Stored(o, n, v))
                               /\ Answers(<<"define", o, n, v>>, o)

(* Object.Delete answers whether there was an own data property. *)
OpDeleteProp(o, n) ==
  /\ Step /\ Writes([heap EXCEPT ![o].data = [m \in DOMAIN @ \ {n} |-> @[m]]])
  /\ Answers(<<"delete", o, n>>, Owns(o, n))

OpIn(o, n) == Step /\ Reads /\ Answers(<<"in", o, n>>, Owns(o, n))   \* as Object.Get reports it

(* Object.keys, values and entries. *)
ObjectEntries(o) == Step /\ Reads /\ Answers(<<"entries", o>>, heap[o].data)

SetPrototypeOf(o, p) == /\ Step
                        /\ heap' = [heap EXCEPT ![o].proto = p]
                        /\ born' = [born EXCEPT ![o] = Missing] /\ UNCHANGED <<fprops, epoch>>
                        /\ Answers(<<"setProto", o, p>>, o)

(* The own data properties of s, as OpObjectSpread and Object.assign copy them. *)
Copied(data, s) == [n \in DOMAIN data \cup DOMAIN heap[s].data |->
                      IF Owns(s, n) THEN heap[s].data[n] ELSE data[n]]
ObjectAssign(o, s) == /\ Step /\ Writes([heap EXCEPT ![o].data = Copied(@, s)])
                      /\ Answers(<<"assign", o, s>>, o)

-----------------------------------------------------------------------------
(* Objects are made. *)

Allocates(objects) ==
  /\ Len(heap) + Len(objects) <= MaxObjects
  /\ heap' = heap \o objects
  /\ born' = born \o [k \in DOMAIN objects |-> Missing]
  /\ UNCHANGED epoch
Next1 == Len(heap) + 1

ObjectCreate(p) == /\ Step /\ Allocates(<<[NewBareObject EXCEPT !.proto = p]>>) /\ UNCHANGED fprops
                   /\ Answers(<<"create", p>>, Next1)
ProxyConstruct(t, h) ==
  /\ Step /\ Allocates(<<[NewBareObject EXCEPT !.proxy = [target |-> t, handler |-> h]]>>)
  /\ UNCHANGED fprops /\ Answers(<<"proxy", t, h>>, Next1)
OpObjectSpread(s) ==
  /\ Step /\ Allocates(<<[NewObject EXCEPT !.data = Copied(NoData, s)]>>) /\ UNCHANGED fprops
  /\ Answers(<<"spread", s>>, Next1)

(* FunctionGetProp makes the prototype of a function when it is first read. *)
Lacks(f) == fprops[f]["prototype"] = Missing
PrototypeOf(f) == IF Lacks(f) THEN Next1 ELSE fprops[f]["prototype"]
(* Slip: the object made is not remembered. *)
MadePrototypeLost(f) == fprops
MadePrototype(f) == IF Lacks(f) THEN [fprops EXCEPT ![f]["prototype"] = Next1] ELSE fprops

FunctionGetProp(f) ==
  /\ Step /\ fprops' = MadePrototype(f)
  /\ IF Lacks(f) THEN Allocates(<<NewObject>>) ELSE UNCHANGED <<heap, born, epoch>>
  /\ Answers(<<"fget", f>>, PrototypeOf(f))

FunctionSetProp(f, n, v) ==
  /\ Step /\ fprops' = [fprops EXCEPT ![f][n] = v]
  /\ epoch' = IF n = "prototype" THEN [epoch EXCEPT ![f] = @ + 1] ELSE epoch
  /\ UNCHANGED <<heap, born>> /\ Answers(<<"fset", f, n, v>>, v)

(* OpNew, and OpNewApply and Reflect.construct with another rule for results. *)
Constructs(op, f) ==
  LET inst == [NewObject EXCEPT !.proto =
                 IF PrototypeOf(f) \in Objects \cup {Next1} THEN PrototypeOf(f) ELSE @]
      fresh == IF Lacks(f) THEN <<NewObject, inst>> ELSE <<inst>>
      this == Len(heap) + Len(fresh)
  IN /\ Step /\ fprops' = MadePrototype(f)
     /\ Len(heap) + Len(fresh) <= MaxObjects
     /\ heap' = heap \o fresh
     /\ born' = born \o [k \in DOMAIN fresh |->
                           IF k = Len(fresh) THEN [by |-> f, epoch |-> epoch[f]] ELSE Missing]
     /\ UNCHANGED epoch
     /\ Call(<<op, f>>, f, this, <<>>)
OpNew(f) == Constructs("new", f)
ReflectConstruct(f) == Constructs("construct", f)

JsInstanceof(v, f) ==
  /\ v \in Objects /\ fprops[f]["prototype"] \in Objects
  /\ \E k \in 1..Len(heap) : Walk(v)[k] = fprops[f]["prototype"]

OpInstanceof(v, f) ==
  LET of == <<"instanceof", v, f>>  hook == fprops[f]["hasInstance"]
  IN /\ Step /\ Reads
     /\ IF hook \in Functions THEN Call(of, hook, f, <<v>>)
        ELSE IF /\ v \in Objects /\ Endless(v) /\ fprops[f]["prototype"] \in Objects
                /\ ~JsInstanceof(v, f)
               THEN Hangs(of)
        ELSE Answers(of, JsInstanceof(v, f))

-----------------------------------------------------------------------------
(* A script function returns to the operation that called it, or throws; the
   exception ends in whichever frame below catches it. *)

Top == calls[Len(calls)]
Truthy(v) == v # Undefined   \* of the values here
Gives(c, v) ==
  CASE c.of[1] = "get" -> v
    [] c.of[1] = "set" -> c.of[4]
    [] c.of[1] = "instanceof" -> Truthy(v)
    [] c.of[1] = "new" -> IF v \in Objects \cup Functions THEN v ELSE c.this
    [] c.of[1] = "construct" -> IF v \in Objects THEN v ELSE c.this

FunctionReturns(v) ==
  /\ Running /\ calls # <<>> /\ Reads /\ UNCHANGED steps
  /\ calls' = SubSeq(calls, 1, Len(calls) - 1)
  /\ answer' = [of |-> Top.of, is |-> Gives(Top, v)]

FunctionThrows ==
  /\ Running /\ calls # <<>> /\ Reads /\ UNCHANGED steps
  /\ \E k \in 0..(Len(calls) - 1) : calls' = SubSeq(calls, 1, k)
  /\ answer' = [of |-> <<"throw">>, is |-> Undefined]

-----------------------------------------------------------------------------
(* Brackets, and the hooks of typed arrays in them. *)

IsView(o) == heap[o].view # NoView
BytesOf(view) == heap[view.buffer].bytes
ElementOf(o, i) == ReadElem(BytesOf(heap[o].view), heap[o].view.kind, Slot(heap[o].view, i))

GetByVal(o, k) ==
  LET of == IF k \in Indices THEN <<"element", o, k>> ELSE <<"getByVal", o, k>>
  IN /\ Step /\ Reads
     /\ IF k \in Indices /\ IsView(o) /\ InView(heap[o].view, k) THEN Answers(of, ElementOf(o, k))
        ELSE IF ~Owns(o, k) /\ Endless(o) /\ FirstOf(o, {p \in DOMAIN heap : Owns(p, k)}) = Nil
               THEN Hangs(of)
        ELSE Answers(of, LookedUp(o, k))

IndexedWrite(o, i, v) ==
  LET view == heap[o].view
  IN IF InView(view, i)
       THEN [heap EXCEPT ![view.buffer].bytes = WriteElem(@, view.kind, Slot(view, i), v)]
       ELSE heap
SetElement(o, i, v) == /\ IsView(o) /\ Step /\ Writes(IndexedWrite(o, i, v))
                       /\ Answers(<<"element", o, i, v>>, v)
SetByVal(o, n, v) == /\ Step /\ Writes(Stored(o, n, v)) /\ Answers(<<"setByVal", o, n, v>>, v)

MakeTypedArrayView(kind, b, offset, length) ==
  [NewObject EXCEPT !.view = [kind |-> kind, buffer |-> b, offset |-> offset, length |-> length]]
NewBuffer(n) == [NewObject EXCEPT !.bytes = ZeroBytes(n)]

(* new Kind(buffer, offset) and new Kind(n). *)
ViewOfBuffer(kind, b, offset) ==
  /\ heap[b].bytes # NoBytes /\ Step /\ UNCHANGED fprops
  /\ Allocates(<<MakeTypedArrayView(kind, b, offset, LengthLeft(heap[b].bytes, kind, offset))>>)
  /\ Answers(<<"view", kind, b, offset>>, Next1)
TypedArrayConstruct(kind, n) ==
  /\ Step /\ UNCHANGED fprops
  /\ Allocates(<<NewBuffer(n * BytesPerElem(kind)), MakeTypedArrayView(kind, Next1, 0, n)>>)
  /\ Answers(<<"view", kind, n>>, Next1 + 1)

(* set and slice also mirror the elements into named slots. *)
Mirrored(data, off, source) ==
  [n \in DOMAIN data \cup {off + k - 1 : k \in DOMAIN source} |->
     IF n \in Int /\ n - off + 1 \in DOMAIN source THEN source[n - off + 1] ELSE data[n]]

TypedArraySet(o, source, off) ==
  LET of == <<"elements", o, off, source>>
      view == heap[o].view
  IN /\ IsView(o) /\ Step
     /\ IF \E k \in DOMAIN source : Panics(view.kind, Slot(view, off + k - 1))
          THEN Reads /\ Hangs(of)
          ELSE /\ Writes([heap EXCEPT ![view.buffer].bytes = Filled(@, view, source, off),
                                     ![o].data = Mirrored(@, off, source)])
               /\ Answers(of, Undefined)

TypedArraySlice(o, start, end) ==
  LET view == heap[o].view
      elems == SliceElems(BytesOf(view), view, start, end)
      buffer == NewBuffer(Len(elems) * BytesPerElem(view.kind))
      copy == MakeTypedArrayView(view.kind, Next1, 0, Len(elems))
  IN /\ IsView(o) /\ Step /\ UNCHANGED fprops
     /\ Allocates(<<[buffer EXCEPT !.bytes = Filled(@, copy.view, elems, 0)],
                    [copy EXCEPT !.data = Mirrored(@, 0, elems)]>>)
     /\ Answers(<<"slice", o, start, end>>, Next1 + 1)

-----------------------------------------------------------------------------
Values == Prims \cup Functions

Access ==
  \E o \in Objects, n \in PlainNames :
    \/ OpGetProp(o, n) \/ OpDeleteProp(o, n) \/ OpIn(o, n) \/ GetByVal(o, n)
    \/ \E v \in Values : OpSetProp(o, n, v) \/ DefineDataProperty(o, n, v) \/ SetByVal(o, n, v)
    \/ \E f \in Getters : OpDefineGetter(o, n, f)
    \/ \E f \in Setters : OpDefineSetter(o, n, f)
    \/ \E p \in Getters \cup {NoFunction}, q \in Setters \cup {NoFunction} :
         DefineAccessorProperty(o, n, p, q)

Structure ==
  \/ \E o \in Objects : ObjectEntries(o)
  \/ \E o, s \in Objects : ObjectAssign(o, s) \/ ProxyConstruct(o, s)
  \/ \E o \in Objects, p \in Objects \cup {Nil} : SetPrototypeOf(o, p)
  \/ \E p \in Objects \cup {Nil} : ObjectCreate(p)
  \/ \E s \in Objects : OpObjectSpread(s)

Construction ==
  \E f \in Constructors :
    \/ FunctionGetProp(f) \/ OpNew(f) \/ ReflectConstruct(f)
    \/ \E v \in Prims \cup Objects : FunctionSetProp(f, "prototype", v) \/ OpInstanceof(v, f)
    \/ \E g \in Functions : FunctionSetProp(f, "hasInstance", g)

Elements ==
  \/ \E o \in Objects, i \in Indices :
       \/ GetByVal(o, i)
       \/ \E v \in Numbers : SetElement(o, i, v) \/ TypedArraySet(o, <<v, 1>>, i)
       \/ \E e \in Indices : TypedArraySlice(o, i, e)
  \/ \E kind \in Kinds : TypedArrayConstruct(kind, 2)
  \/ \E kind \in Kinds, b \in Objects, offset \in {0, 2, 4} : ViewOfBuffer(kind, b, offset)

Next ==
  /\ UNCHANGED script
  /\ \/ "access" \in script.uses /\ Access
     \/ "structure" \in script.uses /\ Structure
     \/ "construction" \in script.uses /\ Construction
     \/ "elements" \in script.uses /\ Elements
     \/ \E v \in Values \cup Objects \cup {Undefined} : FunctionReturns(v)
     \/ FunctionThrows

Spec == Init /\ [][Next]_vars

-----------------------------------------------------------------------------
(* The Go types of the fields, and views that lie within buffers. *)
TypeOK ==
  /\ script \in Scripts /\ Len(heap) \in 1..MaxObjects /\ HeapTyped(heap)
  /\ fprops \in [Functions -> [FNames -> Prims \cup Functions \cup Objects \cup {Missing}]]
  /\ \A f \in Functions : fprops[f]["prototype"] \in Prims \cup Objects \cup {Missing}
  /\ Len(calls) <= MaxCalls /\ \A k \in DOMAIN calls : calls[k].fn \in Functions
  /\ born \in [Objects -> Origins \cup {Missing}] /\ epoch \in [Functions -> Nat] /\ steps \in Nat

(* What a script takes for granted of new and instanceof, while nobody assigns
   to the prototype of the function or changes that of the object: objects made
   by one function share one prototype, the one that FunctionGetProp makes on
   first use, and are its instances. *)
InstancesRecognised ==
  \A o \in Objects : born[o] # Missing =>
    LET f == born[o].by
    IN /\ born[o].epoch = epoch[f] /\ fprops[f]["prototype"] \in Objects \cup {Missing} => JsInstanceof(o, f)
       /\ \A p \in Objects : born[p] = born[o] => heap[p].proto = heap[o].proto

(* Objects keep their types, and instances their prototype. *)
ObjectsSound == TypeOK /\ InstancesRecognised

(* Widths and places of elements. *)
Wrapped(kind, v) ==
  IF kind = "Uint8" THEN v % Base
  ELSE CHOOSE z \in (-(Words \div 2))..(Words \div 2 - 1) : (v - z) % Words = 0
Aligned(view) == view.offset % BytesPerElem(view.kind) = 0
BytesUnder(o, i) ==
  LET w == BytesPerElem(heap[o].view.kind)
  IN {<<heap[o].view.buffer, heap[o].view.offset + w * i + k>> : k \in 0..(w - 1)}
(* An element that is written through any view, in range and aligned, reads back
   as the value wrapped to its width, and no other element changes that does not
   lie on the bytes of this one, of this buffer or of another. *)
ElementsReadBack ==
  [][\A o \in Objects, i \in Indices, v \in Numbers :
       /\ steps' # steps /\ answer'.of = <<"element", o, i, v>>
       /\ InView(heap[o].view, i) /\ Aligned(heap[o].view)
       => /\ ElementOf(o, i)' = Wrapped(heap[o].view.kind, v)
          /\ \A p \in Objects, j \in Indices :
               IsView(p) /\ BytesUnder(p, j) \cap BytesUnder(o, i) = {} /\ Aligned(heap[p].view)
                 => ElementOf(p, j)' = ElementOf(p, j)]_vars

(* Where dotted access can be what OrdinaryObjects promises: chains end, no proxy
   stands for a proxy, no object has a data property and an accessor of one name,
   the data property that is read, if inherited, or written is not one that lies
   in front of an accessor, and no elements have been mirrored into what is listed. *)
Masked(o, n) ==
  LET at == FirstOf(o, {p \in DOMAIN heap : Owns(p, n) \/ Accessor(p, n) # Missing})
  IN at # Nil /\ Owns(at, n) /\ LookupAccessor(at, n) # Missing

Conforming(of) ==
  /\ \A o \in Objects : ~Endless(o) /\ heap[Behind(o)].proxy = NoProxy
  /\ \A o \in Objects, n \in Names : ~(Owns(o, n) /\ Accessor(o, n) # Missing)
  /\ of[1] = "get" => Owns(Behind(of[2]), of[3]) \/ ~Masked(Behind(of[2]), of[3])
  /\ of[1] = "set" => ~Masked(Behind(of[2]), of[3])
  /\ of[1] = "entries" => DOMAIN heap[of[2]].data \subseteq Names

PropertyOf(o, n) ==
  IF Accessor(o, n) # Missing
    THEN [kind |-> "accessor", get |-> Accessor(o, n).Get, set |-> Accessor(o, n).Set]
  ELSE IF Owns(o, n) THEN [kind |-> "data", val |-> heap[o].data[n]]
  ELSE Missing

O == INSTANCE OrdinaryObjects WITH
       props <- [o \in Objects |-> [n \in Names |-> PropertyOf(o, n)]],
       proto <- Protos,
       proxy <- [o \in Objects |-> heap[o].proxy],
       NoProperty <- Missing

(* There every operation does and answers what OrdinaryObjects says, and calls the
   getter, setter or trap it says with the receiver it says, although OpGetProp
   looks at own accessors, own data, inherited accessors and inherited data in
   turn, and OpSetProp at accessors first. *)
ImplementsOrdinary == [][Conforming(answer'.of) => O!Next]_vars
=============================================================================
