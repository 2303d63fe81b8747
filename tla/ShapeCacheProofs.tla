--------------------------- MODULE ShapeCacheProofs ---------------------------
(***************************************************************************)
(* Machine-checked facts about ShapeCache, for every set of objects, names *)
(* and values and every assignment of names to bytecode sites.             *)
(***************************************************************************)
EXTENDS ShapeCache, SequenceTheorems, WellFoundedInduction, TLAPS

(* Extending a shape by a name it lacks keeps every existing layout and every
   remembered transition, and yields a shape of the heap with one slot more. *)
LEMMA ExtendHeap ==
  ASSUME TypeOK, TransitionsExtend, NEW s \in Shapes, NEW n \in Names
  PROVE  LET h == Extended(s, n)
             t == Child(s, n)
         IN /\ h \in Seq(ShapeRecord)
            /\ Len(h) >= Len(shapes)
            /\ \A p \in Shapes : /\ h[p].propNames = shapes[p].propNames
                                 /\ h[p].propsByName = shapes[p].propsByName
                                 /\ \A m \in Names :
                                      \/ h[p].transitions[m] = shapes[p].transitions[m]
                                      \/ p = s /\ m = n
            /\ t \in 1..Len(h)
            /\ h[s].transitions[n] = t
            /\ \/ h = shapes /\ shapes[s].transitions[n] = t /\ t # NilShape
               \/ /\ Len(h) = Len(shapes) + 1 /\ t = Len(h)
                  /\ shapes[s].transitions[n] = NilShape
                  /\ h[t] = NewShape(s, n)
<1> DEFINE h == Extended(s, n)
           t == Child(s, n)
<1>1. shapes \in Seq(ShapeRecord) /\ s \in 1..Len(shapes)
  BY DEF TypeOK, Shapes
<1>2. CASE shapes[s].transitions[n] # NilShape
  <2>1. h = shapes /\ t = shapes[s].transitions[n]
    BY <1>2 DEF Extended, Child
  <2>2. t \in 1..Len(shapes)
    BY <1>1, <1>2, <2>1 DEF TransitionsExtend, Shapes
  <2>. QED BY <1>1, <1>2, <2>1, <2>2 DEF NilShape, Shapes
<1>3. CASE shapes[s].transitions[n] = NilShape
  <2> DEFINE k == Len(shapes) + 1
             g == [shapes EXCEPT ![s].transitions[n] = k]
  <2>1. h = Append(g, NewShape(s, n))
    BY <1>3 DEF Extended
  <2>2. shapes[s] \in ShapeRecord
    BY <1>1
  <2>3. NewShape(s, n) \in ShapeRecord
    <3>1. /\ shapes[s].propNames \in Seq(Names)
          /\ shapes[s].propsByName \in [Names -> Nat]
      BY <2>2 DEF ShapeRecord
    <3>2. Append(shapes[s].propNames, n) \in Seq(Names)
      BY <3>1
    <3>3. [shapes[s].propsByName EXCEPT ![n] = Len(shapes[s].propNames) + 1]
            \in [Names -> Nat]
      BY <3>1
    <3>4. NoTransitions \in [Names -> Nat]
      BY DEF NoTransitions, NilShape
    <3>. QED BY <3>2, <3>3, <3>4 DEF NewShape, ShapeRecord
  <2>4. k \in Nat
    BY <1>1
  <2>5. /\ g \in Seq(ShapeRecord) /\ Len(g) = Len(shapes)
        /\ \A p \in 1..Len(shapes) :
             g[p] = IF p = s THEN [shapes[s] EXCEPT !.transitions[n] = k]
                             ELSE shapes[p]
    <3> DEFINE e == [shapes[s] EXCEPT !.transitions[n] = k]
    <3>1. e \in ShapeRecord
      BY <2>2, <2>4 DEF ShapeRecord
    <3>2. g = [shapes EXCEPT ![s] = e]
      OBVIOUS
    <3>3. /\ [shapes EXCEPT ![s] = e] \in Seq(ShapeRecord)
          /\ Len([shapes EXCEPT ![s] = e]) = Len(shapes)
          /\ \A p \in 1..Len(shapes) :
               [shapes EXCEPT ![s] = e][p] = IF p = s THEN e ELSE shapes[p]
      <4> HIDE DEF e
      <4>. QED BY <1>1, <3>1, ExceptSeq
    <3>. QED BY <3>2, <3>3
  <2>6. /\ h \in Seq(ShapeRecord) /\ Len(h) = k /\ h[k] = NewShape(s, n)
        /\ \A p \in 1..Len(shapes) : h[p] = g[p]
    BY <2>1, <2>3, <2>5
  <2>7. h[s].transitions[n] = k
    BY <2>2, <2>5, <2>6, <1>1 DEF ShapeRecord
  <2>8. t = k
    BY <2>7 DEF Child
  <2>9. \A p \in Shapes : /\ h[p].propNames = shapes[p].propNames
                          /\ h[p].propsByName = shapes[p].propsByName
                          /\ \A m \in Names :
                               \/ h[p].transitions[m] = shapes[p].transitions[m]
                               \/ p = s /\ m = n
    <3>1. TAKE p \in Shapes
    <3>2. p \in 1..Len(shapes) /\ shapes[p] \in ShapeRecord
      BY <1>1 DEF Shapes
    <3>3. h[p] = IF p = s THEN [shapes[s] EXCEPT !.transitions[n] = k]
                          ELSE shapes[p]
      BY <2>5, <2>6, <3>2
    <3> HIDE DEF h
    <3>. QED BY <2>2, <3>2, <3>3 DEF ShapeRecord
  <2>. QED BY <1>1, <1>3, <2>6, <2>7, <2>8, <2>9, <2>4
<1>. QED BY <1>2, <1>3

(* What every step does to the heap: it may add shapes and transitions, and
   changes none that is there. *)
HeapGrows ==
  /\ Shapes \subseteq Shapes'
  /\ \A s \in Shapes :
       /\ shapes'[s].propNames = shapes[s].propNames
       /\ shapes'[s].propsByName = shapes[s].propsByName
       /\ \A n \in Names : shapes[s].transitions[n] # NilShape =>
            shapes'[s].transitions[n] = shapes[s].transitions[n]

HeapOK == LayoutsConsistent /\ TransitionsExtend /\ ParentsExist

(* Extend keeps the heap well formed when the name is not in the layout yet. *)
LEMMA ExtendKeepsHeap ==
  ASSUME TypeOK, HeapOK, NEW s \in Shapes, NEW n \in Names,
         ~ Owns(s, n), shapes' = Extended(s, n),
         NEW t, t = Child(s, n)
  PROVE  /\ shapes' \in Seq(ShapeRecord)
         /\ HeapGrows
         /\ HeapOK'
         /\ t \in Shapes' /\ t # NilShape
         /\ shapes'[s].transitions[n] = t
         /\ ExtendsBy(s, n, t)'
<1> DEFINE names == shapes[s].propNames
<1>1. shapes \in Seq(ShapeRecord) /\ Shapes = 1..Len(shapes) /\ 1 \in Shapes
  BY DEF TypeOK, Shapes
<1>2. /\ shapes' \in Seq(ShapeRecord)
      /\ Len(shapes') >= Len(shapes)
      /\ \A p \in Shapes : /\ shapes'[p].propNames = shapes[p].propNames
                            /\ shapes'[p].propsByName = shapes[p].propsByName
                            /\ \A m \in Names :
                                 \/ shapes'[p].transitions[m] = shapes[p].transitions[m]
                                 \/ p = s /\ m = n
      /\ t \in 1..Len(shapes')
      /\ shapes'[s].transitions[n] = t
      /\ \/ shapes' = shapes /\ shapes[s].transitions[n] = t /\ t # NilShape
         \/ /\ Len(shapes') = Len(shapes) + 1 /\ t = Len(shapes')
            /\ shapes[s].transitions[n] = NilShape
            /\ shapes'[t] = NewShape(s, n)
  BY ExtendHeap DEF HeapOK
<1>3. Shapes' = 1..Len(shapes')
  BY <1>2 DEF Shapes
<1>4. /\ shapes[s] \in ShapeRecord
      /\ names \in Seq(Names)
      /\ shapes[s].propsByName \in [Names -> Nat]
      /\ Len(names) \in Nat
  <2>1. shapes[s] \in ShapeRecord
    BY <1>1
  <2>. QED BY <2>1 DEF ShapeRecord
<1>5. HeapGrows
  BY <1>1, <1>2, <1>3 DEF HeapGrows, NilShape
<1>6. t \in Shapes' /\ t # NilShape
  BY <1>2, <1>3, <1>1 DEF NilShape
<1>7. CASE shapes' = shapes /\ shapes[s].transitions[n] = t
  <2>1. Shapes' = Shapes /\ \A p, m : PropIndex(p, m)' = PropIndex(p, m)
    BY <1>7 DEF Shapes, PropIndex
  <2>2. LayoutsConsistent'
    BY <1>7, <2>1 DEF HeapOK, LayoutsConsistent, LayoutConsistent, Owns
  <2>3. TransitionsExtend'
    BY <1>7, <2>1 DEF HeapOK, TransitionsExtend, ExtendsBy, Owns
  <2>4. ParentsExist'
    BY <1>7, <2>1 DEF HeapOK, ParentsExist
  <2>5. ExtendsBy(s, n, t)'
    BY <1>1, <1>2, <1>6, <2>1, <2>3 DEF TransitionsExtend
  <2>. QED BY <1>2, <1>5, <1>6, <2>2, <2>3, <2>4, <2>5 DEF HeapOK
<1>8. CASE /\ Len(shapes') = Len(shapes) + 1 /\ t = Len(shapes')
           /\ shapes[s].transitions[n] = NilShape
           /\ shapes'[t] = NewShape(s, n)
  <2>1. /\ shapes'[t].propNames = Append(names, n)
        /\ shapes'[t].propsByName = [shapes[s].propsByName EXCEPT ![n] = Len(names) + 1]
        /\ \A m \in Names : shapes'[t].transitions[m] = NilShape
    BY <1>8 DEF NewShape, NoTransitions
  <2>2. Shapes' = Shapes \cup {t} /\ t \notin Shapes
    BY <1>1, <1>3, <1>8
  <2>3. /\ Len(Append(names, n)) = Len(names) + 1
        /\ Append(names, n)[Len(names) + 1] = n
        /\ \A i \in 1..Len(names) : Append(names, n)[i] = names[i]
    BY <1>4, AppendProperties
  <2>4. \A m \in Names : PropIndex(t, m)' = IF m = n THEN Len(names) + 1
                                                  ELSE PropIndex(s, m)
    BY <2>1, <1>4 DEF PropIndex
  <2>5. \A p \in Shapes : \A m : PropIndex(p, m)' = PropIndex(p, m)
    BY <1>2 DEF PropIndex
  <2>6. ExtendsBy(s, n, t)'
    BY <1>2, <2>1, <2>4, <2>5 DEF ExtendsBy, Owns
  <2>7. LayoutsConsistent'
    <3> SUFFICES ASSUME NEW p \in Shapes' PROVE LayoutConsistent(p)'
      BY DEF LayoutsConsistent
    <3>1. CASE p \in Shapes
      <4>1. LayoutConsistent(p)
        BY <3>1 DEF HeapOK, LayoutsConsistent
      <4>2. shapes'[p].propNames = shapes[p].propNames
        BY <3>1, <1>2
      <4>. QED BY <3>1, <4>1, <4>2, <2>5 DEF LayoutConsistent, Owns
    <3>2. CASE p = t
      <4>1. LayoutConsistent(s)
        BY DEF HeapOK, LayoutsConsistent
      <4>2. /\ \A m \in Names : Owns(s, m) => /\ PropIndex(s, m) \in 1..Len(names)
                                             /\ names[PropIndex(s, m)] = m
            /\ \A i \in 1..Len(names) : PropIndex(s, names[i]) = i
        BY <4>1 DEF LayoutConsistent
      <4>3. \A i \in 1..Len(names) : names[i] \in Names /\ names[i] # n
        BY <1>4, <4>2 DEF Owns, NoSlot
      <4> DEFINE q == Append(names, n)
                 f == shapes'[p].propsByName
      <4>4. \A m \in Names : f[m] = IF m = n THEN Len(names) + 1 ELSE PropIndex(s, m)
        BY <3>2, <2>4 DEF PropIndex
      <4>5. shapes'[p].propNames = q
        BY <3>2, <2>1
      <4>6. \A m \in Names : f[m] # NoSlot => f[m] \in 1..Len(q) /\ q[f[m]] = m
        <5>1. TAKE m \in Names
        <5>2. HAVE f[m] # NoSlot
        <5>3. Len(q) = Len(names) + 1 /\ q[Len(names) + 1] = n
          BY <2>3
        <5>4. CASE m = n
          BY <5>3, <5>4, <4>4, <1>4
        <5>5. CASE m # n
          <6>1. f[m] = PropIndex(s, m) /\ f[m] \in 1..Len(names) /\ names[f[m]] = m
            BY <5>2, <5>5, <4>2, <4>4 DEF Owns
          <6>2. q[f[m]] = names[f[m]]
            BY <6>1, <2>3
          <6>. QED BY <6>1, <6>2, <5>3, <1>4
        <5>. QED BY <5>4, <5>5
      <4>7. \A i \in 1..Len(q) : f[q[i]] = i
        BY SMTT(30), <4>2, <4>3, <4>4, <2>3, <1>4
      <4> HIDE DEF q
      <4>. QED BY <4>5, <4>6, <4>7 DEF LayoutConsistent, Owns, PropIndex
    <3>. QED BY <3>1, <3>2, <2>2
  <2>8. TransitionsExtend'
    <3> SUFFICES ASSUME NEW p \in Shapes', NEW m \in Names,
                        NEW u, u = shapes'[p].transitions[m], u # NilShape
                 PROVE  u \in Shapes' /\ ExtendsBy(p, m, u)'
      BY DEF TransitionsExtend, ExtendsBy, Owns, PropIndex
    <3>1. CASE p = s /\ m = n
      BY <3>1, <1>2, <1>6, <2>6
    <3>2. CASE p # t /\ ~ (p = s /\ m = n)
      <4>1. p \in Shapes /\ shapes[p].transitions[m] = u
        BY <3>2, <1>2, <2>2
      <4>2. u \in Shapes /\ ExtendsBy(p, m, u)
        BY <4>1 DEF HeapOK, TransitionsExtend
      <4>3. /\ shapes'[u].propNames = shapes[u].propNames
            /\ shapes'[p].propNames = shapes[p].propNames
        BY <4>1, <4>2, <1>2
      <4>4. ExtendsBy(p, m, u)'
        BY <4>1, <4>2, <4>3, <2>5 DEF ExtendsBy, Owns
      <4>. QED BY <4>2, <4>4, <2>2
    <3>3. p # t
      BY <2>1
    <3>. QED BY <3>1, <3>2, <3>3
  <2>9. ParentsExist'
    <3> SUFFICES ASSUME NEW p \in Shapes' \ {1}
                 PROVE  \E q \in Shapes', m \in Names : shapes'[q].transitions[m] = p
      BY DEF ParentsExist
    <3>1. CASE p = t
      BY <3>1, <1>2, <2>2
    <3>2. CASE p \in Shapes
      <4>1. PICK q \in Shapes, m \in Names : shapes[q].transitions[m] = p
        BY <3>2 DEF HeapOK, ParentsExist
      <4>2. p # NilShape
        BY <3>2, <1>1 DEF NilShape
      <4>. QED BY <4>1, <4>2, <1>5, <2>2 DEF HeapGrows
    <3>. QED BY <3>1, <3>2, <2>2
  <2>. QED BY <1>2, <1>5, <1>6, <2>6, <2>7, <2>8, <2>9 DEF HeapOK
<1>. QED BY <1>2, <1>7, <1>8

-----------------------------------------------------------------------------
(* Objects. *)

(* The part of TypeOK and Coherent a write to an object can disturb. *)
ObjectsOK ==
  /\ shapes \in Seq(ShapeRecord) /\ 1 \in Shapes
  /\ shape \in [Objs -> Shapes]
  /\ values \in [Objs -> Seq(Vals)]
  /\ deleted \in [Objs -> [made : BOOLEAN, names : SUBSET Names]]
  /\ HeapOK
  /\ VectorsFit

(* o.n = v as the rest of the program sees it: this own read changes to v, and
   no other own read of any object changes. *)
Writes(o, n, v) ==
  \A p \in Objs, m \in Names :
    GetOwn(p, m)' = IF p = o /\ m = n THEN v ELSE GetOwn(p, m)

(* A step that leaves the heap alone leaves it well formed. *)
LEMMA HeapKept ==
  ASSUME HeapOK, UNCHANGED shapes
  PROVE  HeapOK' /\ HeapGrows
<1>1. Shapes' = Shapes /\ \A s, m : PropIndex(s, m)' = PropIndex(s, m)
  BY DEF Shapes, PropIndex
<1>2. LayoutsConsistent'
  BY <1>1 DEF HeapOK, LayoutsConsistent, LayoutConsistent, Owns
<1>3. TransitionsExtend'
  BY <1>1 DEF HeapOK, TransitionsExtend, ExtendsBy, Owns
<1>4. ParentsExist'
  BY <1>1 DEF HeapOK, ParentsExist
<1>5. HeapGrows
  BY DEF HeapGrows, Shapes
<1>. QED BY <1>2, <1>3, <1>4, <1>5 DEF HeapOK

(* Writing slot i of o's vector keeps every other slot and every other vector. *)
LEMMA SlotWritten ==
  ASSUME values \in [Objs -> Seq(Vals)], NEW o \in Objs, NEW v \in Vals,
         NEW i \in 1..Len(values[o]),
         values' = [values EXCEPT ![o][i] = v]
  PROVE  /\ values' \in [Objs -> Seq(Vals)]
         /\ \A p \in Objs : /\ Len(values'[p]) = Len(values[p])
                            /\ \A j \in 1..Len(values[p]) :
                                 values'[p][j] = IF p = o /\ j = i THEN v ELSE values[p][j]
<1> DEFINE w == [values[o] EXCEPT ![i] = v]
<1>1. values' = [values EXCEPT ![o] = w]
  OBVIOUS
<1>2. values[o] \in Seq(Vals)
  OBVIOUS
<1>3. /\ w \in Seq(Vals) /\ Len(w) = Len(values[o])
      /\ \A j \in 1..Len(values[o]) : w[j] = IF j = i THEN v ELSE values[o][j]
  BY <1>2, ExceptSeq
<1> HIDE DEF w
<1>. QED BY <1>1, <1>3

(* Appending to o's vector adds one slot and keeps the rest. *)
LEMMA SlotAppended ==
  ASSUME values \in [Objs -> Seq(Vals)], NEW o \in Objs, NEW v \in Vals,
         values' = [values EXCEPT ![o] = Append(@, v)]
  PROVE  /\ values' \in [Objs -> Seq(Vals)]
         /\ Len(values'[o]) = Len(values[o]) + 1
         /\ values'[o][Len(values[o]) + 1] = v
         /\ \A j \in 1..Len(values[o]) : values'[o][j] = values[o][j]
         /\ \A p \in Objs : p # o => values'[p] = values[p]
<1> DEFINE w == Append(values[o], v)
<1>1. values' = [values EXCEPT ![o] = w]
  OBVIOUS
<1>2. values[o] \in Seq(Vals)
  OBVIOUS
<1>3. /\ w \in Seq(Vals) /\ Len(w) = Len(values[o]) + 1
      /\ w[Len(values[o]) + 1] = v
      /\ \A j \in 1..Len(values[o]) : w[j] = values[o][j]
  BY <1>2, AppendProperties
<1> HIDE DEF w
<1>. QED BY <1>1, <1>3

(* A write in place, through the slow path or a cached slot. *)
LEMMA UpdateInPlace ==
  ASSUME ObjectsOK, NEW o \in Objs, NEW n \in Names, NEW v \in Vals,
         Owns(shape[o], n),
         values' = [values EXCEPT ![o][PropIndex(shape[o], n)] = v],
         UNCHANGED <<shapes, shape>>,
         deleted' = [deleted EXCEPT ![o].names = @ \ {n}]
  PROVE  ObjectsOK' /\ Writes(o, n, v)
<1> DEFINE i == PropIndex(shape[o], n)
<1>1. /\ Shapes' = Shapes
      /\ \A s, m : PropIndex(s, m)' = PropIndex(s, m)
  BY DEF Shapes, PropIndex
<1>2. /\ shape[o] \in Shapes
      /\ LayoutConsistent(shape[o])
      /\ Len(values[o]) = Len(shapes[shape[o]].propNames)
  BY DEF ObjectsOK, HeapOK, LayoutsConsistent, VectorsFit
<1>3. i \in 1..Len(values[o])
  BY <1>2 DEF LayoutConsistent
<1>4. /\ values' \in [Objs -> Seq(Vals)]
      /\ \A p \in Objs : /\ Len(values'[p]) = Len(values[p])
                         /\ \A j \in 1..Len(values[p]) :
                              values'[p][j] = IF p = o /\ j = i THEN v ELSE values[p][j]
  BY <1>3, SlotWritten DEF ObjectsOK
<1>5. /\ deleted' \in [Objs -> [made : BOOLEAN, names : SUBSET Names]]
      /\ \A p \in Objs : Tombs(p)' = IF p = o THEN Tombs(p) \ {n} ELSE Tombs(p)
  BY DEF ObjectsOK, Tombs
<1>6. HeapOK'
  BY HeapKept DEF ObjectsOK
<1>7. VectorsFit'
  BY <1>1, <1>4, <1>5 DEF ObjectsOK, VectorsFit, Owns, PropIndex
<1>8. Writes(o, n, v)
  <2> SUFFICES ASSUME NEW p \in Objs, NEW m \in Names
               PROVE  GetOwn(p, m)' = IF p = o /\ m = n THEN v ELSE GetOwn(p, m)
    BY DEF Writes
  <2> DEFINE k == PropIndex(shape[p], m)
  <2>1. /\ LayoutConsistent(shape[p])
        /\ Len(values[p]) = Len(shapes[shape[p]].propNames)
    BY DEF ObjectsOK, HeapOK, LayoutsConsistent, VectorsFit
  <2>2. k # NoSlot => /\ k \in 1..Len(values[p])
                      /\ shapes[shape[p]].propNames[k] = m
    BY <2>1 DEF LayoutConsistent, Owns
  <2>3. p = o /\ m # n /\ k # NoSlot => k # i
    BY <1>2, <2>2 DEF LayoutConsistent, Owns
  <2>4. GetOwn(p, m)' = IF m \in Tombs(p)' \/ k = NoSlot THEN Missing ELSE values'[p][k]
    BY DEF GetOwn, Owns, PropIndex
  <2>5. GetOwn(p, m) = IF m \in Tombs(p) \/ k = NoSlot THEN Missing ELSE values[p][k]
    BY DEF GetOwn, Owns
  <2>6. p = o /\ m = n => k = i /\ k # NoSlot /\ m \notin Tombs(p)'
    BY <1>5 DEF Owns
  <2> HIDE DEF k, i
  <2>. QED BY <1>4, <1>5, <2>2, <2>3, <2>4, <2>5, <2>6
<1>. QED BY <1>1, <1>4, <1>5, <1>6, <1>7, <1>8 DEF ObjectsOK

(* A read in the next state, spelled out. *)
LEMMA NextGetOwn ==
  ASSUME NEW p, NEW m
  PROVE  GetOwn(p, m)' = IF m \in Tombs(p)' \/ shapes'[shape'[p]].propsByName[m] = NoSlot
                         THEN Missing
                         ELSE values'[p][shapes'[shape'[p]].propsByName[m]]
BY DEF GetOwn, Owns, PropIndex

(* A write of a new name: the object moves to an extension of its shape, which
   Extend made just now or a SetCache cell remembers, and the vector grows. *)
LEMMA AppendProperty ==
  ASSUME ObjectsOK, NEW o \in Objs, NEW n \in Names, NEW v \in Vals,
         NEW s, s = shape[o], NEW t,
         shapes' \in Seq(ShapeRecord), HeapGrows, HeapOK',
         t \in Shapes', ExtendsBy(s, n, t)',
         shape' = [shape EXCEPT ![o] = t],
         values' = [values EXCEPT ![o] = Append(@, v)],
         deleted' = [deleted EXCEPT ![o].names = @ \ {n}]
  PROVE  ObjectsOK' /\ Writes(o, n, v)
<1>1. /\ \A p \in Objs : shape[p] \in Shapes /\ shape[p] \in Shapes'
      /\ \A r \in Shapes : \A m : PropIndex(r, m)' = PropIndex(r, m)
      /\ \A r \in Shapes : shapes'[r].propNames = shapes[r].propNames
  BY DEF ObjectsOK, HeapGrows, PropIndex
<1>2. /\ values' \in [Objs -> Seq(Vals)]
      /\ Len(values'[o]) = Len(values[o]) + 1
      /\ values'[o][Len(values[o]) + 1] = v
      /\ \A j \in 1..Len(values[o]) : values'[o][j] = values[o][j]
      /\ \A p \in Objs : p # o => values'[p] = values[p]
  BY SlotAppended DEF ObjectsOK
<1>3. /\ deleted' \in [Objs -> [made : BOOLEAN, names : SUBSET Names]]
      /\ \A p \in Objs : /\ Tombs(p)' = IF p = o THEN Tombs(p) \ {n} ELSE Tombs(p)
                         /\ deleted'[p].made = deleted[p].made
  BY DEF ObjectsOK, Tombs
<1>4. shape' \in [Objs -> Shapes'] /\ shape'[o] = t
      /\ \A p \in Objs : p # o => shape'[p] = shape[p]
  BY <1>1 DEF ObjectsOK
<1>5. /\ s \in Shapes
      /\ Len(values[o]) = Len(shapes[s].propNames)
      /\ Len(values[o]) \in Nat
  BY DEF ObjectsOK, VectorsFit
<1>6. /\ ~ Owns(s, n)
      /\ shapes'[t].propNames = Append(shapes[s].propNames, n)
      /\ \A m \in Names : PropIndex(t, m)' =
           IF m = n THEN Len(values[o]) + 1 ELSE PropIndex(s, m)
  BY <1>1, <1>5 DEF ExtendsBy, Owns
<1>7. Len(shapes'[t].propNames) = Len(values[o]) + 1
  <2>1. shapes[s].propNames \in Seq(Names)
    <3>1. shapes[s] \in ShapeRecord
      BY <1>5 DEF ObjectsOK, Shapes
    <3>. QED BY <3>1 DEF ShapeRecord
  <2>. QED BY <2>1, <1>5, <1>6, AppendProperties
<1>8. VectorsFit'
  <2> SUFFICES ASSUME NEW p \in Objs
               PROVE  /\ Len(values'[p]) = Len(shapes'[shape'[p]].propNames)
                      /\ \A m \in Tombs(p)' : shapes'[shape'[p]].propsByName[m] # NoSlot
                      /\ ~ deleted'[p].made => Tombs(p)' = {}
    BY DEF VectorsFit, Owns, PropIndex
  <2>1. CASE p = o
    <3>1. \A m \in Tombs(o) : m \in Names /\ PropIndex(s, m) # NoSlot
      <4>1. deleted[o].names \in SUBSET Names
        BY DEF ObjectsOK
      <4>. QED BY <4>1 DEF ObjectsOK, VectorsFit, Tombs, Owns
    <3>. QED BY ZenonT(30), <2>1, <3>1, <1>2, <1>3, <1>4, <1>5, <1>6, <1>7
             DEF ObjectsOK, VectorsFit, PropIndex
  <2>2. CASE p # o
    <3>1. /\ shape'[p] = shape[p] /\ values'[p] = values[p]
          /\ Tombs(p)' = Tombs(p) /\ deleted'[p].made = deleted[p].made
      BY <2>2, <1>2, <1>3, <1>4
    <3>2. /\ shapes'[shape[p]].propNames = shapes[shape[p]].propNames
          /\ \A m : shapes'[shape[p]].propsByName[m] = shapes[shape[p]].propsByName[m]
      BY <1>1 DEF PropIndex
    <3>. QED BY ZenonT(30), <3>1, <3>2 DEF ObjectsOK, VectorsFit, Owns, PropIndex
  <2>. QED BY <2>1, <2>2
<1>9. Writes(o, n, v)
  <2> SUFFICES ASSUME NEW p \in Objs, NEW m \in Names
               PROVE  GetOwn(p, m)' = IF p = o /\ m = n THEN v ELSE GetOwn(p, m)
    BY DEF Writes
  <2>1. CASE p # o
    <3>1. /\ shape'[p] = shape[p] /\ values'[p] = values[p] /\ Tombs(p)' = Tombs(p)
          /\ shapes'[shape[p]].propsByName[m] = shapes[shape[p]].propsByName[m]
      BY <2>1, <1>1, <1>2, <1>3, <1>4 DEF PropIndex
    <3>. QED BY <2>1, <3>1 DEF GetOwn, Owns, PropIndex
  <2>2. CASE p = o
    <3> DEFINE k == PropIndex(s, m)
               l == PropIndex(t, m)'
    <3>1. k # NoSlot => k \in 1..Len(values[o])
      <4>1. LayoutConsistent(s)
        BY <1>5 DEF ObjectsOK, HeapOK, LayoutsConsistent
      <4>. QED BY <4>1, <1>5 DEF LayoutConsistent, Owns
    <3>2. GetOwn(p, m)' = IF m \in Tombs(o)' \/ l = NoSlot THEN Missing ELSE values'[o][l]
      <4>1. shapes'[shape'[p]].propsByName[m] = l
        BY <2>2, <1>4 DEF PropIndex
      <4>2. GetOwn(p, m)' = IF m \in Tombs(p)' \/ shapes'[shape'[p]].propsByName[m] = NoSlot
                            THEN Missing
                            ELSE values'[p][shapes'[shape'[p]].propsByName[m]]
        BY NextGetOwn
      <4>3. Tombs(p)' = Tombs(o)' /\ values'[p] = values'[o]
        BY <2>2 DEF Tombs
      <4> HIDE DEF l
      <4>. QED BY <4>1, <4>2, <4>3
    <3>3. GetOwn(p, m) = IF m \in Tombs(o) \/ k = NoSlot THEN Missing ELSE values[o][k]
      BY <2>2 DEF GetOwn, Owns
    <3>4. l = IF m = n THEN Len(values[o]) + 1 ELSE k
      BY <1>6
    <3>5. Tombs(o)' = Tombs(o) \ {n}
      BY <1>3
    <3> HIDE DEF k, l
    <3>. QED BY <2>2, <3>1, <3>2, <3>3, <3>4, <3>5, <1>2, <1>5 DEF NoSlot
  <2>. QED BY <2>1, <2>2
<1>10. 1 \in Shapes'
  BY DEF ObjectsOK, HeapGrows
<1>. QED BY <1>2, <1>3, <1>4, <1>8, <1>9, <1>10 DEF ObjectsOK

(* What a write does to the tombstones, spelled out. *)
LEMMA DroppedTombstone ==
  ASSUME deleted \in [Objs -> [made : BOOLEAN, names : SUBSET Names]],
         NEW o \in Objs, NEW n
  PROVE  [deleted EXCEPT ![o].names = Revives(o, n)]
           = [deleted EXCEPT ![o].names = @ \ {n}]
BY DEF Revives, Tombs

(* The slow path of Set and SetCached. *)
LEMMA StoreWrites ==
  ASSUME ObjectsOK, TypeOK, NEW o \in Objs, NEW n \in Names, NEW v \in Vals,
         Store(o, n, v)
  PROVE  /\ ObjectsOK' /\ HeapGrows /\ Writes(o, n, v)
         /\ ~ Owns(shape[o], n) => /\ shapes'[shape[o]].transitions[n] = Child(shape[o], n)
                                   /\ Child(shape[o], n) # NilShape
<1>1. CASE Owns(shape[o], n)
  <2>1. HeapGrows
    BY <1>1 DEF Store, HeapGrows, Shapes
  <2>2. deleted' = [deleted EXCEPT ![o].names = @ \ {n}]
    BY DroppedTombstone DEF Store, ObjectsOK
  <2>. QED BY <1>1, <2>1, <2>2, UpdateInPlace DEF Store
<1>2. CASE ~ Owns(shape[o], n)
  <2>1. PICK s : s = shape[o]
    OBVIOUS
  <2>2. PICK t : t = Child(s, n)
    OBVIOUS
  <2>3. s \in Shapes
    BY <2>1 DEF ObjectsOK
  <2>4. /\ shapes' = Extended(s, n)
        /\ shape' = [shape EXCEPT ![o] = t]
        /\ values' = [values EXCEPT ![o] = Append(@, v)]
        /\ deleted' = [deleted EXCEPT ![o].names = @ \ {n}]
    BY <1>2, <2>1, <2>2, DroppedTombstone DEF Store, ObjectsOK
  <2>5. /\ shapes' \in Seq(ShapeRecord) /\ HeapGrows /\ HeapOK'
        /\ t \in Shapes' /\ t # NilShape
        /\ shapes'[s].transitions[n] = t
        /\ ExtendsBy(s, n, t)'
    BY <1>2, <2>1, <2>2, <2>3, <2>4, ExtendKeepsHeap DEF ObjectsOK
  <2>6. ObjectsOK' /\ Writes(o, n, v)
    BY <2>1, <2>4, <2>5, AppendProperty
  <2>. QED BY <2>1, <2>2, <2>5, <2>6
<1>. QED BY <1>1, <1>2

-----------------------------------------------------------------------------
(* Inline caches. *)

(* Type of the two cache vectors. *)
CellsOK ==
  /\ propCache \in [GetSites -> [shape : Nat, slot : Nat]]
  /\ setCache \in [SetSites -> [shape : Nat, slot : Nat, newShape : Nat]]

(* The invariant is the objects' part and the cells' part. *)
LEMMA InvariantParts ==
  IInv <=> /\ ObjectsOK /\ CellsOK
           /\ PropCachesCoherent /\ SetCachesCoherent
BY DEF IInv, TypeOK, Coherent, ObjectsOK, HeapOK, CellsOK

(* A cell stays coherent while the heap grows, whichever objects move to new
   shapes: it speaks of shapes only. *)
LEMMA PropCachesKept ==
  ASSUME PropCachesCoherent, HeapGrows, UNCHANGED propCache
  PROVE  PropCachesCoherent'
BY SitesAssumption DEF PropCachesCoherent, HeapGrows, Owns, PropIndex

(* The same of write cells, in their update and in their add regime. *)
LEMMA SetCachesKept ==
  ASSUME SetCachesCoherent, HeapGrows, UNCHANGED setCache
  PROVE  SetCachesCoherent'
<1> SUFFICES ASSUME NEW c \in SetSites, setCache[c].shape # NilShape
             PROVE  LET cell == setCache[c]
                        n    == SetName[c] IN
                    /\ cell.shape \in Shapes'
                    /\ \/ /\ cell.newShape = NilShape
                          /\ shapes'[cell.shape].propsByName[n] # NoSlot
                          /\ cell.slot = shapes'[cell.shape].propsByName[n]
                       \/ /\ shapes'[cell.shape].propsByName[n] = NoSlot
                          /\ cell.newShape # NilShape
                          /\ cell.newShape = shapes'[cell.shape].transitions[n]
  BY DEF SetCachesCoherent, Owns, PropIndex
<1>1. SetName[c] \in Names
  BY SitesAssumption
<1>. QED BY <1>1 DEF SetCachesCoherent, HeapGrows, Owns, PropIndex

(* A read through a missing cell fills it with what it has just looked up. *)
LEMMA ReadKeeps ==
  ASSUME IInv, NEW c \in GetSites, NEW o \in Objs, GetOwnCached(c, o)
  PROVE  /\ IInv' /\ HeapGrows
         /\ \A p \in Objs, m \in Names : GetOwn(p, m)' = GetOwn(p, m)
<1>1. /\ ObjectsOK /\ CellsOK /\ PropCachesCoherent /\ SetCachesCoherent
  BY InvariantParts
<1>2. UNCHANGED <<shapes, shape, values, deleted, setCache>>
  BY DEF GetOwnCached
<1>3. HeapGrows
  BY <1>2 DEF HeapGrows, Shapes
<1>4. ObjectsOK'
  <2>1. HeapOK'
    BY <1>1, <1>2, HeapKept DEF ObjectsOK
  <2>2. VectorsFit'
    BY <1>1, <1>2 DEF ObjectsOK, VectorsFit, Owns, PropIndex, Tombs
  <2>. QED BY <1>1, <1>2, <2>1, <2>2 DEF ObjectsOK, Shapes
<1>5. SetCachesCoherent'
  BY <1>1, <1>2, <1>3, SetCachesKept
<1>6. /\ GetName[c] \in Names
      /\ shape[o] \in Shapes /\ shape[o] \in Nat
      /\ PropIndex(shape[o], GetName[c]) \in Nat
  <2>1. GetName[c] \in Names
    BY SitesAssumption
  <2>2. shape[o] \in Shapes /\ shape[o] \in 1..Len(shapes) /\ shapes \in Seq(ShapeRecord)
    BY <1>1 DEF ObjectsOK, Shapes
  <2>3. shapes[shape[o]] \in ShapeRecord
    BY <2>2
  <2>4. shape[o] \in Nat
    BY <2>2
  <2>5. PropIndex(shape[o], GetName[c]) \in Nat
    BY <2>1, <2>3 DEF PropIndex, ShapeRecord
  <2>. QED BY <2>1, <2>2, <2>4, <2>5
<1>7. \/ propCache' = propCache
      \/ /\ Owns(shape[o], GetName[c])
         /\ propCache' = [propCache EXCEPT
              ![c] = [shape |-> shape[o], slot |-> PropIndex(shape[o], GetName[c])]]
  BY <1>1 DEF GetOwnCached, FilledPropCache, CellsOK
<1>8. CellsOK'
  BY <1>1, <1>2, <1>6, <1>7 DEF CellsOK
<1>9. PropCachesCoherent'
  <2>1. CASE propCache' = propCache
    BY <2>1, <1>1, <1>3, PropCachesKept
  <2>2. CASE /\ Owns(shape[o], GetName[c])
             /\ propCache' = [propCache EXCEPT
                  ![c] = [shape |-> shape[o], slot |-> PropIndex(shape[o], GetName[c])]]
    <3>1. SUFFICES ASSUME NEW d \in GetSites, propCache'[d].shape # NilShape
          PROVE  /\ propCache'[d].shape \in Shapes
                 /\ PropIndex(propCache'[d].shape, GetName[d]) # NoSlot
                 /\ propCache'[d].slot = PropIndex(propCache'[d].shape, GetName[d])
      BY <1>2 DEF PropCachesCoherent, Owns, PropIndex, Shapes
    <3>2. CASE d = c
      BY <3>2, <2>2, <1>1, <1>6 DEF CellsOK, Owns
    <3>3. CASE d # c
      <4>1. propCache'[d] = propCache[d]
        BY <3>3, <2>2, <1>1 DEF CellsOK
      <4>. QED BY <4>1, <3>1, <1>1 DEF PropCachesCoherent, Owns
    <3>. QED BY <3>2, <3>3
  <2>. QED BY <2>1, <2>2, <1>7
<1>10. \A p \in Objs, m \in Names : GetOwn(p, m)' = GetOwn(p, m)
  BY <1>2 DEF GetOwn, Owns, PropIndex, Tombs
<1>11. IInv'
  BY <1>4, <1>5, <1>8, <1>9 DEF IInv, TypeOK, Coherent, ObjectsOK, HeapOK, CellsOK
<1>. QED BY <1>3, <1>10, <1>11

(* A write that hits its cell does what the slow path would have done. *)
LEMMA CachedStoreWrites ==
  ASSUME IInv, NEW c \in SetSites, NEW o \in Objs, NEW v \in Vals,
         Hits(setCache[c], o), CachedStore(setCache[c], o, v),
         UNCHANGED <<shapes, deleted, propCache, setCache>>
  PROVE  IInv' /\ HeapGrows /\ Writes(o, SetName[c], v)
<1> DEFINE n == SetName[c]
<1>1. /\ ObjectsOK /\ CellsOK /\ PropCachesCoherent /\ SetCachesCoherent
  BY InvariantParts
<1>2. n \in Names
  BY SitesAssumption
<1>3. HeapOK' /\ HeapGrows
  BY <1>1, HeapKept DEF ObjectsOK
<1>4. deleted' = [deleted EXCEPT ![o].names = @ \ {n}]
  <2>1. deleted[o] \in [made : BOOLEAN, names : SUBSET Names]
    BY <1>1 DEF ObjectsOK
  <2>2. deleted[o].names = {}
    BY <1>1 DEF Hits, ObjectsOK, VectorsFit, Tombs
  <2>3. [deleted[o] EXCEPT !.names = @ \ {n}] = deleted[o]
    BY <2>1, <2>2
  <2>4. [deleted EXCEPT ![o] = deleted[o]] = deleted
    BY <1>1 DEF ObjectsOK
  <2>. QED BY <2>3, <2>4
<1>5. /\ setCache[c].shape = shape[o]
      /\ shape[o] \in Shapes
      /\ setCache[c].shape # NilShape
  BY <1>1 DEF Hits, ObjectsOK, Shapes, NilShape
<1>6. \/ /\ setCache[c].newShape = NilShape
         /\ Owns(shape[o], n)
         /\ setCache[c].slot = PropIndex(shape[o], n)
      \/ /\ ~ Owns(shape[o], n)
         /\ setCache[c].newShape # NilShape
         /\ setCache[c].newShape = shapes[shape[o]].transitions[n]
  BY <1>1, <1>5 DEF SetCachesCoherent
<1>7. ObjectsOK' /\ Writes(o, n, v)
  <2>1. CASE setCache[c].newShape = NilShape
    <3>1. values' = [values EXCEPT ![o][PropIndex(shape[o], n)] = v]
          /\ shape' = shape
      BY <2>1, <1>6 DEF CachedStore
    <3>. QED BY <3>1, <2>1, <1>1, <1>2, <1>4, <1>6, UpdateInPlace
  <2>2. CASE setCache[c].newShape # NilShape
    <3>1. PICK s : s = shape[o]
      OBVIOUS
    <3>2. PICK t : t = setCache[c].newShape
      OBVIOUS
    <3>3. /\ shape' = [shape EXCEPT ![o] = t]
          /\ values' = [values EXCEPT ![o] = Append(@, v)]
      BY <2>2, <3>2 DEF CachedStore
    <3>4. t \in Shapes' /\ ExtendsBy(s, n, t)'
      <4>1. s \in Shapes' /\ shapes'[s].transitions[n] = t /\ t # NilShape
        BY <2>2, <3>1, <3>2, <1>5, <1>6 DEF Shapes
      <4>2. PICK m \in Names : m = n
        BY <1>2
      <4>3. t \in Shapes' /\ ExtendsBy(s, m, t)'
        BY SMTT(30), <4>1, <4>2, <1>3 DEF HeapOK, TransitionsExtend, ExtendsBy, Owns, PropIndex
      <4>. QED BY <4>2, <4>3 DEF ExtendsBy, Owns, PropIndex
    <3>5. shapes' \in Seq(ShapeRecord)
      BY <1>1 DEF ObjectsOK
    <3>. QED BY <3>1, <3>3, <3>4, <3>5, <1>1, <1>2, <1>3, <1>4, AppendProperty
  <2>. QED BY <2>1, <2>2
<1>8. PropCachesCoherent' /\ SetCachesCoherent' /\ CellsOK'
  BY <1>1, <1>3, PropCachesKept, SetCachesKept DEF CellsOK
<1>9. IInv'
  BY <1>7, <1>8 DEF IInv, TypeOK, Coherent, ObjectsOK, HeapOK, CellsOK
<1>. QED BY <1>3, <1>7, <1>9

(* The uncached write is a write of one name and leaves the cells alone. *)
LEMMA SetWrites ==
  ASSUME IInv, NEW o \in Objs, NEW n \in Names, NEW v \in Vals, Set(o, n, v)
  PROVE  IInv' /\ HeapGrows /\ Writes(o, n, v)
<1>1. /\ ObjectsOK /\ TypeOK /\ CellsOK /\ PropCachesCoherent /\ SetCachesCoherent
  BY InvariantParts DEF IInv
<1>2. ObjectsOK' /\ HeapGrows /\ Writes(o, n, v)
  BY <1>1, StoreWrites DEF Set
<1>3. UNCHANGED <<propCache, setCache>>
  BY DEF Set
<1>4. PropCachesCoherent' /\ SetCachesCoherent' /\ CellsOK'
  BY <1>1, <1>2, <1>3, PropCachesKept, SetCachesKept DEF CellsOK
<1>5. IInv'
  BY <1>2, <1>4 DEF IInv, TypeOK, Coherent, ObjectsOK, HeapOK, CellsOK
<1>. QED BY <1>2, <1>5

(* A write that misses its cell takes the slow path and remembers it. *)
LEMMA MissedStoreWrites ==
  ASSUME IInv, NEW c \in SetSites, NEW o \in Objs, NEW v \in Vals,
         Store(o, SetName[c], v),
         setCache' = [setCache EXCEPT ![c] = FilledSetCache(setCache[c], o, SetName[c])],
         UNCHANGED propCache
  PROVE  IInv' /\ HeapGrows /\ Writes(o, SetName[c], v)
<1>1. PICK n \in Names : n = SetName[c]
  BY SitesAssumption
<1>2. /\ ObjectsOK /\ TypeOK /\ CellsOK /\ PropCachesCoherent /\ SetCachesCoherent
  BY InvariantParts DEF IInv
<1>3. /\ ObjectsOK' /\ HeapGrows /\ Writes(o, n, v)
      /\ ~ Owns(shape[o], n) => /\ shapes'[shape[o]].transitions[n] = Child(shape[o], n)
                                /\ Child(shape[o], n) # NilShape
  BY <1>1, <1>2, StoreWrites
<1>4. PICK s \in Shapes : s = shape[o]
  BY <1>2 DEF ObjectsOK
<1>5. PICK t : t = Child(s, n)
  OBVIOUS
<1>6. /\ s \in Nat /\ s \in Shapes'
      /\ shapes'[s].propsByName[n] = PropIndex(s, n)
      /\ PropIndex(s, n) \in Nat
  <2>1. s \in 1..Len(shapes) /\ shapes \in Seq(ShapeRecord)
    BY <1>2 DEF ObjectsOK, Shapes
  <2>2. shapes[s] \in ShapeRecord
    BY <2>1
  <2>3. PropIndex(s, n) \in Nat
    BY <2>2 DEF ShapeRecord, PropIndex
  <2>. QED BY <2>1, <2>3, <1>3 DEF HeapGrows, PropIndex
<1>7. \/ setCache' = setCache
      \/ /\ Owns(s, n)
         /\ setCache' = [setCache EXCEPT ![c] =
              [shape |-> s, slot |-> PropIndex(s, n), newShape |-> NilShape]]
      \/ /\ ~ Owns(s, n)
         /\ setCache' = [setCache EXCEPT ![c] =
              [shape |-> s, slot |-> setCache[c].slot, newShape |-> t]]
  BY <1>1, <1>2, <1>4, <1>5 DEF FilledSetCache, CellsOK
<1>8. ~ Owns(s, n) => t \in Nat /\ t # NilShape /\ shapes'[s].transitions[n] = t
  <2>1. ~ Owns(s, n) => t # NilShape /\ shapes'[s].transitions[n] = t
    BY <1>3, <1>4, <1>5
  <2>2. shapes' \in Seq(ShapeRecord) /\ s \in 1..Len(shapes')
    BY <1>3, <1>6 DEF ObjectsOK, Shapes
  <2>3. shapes'[s] \in ShapeRecord
    BY <2>2
  <2>4. shapes'[s].transitions[n] \in Nat
    BY <2>3 DEF ShapeRecord
  <2>. QED BY <2>1, <2>4
<1>9. CellsOK'
  BY <1>2, <1>6, <1>7, <1>8 DEF CellsOK, NilShape
<1>10. PropCachesCoherent'
  BY <1>2, <1>3, PropCachesKept
<1>11. SetCachesCoherent'
  <2> SUFFICES ASSUME NEW d \in SetSites, NEW cell, cell = setCache'[d],
                      cell.shape # NilShape, NEW m \in Names, m = SetName[d]
               PROVE  /\ cell.shape \in Shapes'
                      /\ \/ /\ cell.newShape = NilShape
                            /\ shapes'[cell.shape].propsByName[m] # NoSlot
                            /\ cell.slot = shapes'[cell.shape].propsByName[m]
                         \/ /\ shapes'[cell.shape].propsByName[m] = NoSlot
                            /\ cell.newShape # NilShape
                            /\ cell.newShape = shapes'[cell.shape].transitions[m]
    BY SitesAssumption DEF SetCachesCoherent, Owns, PropIndex
  <2>1. CASE setCache'[d] = setCache[d]
    <3>1. /\ cell.shape \in Shapes
          /\ \/ /\ cell.newShape = NilShape
                /\ shapes[cell.shape].propsByName[m] # NoSlot
                /\ cell.slot = shapes[cell.shape].propsByName[m]
             \/ /\ shapes[cell.shape].propsByName[m] = NoSlot
                /\ cell.newShape # NilShape
                /\ cell.newShape = shapes[cell.shape].transitions[m]
      BY <1>2, <2>1 DEF SetCachesCoherent, Owns, PropIndex
    <3>2. /\ cell.shape \in Shapes'
          /\ shapes'[cell.shape].propsByName = shapes[cell.shape].propsByName
          /\ shapes[cell.shape].transitions[m] # NilShape =>
               shapes'[cell.shape].transitions[m] = shapes[cell.shape].transitions[m]
      BY <1>3, <3>1 DEF HeapGrows
    <3>. QED BY <3>1, <3>2
  <2>2. CASE d = c /\ Owns(s, n) /\ cell = [shape |-> s, slot |-> PropIndex(s, n),
                                            newShape |-> NilShape]
    BY <2>2, <1>1, <1>6 DEF Owns
  <2>3. CASE d = c /\ ~ Owns(s, n) /\ cell = [shape |-> s, slot |-> setCache[c].slot,
                                              newShape |-> t]
    BY <2>3, <1>1, <1>6, <1>8 DEF Owns
  <2>4. \/ setCache'[d] = setCache[d]
        \/ d = c /\ Owns(s, n) /\ cell = [shape |-> s, slot |-> PropIndex(s, n),
                                          newShape |-> NilShape]
        \/ d = c /\ ~ Owns(s, n) /\ cell = [shape |-> s, slot |-> setCache[c].slot,
                                            newShape |-> t]
    BY <1>2, <1>7 DEF CellsOK
  <2>. QED BY <2>1, <2>2, <2>3, <2>4
<1>12. IInv'
  BY <1>3, <1>9, <1>10, <1>11 DEF IInv, TypeOK, Coherent, ObjectsOK, HeapOK, CellsOK
<1>. QED BY <1>1, <1>3, <1>12

(* A deletion as the rest of the program sees it. *)
Removes(o, n) ==
  \A p \in Objs, m \in Names :
    GetOwn(p, m)' = IF p = o /\ m = n THEN Missing ELSE GetOwn(p, m)

(* A deletion buries one name of one object and changes no shape. *)
LEMMA DeleteRemoves ==
  ASSUME IInv, NEW o \in Objs, NEW n \in Names, Delete(o, n)
  PROVE  IInv' /\ HeapGrows /\ Removes(o, n)
<1>1. /\ ObjectsOK /\ CellsOK /\ PropCachesCoherent /\ SetCachesCoherent
  BY InvariantParts
<1>2. /\ UNCHANGED <<shapes, shape, values, propCache, setCache>>
      /\ Owns(shape[o], n)
      /\ deleted' = [deleted EXCEPT ![o] = [made |-> TRUE, names |-> Tombs(o) \cup {n}]]
  BY DEF Delete
<1>3. HeapOK' /\ HeapGrows
  BY <1>1, <1>2, HeapKept DEF ObjectsOK
<1>4. /\ deleted' \in [Objs -> [made : BOOLEAN, names : SUBSET Names]]
      /\ \A p \in Objs : /\ Tombs(p)' = IF p = o THEN Tombs(p) \cup {n} ELSE Tombs(p)
                         /\ p = o => deleted'[p].made
                         /\ p # o => deleted'[p] = deleted[p]
  BY <1>1, <1>2 DEF ObjectsOK, Tombs
<1>5. VectorsFit'
  BY <1>1, <1>2, <1>4 DEF ObjectsOK, VectorsFit, Owns, PropIndex
<1>6. ObjectsOK'
  BY <1>1, <1>2, <1>3, <1>4, <1>5 DEF ObjectsOK, Shapes
<1>7. Removes(o, n)
  BY <1>2, <1>4 DEF Removes, GetOwn, Owns, PropIndex
<1>8. PropCachesCoherent' /\ SetCachesCoherent' /\ CellsOK'
  BY <1>1, <1>2, <1>3, PropCachesKept, SetCachesKept DEF CellsOK
<1>9. IInv'
  BY <1>6, <1>8 DEF IInv, TypeOK, Coherent, ObjectsOK, HeapOK, CellsOK
<1>. QED BY <1>3, <1>7, <1>9

-----------------------------------------------------------------------------
(* The initial states and the next-state relation. *)

(* The empty heap: the root shape, objects without properties, empty cells. *)
LEMMA InitSound ==
  ASSUME Init
  PROVE  /\ IInv
         /\ \A o \in Objs, n \in Names : GetOwn(o, n) = Missing
<1> DEFINE root == [propNames |-> <<>>, propsByName |-> [n \in Names |-> NoSlot],
                    transitions |-> NoTransitions]
<1>1. root \in ShapeRecord
  BY DEF ShapeRecord, NoTransitions, NoSlot, NilShape
<1>2. /\ shapes = <<root>> /\ shapes \in Seq(ShapeRecord) /\ Shapes = {1}
      /\ shapes[1] = root
  <2>1. shapes = <<root>>
    BY DEF Init
  <2> HIDE DEF root
  <2>. QED BY <1>1, <2>1 DEF Shapes
<1>3. /\ shapes[1].propNames = <<>>
      /\ \A n \in Names : /\ PropIndex(1, n) = NoSlot
                          /\ shapes[1].transitions[n] = NilShape
  BY <1>2 DEF PropIndex, NoTransitions
<1>4. LayoutsConsistent
  BY <1>2, <1>3 DEF LayoutsConsistent, LayoutConsistent, Owns
<1>5. TransitionsExtend
  BY <1>2, <1>3 DEF TransitionsExtend
<1>6. ParentsExist
  BY <1>2 DEF ParentsExist
<1>7. VectorsFit
  BY <1>3 DEF Init, VectorsFit, Tombs, NoMap
<1>8. PropCachesCoherent /\ SetCachesCoherent
  BY DEF Init, PropCachesCoherent, SetCachesCoherent
<1>9. TypeOK
  <2>1. shape \in [Objs -> Shapes] /\ values \in [Objs -> Seq(Vals)]
    BY <1>2 DEF Init
  <2>2. deleted \in [Objs -> [made : BOOLEAN, names : SUBSET Names]]
    BY DEF Init, NoMap
  <2>3. /\ propCache \in [GetSites -> [shape : Nat, slot : Nat]]
        /\ setCache \in [SetSites -> [shape : Nat, slot : Nat, newShape : Nat]]
    BY DEF Init, NilShape
  <2>. QED BY <1>2, <2>1, <2>2, <2>3 DEF TypeOK
<1>10. \A o \in Objs, n \in Names : GetOwn(o, n) = Missing
  BY <1>3 DEF Init, GetOwn, Owns
<1>. QED BY <1>4, <1>5, <1>6, <1>7, <1>8, <1>9, <1>10 DEF IInv, Coherent

(* A write through a cache cell, hit or miss. *)
LEMMA SetCachedWrites ==
  ASSUME IInv, NEW o \in Objs, NEW c \in SetSites, NEW v \in Vals, SetCached(c, o, v)
  PROVE  IInv' /\ HeapGrows /\ SetName[c] \in Names /\ Writes(o, SetName[c], v)
<1>1. SetName[c] \in Names
  BY SitesAssumption
<1>2. CASE /\ Hits(setCache[c], o)
           /\ CachedStore(setCache[c], o, v)
           /\ UNCHANGED <<shapes, deleted, setCache>>
  BY <1>1, <1>2, CachedStoreWrites DEF SetCached
<1>3. CASE /\ Store(o, SetName[c], v)
           /\ setCache' = [setCache EXCEPT
                             ![c] = FilledSetCache(setCache[c], o, SetName[c])]
  BY <1>1, <1>3, MissedStoreWrites DEF SetCached
<1>. QED BY <1>2, <1>3 DEF SetCached

(* Every step keeps the invariant, grows the heap, and is one write, one
   deletion, or nothing to the rest of the program. *)
LEMMA StepSound ==
  ASSUME IInv, [Next]_vars
  PROVE  /\ IInv' /\ HeapGrows
         /\ \/ \E o \in Objs, n \in Names, v \in Vals : Writes(o, n, v)
            \/ \E o \in Objs, n \in Names : Removes(o, n)
            \/ \A o \in Objs, n \in Names : GetOwn(o, n)' = GetOwn(o, n)
<1>1. ASSUME NEW o \in Objs, NEW n \in Names, Delete(o, n)
      PROVE  IInv' /\ HeapGrows /\ Removes(o, n)
  BY <1>1, DeleteRemoves
<1>2. ASSUME NEW o \in Objs, NEW n \in Names, NEW v \in Vals, Set(o, n, v)
      PROVE  IInv' /\ HeapGrows /\ Writes(o, n, v)
  BY <1>2, SetWrites
<1>3. ASSUME NEW o \in Objs, NEW c \in GetSites, GetOwnCached(c, o)
      PROVE  /\ IInv' /\ HeapGrows
             /\ \A p \in Objs, m \in Names : GetOwn(p, m)' = GetOwn(p, m)
  BY <1>3, ReadKeeps
<1>4. ASSUME NEW o \in Objs, NEW c \in SetSites, NEW v \in Vals, SetCached(c, o, v)
      PROVE  /\ IInv' /\ HeapGrows
             /\ SetName[c] \in Names /\ Writes(o, SetName[c], v)
  BY <1>4, SetCachedWrites
<1>5. CASE UNCHANGED vars
  <2>1. IInv'
    <3>1. ObjectsOK /\ CellsOK /\ PropCachesCoherent /\ SetCachesCoherent
      BY InvariantParts
    <3>2. HeapOK' /\ HeapGrows
      BY <1>5, <3>1, HeapKept DEF vars, ObjectsOK
    <3>3. ObjectsOK'
      BY <1>5, <3>1, <3>2 DEF vars, ObjectsOK, VectorsFit, Owns, PropIndex, Shapes, Tombs
    <3>4. PropCachesCoherent' /\ SetCachesCoherent' /\ CellsOK'
      BY <1>5, <3>1, <3>2, PropCachesKept, SetCachesKept DEF vars, CellsOK
    <3>. QED BY <3>3, <3>4 DEF IInv, TypeOK, Coherent, ObjectsOK, HeapOK, CellsOK
  <2>2. HeapGrows
    BY <1>5 DEF vars, HeapGrows, Shapes
  <2>3. \A o \in Objs, n \in Names : GetOwn(o, n)' = GetOwn(o, n)
    BY <1>5 DEF vars, GetOwn, Owns, PropIndex, Tombs
  <2>. QED BY <2>1, <2>2, <2>3
<1>6. CASE Next
  BY <1>1, <1>2, <1>3, <1>4, <1>6 DEF Next
<1>. QED BY <1>5, <1>6

(* Layouts, transitions, slot vectors and inline caches always describe one
   and the same heap, however many objects share a site. *)
THEOREM Coherence == Spec => []IInv
<1>1. Init => IInv
  BY InitSound
<1>2. IInv /\ [Next]_vars => IInv'
  BY StepSound
<1>. QED BY <1>1, <1>2, PTL DEF Spec

-----------------------------------------------------------------------------
(* Every slot, tombstone and cache cell always has the type of its Go field. *)
THEOREM TypeCorrect == Spec => []TypeOK
<1>1. IInv => TypeOK
  BY DEF IInv
<1>. QED BY <1>1, Coherence, PTL

(* An inline-cache hit in GetOwnCached never answers anything but what GetOwn
   would: no stale slot, no resurrected tombstone. *)
THEOREM CachedReads == Spec => []CachedReadsExact
<1>1. IInv => CachedReadsExact
  <2> SUFFICES ASSUME IInv, NEW c \in GetSites, NEW o \in Objs
               PROVE  CachedRead(c, o) = GetOwn(o, GetName[c])
    BY DEF CachedReadsExact
  <2>1. CASE ~ Hits(propCache[c], o)
    BY <2>1 DEF CachedRead
  <2>2. CASE Hits(propCache[c], o)
    <3>1. propCache[c].shape = shape[o] /\ ~ deleted[o].made
      BY <2>2 DEF Hits
    <3>2. shape[o] # NilShape
      BY DEF IInv, TypeOK, Shapes, NilShape
    <3>3. /\ Owns(shape[o], GetName[c])
          /\ propCache[c].slot = PropIndex(shape[o], GetName[c])
      BY <3>1, <3>2 DEF IInv, Coherent, PropCachesCoherent
    <3>4. Tombs(o) = {}
      BY <3>1 DEF IInv, Coherent, VectorsFit
    <3>. QED BY <2>2, <3>3, <3>4 DEF CachedRead, GetOwn
  <2>. QED BY <2>1, <2>2
<1>. QED BY <1>1, Coherence, PTL

(* A Shape is immutable once made, so a pointer compare identifies a layout. *)
THEOREM Immutability == Spec => ShapesImmutable
<1>1. IInv /\ [Next]_vars =>
        [\A s \in Shapes :
           /\ shapes'[s].propNames = shapes[s].propNames
           /\ shapes'[s].propsByName = shapes[s].propsByName
           /\ \A n \in Names : shapes[s].transitions[n] # NilShape =>
                shapes'[s].transitions[n] = shapes[s].transitions[n]]_vars
  BY StepSound DEF HeapGrows
<1>. QED BY <1>1, Coherence, PTL DEF Spec, ShapesImmutable

(* Seen through GetOwn, the objects are independent maps: every operation is
   one write, one deletion or no change of them. *)
THEOREM Refinement == Spec => ImplementsPropertyStore
<1>1. Init => Store_!Init
  BY InitSound DEF Store_!Init, Contents
<1>2. IInv /\ [Next]_vars => [Store_!Next]_Contents
  <2> SUFFICES ASSUME IInv, [Next]_vars
               PROVE  [Store_!Next]_Contents
    OBVIOUS
  <2>1. ASSUME NEW o \in Objs, NEW n \in Names, NEW v \in Vals, Writes(o, n, v)
        PROVE  Store_!Write(o, n, v)
    BY <2>1 DEF Writes, Store_!Write, Contents
  <2>2. ASSUME NEW o \in Objs, NEW n \in Names, Removes(o, n)
        PROVE  Store_!Remove(o, n)
    BY <2>2 DEF Removes, Store_!Remove, Contents
  <2>3. CASE \A o \in Objs, n \in Names : GetOwn(o, n)' = GetOwn(o, n)
    BY <2>3 DEF Contents
  <2>. QED BY <2>1, <2>2, <2>3, StepSound DEF Store_!Next
<1>. QED BY <1>1, <1>2, Coherence, PTL DEF Spec, Store_!Spec, ImplementsPropertyStore

(* A write stores its value under its name and changes nothing else, whether
   the inline cache hits or misses. *)
THEOREM WritesExact == Spec => WritesLand
<1>1. ASSUME NEW o \in Objs, NEW n \in Names, NEW v \in Vals, Writes(o, n, v)
      PROVE  Contents' = [Contents EXCEPT ![o][n] = v]
  BY <1>1 DEF Writes, Contents
<1>2. ASSUME IInv, NEW o \in Objs, NEW v \in Vals, NEW n \in Names, Set(o, n, v)
      PROVE  Contents' = [Contents EXCEPT ![o][n] = v]
  BY <1>1, <1>2, SetWrites
<1>3. ASSUME IInv, NEW o \in Objs, NEW v \in Vals, NEW c \in SetSites, SetCached(c, o, v)
      PROVE  Contents' = [Contents EXCEPT ![o][SetName[c]] = v]
  BY <1>1, <1>3, SetCachedWrites
<1>4. IInv => \A o \in Objs, v \in Vals :
        /\ \A n \in Names : Set(o, n, v) => Contents' = [Contents EXCEPT ![o][n] = v]
        /\ \A c \in SetSites :
             SetCached(c, o, v) => Contents' = [Contents EXCEPT ![o][SetName[c]] = v]
  BY <1>2, <1>3
<1>. QED BY <1>4, Coherence, PTL DEF Spec, WritesLand

-----------------------------------------------------------------------------
(* The only change a step makes to the heap is to extend one shape by a name
   it lacks. *)
LEMMA StepHeap ==
  ASSUME IInv, [Next]_vars
  PROVE  \/ shapes' = shapes
         \/ \E s \in Shapes, n \in Names : ~ Owns(s, n) /\ shapes' = Extended(s, n)
<1>1. \A o \in Objs : shape[o] \in Shapes
  BY DEF IInv, TypeOK
<1>2. ASSUME NEW o \in Objs, NEW n \in Names, NEW v \in Vals, Store(o, n, v)
      PROVE  \/ shapes' = shapes
             \/ \E s \in Shapes, m \in Names : ~ Owns(s, m) /\ shapes' = Extended(s, m)
  BY <1>1, <1>2 DEF Store
<1>3. \A c \in SetSites : SetName[c] \in Names
  BY SitesAssumption
<1>4. CASE UNCHANGED vars
  BY <1>4 DEF vars
<1>5. CASE Next
  <2>1. ASSUME NEW o \in Objs, NEW c \in SetSites, NEW v \in Vals, SetCached(c, o, v)
        PROVE  shapes' = shapes \/ Store(o, SetName[c], v)
    BY <2>1 DEF SetCached
  <2>2. ASSUME NEW o \in Objs, NEW n \in Names, Delete(o, n)
        PROVE  shapes' = shapes
    BY <2>2 DEF Delete
  <2>3. ASSUME NEW o \in Objs, NEW c \in GetSites, GetOwnCached(c, o)
        PROVE  shapes' = shapes
    BY <2>3 DEF GetOwnCached
  <2>4. ASSUME NEW o \in Objs, NEW n \in Names, NEW v \in Vals, Set(o, n, v)
        PROVE  Store(o, n, v)
    BY <2>4 DEF Set
  <2>. QED BY <1>2, <1>3, <1>5, <2>1, <2>2, <2>3, <2>4 DEF Next
<1>. QED BY <1>4, <1>5

(* Sharing is inductive once the root is known to be the empty layout: a
   second shape with the list of a new one would have been its parent's
   transition already. *)
SharedInv == IInv /\ shapes[1].propNames = <<>> /\ ShapesShared

(* A list with one name appended determines the list and the name. *)
LEMMA AppendSplits ==
  ASSUME NEW x \in Seq(Names), NEW y \in Seq(Names), NEW m \in Names, NEW n \in Names,
         Append(x, m) = Append(y, n)
  PROVE  x = y /\ m = n
<1>1. Len(x) = Len(y) /\ Len(x) \in Nat
  <2>1. Len(Append(x, m)) = Len(x) + 1 /\ Len(Append(y, n)) = Len(y) + 1
    OBVIOUS
  <2>. QED BY <2>1
<1>2. m = n
  <2>1. Append(x, m)[Len(x) + 1] = m /\ Append(y, n)[Len(y) + 1] = n
    OBVIOUS
  <2>. QED BY <2>1, <1>1
<1>3. \A i \in 1..Len(x) : x[i] = y[i]
  <2>1. \A i \in 1..Len(x) : Append(x, m)[i] = x[i] /\ Append(y, n)[i] = y[i]
    BY <1>1
  <2>. QED BY <2>1
<1>4. x = [i \in 1..Len(x) |-> x[i]] /\ y = [i \in 1..Len(y) |-> y[i]]
  OBVIOUS
<1>. QED BY <1>1, <1>2, <1>3, <1>4

(* Extending a shape by a name it lacks makes no second shape of one list. *)
LEMMA ExtendShares ==
  ASSUME SharedInv, NEW s \in Shapes, NEW n \in Names,
         ~ Owns(s, n), shapes' = Extended(s, n)
  PROVE  ShapesShared'
<1>1. /\ TypeOK /\ HeapOK
      /\ shapes \in Seq(ShapeRecord) /\ Shapes = 1..Len(shapes)
  BY DEF SharedInv, IInv, TypeOK, Coherent, HeapOK, Shapes
<1>2. PICK t : t = Child(s, n)
  OBVIOUS
<1>3. /\ Len(shapes') >= Len(shapes) /\ shapes' \in Seq(ShapeRecord)
      /\ \A p \in Shapes : shapes'[p].propNames = shapes[p].propNames
      /\ \/ shapes' = shapes
         \/ /\ Len(shapes') = Len(shapes) + 1 /\ t = Len(shapes')
            /\ shapes[s].transitions[n] = NilShape
            /\ shapes'[t] = NewShape(s, n)
  BY <1>1, <1>2, ExtendHeap DEF HeapOK
<1>4. CASE shapes' = shapes
  BY <1>4 DEF SharedInv, ShapesShared, Shapes
<1>5. CASE /\ Len(shapes') = Len(shapes) + 1 /\ t = Len(shapes')
           /\ shapes[s].transitions[n] = NilShape
           /\ shapes'[t] = NewShape(s, n)
  <2>1. Shapes' = Shapes \cup {t}
    BY <1>1, <1>3, <1>5 DEF Shapes
  <2>2. shapes'[t].propNames = Append(shapes[s].propNames, n)
    BY <1>5 DEF NewShape
  <2>3. \A p \in Shapes : shapes[p].propNames \in Seq(Names)
    <3>1. \A p \in Shapes : shapes[p] \in ShapeRecord
      BY <1>1
    <3>. QED BY <3>1 DEF ShapeRecord
  <2>4. \A u \in Shapes : shapes[u].propNames # Append(shapes[s].propNames, n)
    <3> SUFFICES ASSUME NEW u \in Shapes,
                        shapes[u].propNames = Append(shapes[s].propNames, n)
                 PROVE  FALSE
      OBVIOUS
    <3>1. u # 1
      BY <2>3, AppendProperties DEF SharedInv
    <3>2. PICK p \in Shapes, m \in Names : shapes[p].transitions[m] = u
      BY <1>1, <3>1 DEF HeapOK, ParentsExist
    <3>3. u # NilShape
      BY <1>1 DEF NilShape
    <3>4. shapes[u].propNames = Append(shapes[p].propNames, m)
      BY <1>1, <3>2, <3>3 DEF HeapOK, TransitionsExtend, ExtendsBy
    <3>5. shapes[p].propNames = shapes[s].propNames /\ m = n
      <4>1. Append(shapes[p].propNames, m) = Append(shapes[s].propNames, n)
        BY <3>4
      <4>2. shapes[p].propNames \in Seq(Names) /\ shapes[s].propNames \in Seq(Names)
        BY <2>3
      <4>3. PICK x \in Seq(Names), y \in Seq(Names) :
              x = shapes[p].propNames /\ y = shapes[s].propNames
        BY <4>2
      <4>4. Append(x, m) = Append(y, n)
        BY <4>1, <4>3
      <4>5. x = y /\ m = n
        BY <4>4, AppendSplits
      <4>. QED BY <4>3, <4>5
    <3>6. p = s
      BY <3>5 DEF SharedInv, ShapesShared
    <3>. QED BY <3>2, <3>3, <3>5, <3>6, <1>5
  <2>5. ASSUME NEW p \in Shapes', NEW q \in Shapes',
               shapes'[p].propNames = shapes'[q].propNames
        PROVE  p = q
    <3>1. CASE p \in Shapes /\ q \in Shapes
      BY <3>1, <2>5, <1>3 DEF SharedInv, ShapesShared
    <3>2. CASE p = t /\ q \in Shapes
      BY <3>2, <2>5, <1>3, <2>2, <2>4
    <3>3. CASE q = t /\ p \in Shapes
      BY <3>3, <2>5, <1>3, <2>2, <2>4
    <3>. QED BY <2>1, <3>1, <3>2, <3>3
  <2>. QED BY <2>5 DEF ShapesShared
<1>. QED BY <1>3, <1>4, <1>5

(* Objects built by the same sequence of additions share one Shape, for any
   number of objects and sites: this is what keeps a monomorphic site hot. *)
THEOREM Sharing == Spec => []ShapesShared
<1>1. Init => SharedInv
  <2> SUFFICES ASSUME Init PROVE SharedInv
    OBVIOUS
  <2>1. IInv
    BY InitSound
  <2>2. Shapes = {1} /\ shapes[1].propNames = <<>>
    BY DEF Init, Shapes
  <2>. QED BY <2>1, <2>2 DEF SharedInv, ShapesShared
<1>2. SharedInv /\ [Next]_vars => SharedInv'
  <2> SUFFICES ASSUME SharedInv, [Next]_vars PROVE SharedInv'
    OBVIOUS
  <2>1. IInv' /\ HeapGrows
    BY StepSound DEF SharedInv
  <2>2. shapes'[1].propNames = <<>>
    BY <2>1 DEF HeapGrows, SharedInv, IInv, TypeOK
  <2>3. ShapesShared'
    <3>1. CASE shapes' = shapes
      BY <3>1 DEF SharedInv, ShapesShared, Shapes
    <3>2. CASE \E s \in Shapes, n \in Names : ~ Owns(s, n) /\ shapes' = Extended(s, n)
      BY <3>2, ExtendShares
    <3>. QED BY <3>1, <3>2, StepHeap DEF SharedInv
  <2>. QED BY <2>1, <2>2, <2>3 DEF SharedInv
<1>3. SharedInv => ShapesShared
  BY DEF SharedInv
<1>. QED BY <1>1, <1>2, <1>3, PTL DEF Spec
-----------------------------------------------------------------------------
(* Enumeration. *)

(* What holds at the beginning and is kept by every round holds at the end. *)
LEMMA Rounds ==
  ASSUME NEW n, NEW P, n \in Nat, 0 \in P, \A k \in 1..n : k - 1 \in P => k \in P
  PROVE  \A k \in 0..n : k \in P
<1> DEFINE B == {k \in 0..n : k \notin P}
<1>1. CASE B = {}
  BY <1>1
<1>2. CASE B # {}
  <2>1. B \in SUBSET Nat
    OBVIOUS
  <2> HIDE DEF B
  <2>2. PICK m \in B : \A j \in B : ~ (<<j, m>> \in OpToRel(<, Nat))
    BY <1>2, <2>1, NatLessThanWellFounded, WFMin
  <2>3. \A j \in B : ~ (j < m)
    <3> TAKE j \in B
    <3>1. <<j, m>> \in Nat \X Nat /\ <<j, m>>[1] = j /\ <<j, m>>[2] = m
      BY <2>1
    <3>2. j < m => <<j, m>> \in OpToRel(<, Nat)
      BY <3>1, Zenon DEF OpToRel
    <3>. QED BY <2>2, <3>2, Zenon
  <2> USE DEF B
  <2>4. m \in 1..n /\ m - 1 \in 0..n /\ m - 1 < m
    <3>1. m \in 0..n /\ m # 0
      OBVIOUS
    <3>. QED BY <3>1
  <2>5. m - 1 \in P
    BY <2>3, <2>4
  <2>. QED BY <2>4, <2>5
<1>. QED BY <1>1, <1>2

(* The loop of PropNames over names, as far as the first n of them. *)
Lists(g, names, tombs, n) ==
  g = [i \in 0..n |-> IF i = 0 THEN <<>>
                      ELSE IF names[i] \in tombs THEN g[i - 1]
                      ELSE Append(g[i - 1], names[i])]

(* There is one, a round at a time. *)
LEMMA ListsExists ==
  ASSUME NEW names, NEW tombs, NEW n \in Nat
  PROVE  \E g : Lists(g, names, tombs, n)
<1> DEFINE P == {m \in 0..n : \E g : Lists(g, names, tombs, m)}
<1>1. 0 \in P
  <2>1. Lists([i \in 0..0 |-> <<>>], names, tombs, 0)
    BY DEF Lists
  <2>2. \E g : Lists(g, names, tombs, 0)
    BY <2>1
  <2>. QED BY <2>2
<1>2. ASSUME NEW k \in 1..n, k - 1 \in P
      PROVE  k \in P
  <2>1. PICK g : Lists(g, names, tombs, k - 1)
    BY <1>2
  <2> DEFINE x == IF names[k] \in tombs THEN g[k - 1] ELSE Append(g[k - 1], names[k])
             h == [i \in 0..k |-> IF i = k THEN x ELSE g[i]]
  <2>2. \A i \in 0..(k - 1) : i \in 0..k /\ i # k
    OBVIOUS
  <2>3. \A i \in 0..(k - 1) :
          g[i] = IF i = 0 THEN <<>>
                 ELSE IF names[i] \in tombs THEN g[i - 1] ELSE Append(g[i - 1], names[i])
    BY <2>1 DEF Lists
  <2>4. \A i \in 0..k : i = k \/ i \in 0..(k - 1)
    OBVIOUS
  <2>5. \A i \in 0..k : i # 0 => i - 1 \in 0..(k - 1)
    OBVIOUS
  <2>6. h[k] = x /\ \A i \in 0..(k - 1) : h[i] = g[i]
    BY <2>2
  <2>7. k \in 0..n /\ k \in 0..k /\ k # 0
    OBVIOUS
  <2> HIDE DEF x
  <2>8. \A i \in 0..k :
          h[i] = IF i = 0 THEN <<>>
                 ELSE IF names[i] \in tombs THEN h[i - 1] ELSE Append(h[i - 1], names[i])
    <3> TAKE i \in 0..k
    <3> HIDE DEF h
    <3>1. CASE i = k
      <4>1. h[k - 1] = g[k - 1]
        BY <2>5, <2>6, <2>7
      <4>. QED BY <2>6, <2>7, <3>1, <4>1 DEF x
    <3>2. CASE i # k
      <4>1. i \in 0..(k - 1) /\ (i # 0 => i - 1 \in 0..(k - 1))
        BY <2>4, <2>5, <3>2
      <4>2. h[i] = g[i] /\ (i # 0 => h[i - 1] = g[i - 1])
        BY <2>6, <4>1
      <4>. QED BY <2>3, <4>1, <4>2
    <3>. QED BY <3>1, <3>2
  <2>9. Lists(h, names, tombs, k)
    <3> DEFINE step(i) == IF i = 0 THEN <<>>
                 ELSE IF names[i] \in tombs THEN h[i - 1] ELSE Append(h[i - 1], names[i])
    <3>1. h = [i \in 0..k |-> h[i]]
      OBVIOUS
    <3> HIDE DEF h
    <3>2. h = [i \in 0..k |-> step(i)]
      BY <2>8, <3>1
    <3>. QED BY <3>2 DEF Lists
  <2>10. \E f : Lists(f, names, tombs, k)
    BY <2>9
  <2> HIDE DEF h
  <2>. QED BY <2>7, <2>10
<1>3. \A k \in 0..n : k \in P
  <2> HIDE DEF P
  <2>. QED BY <1>1, <1>2, Rounds
<1>. QED BY <1>3

(* What a list of the first k names is: those without a tombstone, each once. *)
ListsLive(q, names, tombs, k) ==
  /\ q \in Seq(Names)
  /\ \A m \in Names : (\E i \in DOMAIN q : q[i] = m)
                        <=> m \notin tombs /\ \E j \in 1..k : names[j] = m
  /\ \A i, j \in DOMAIN q : q[i] = q[j] => i = j

(* A round keeps it. *)
LEMMA NextListed ==
  ASSUME NEW names \in Seq(Names), NEW tombs, NEW q, NEW k \in 1..Len(names),
         \A i, j \in 1..Len(names) : names[i] = names[j] => i = j,
         ListsLive(q, names, tombs, k - 1)
  PROVE  ListsLive(IF names[k] \in tombs THEN q ELSE Append(q, names[k]), names, tombs, k)
<1>1. /\ names[k] \in Names /\ q \in Seq(Names) /\ Len(q) \in Nat
      /\ \A j \in 1..k : j = k \/ j \in 1..(k - 1)
      /\ \A j \in 1..(k - 1) : j \in 1..k /\ j \in 1..Len(names) /\ j # k
      /\ k \in 1..k
  BY DEF ListsLive
<1>2. CASE names[k] \in tombs
  <2>1. \A m \in Names : m \notin tombs => ((\E j \in 1..k : names[j] = m)
                                             <=> \E j \in 1..(k - 1) : names[j] = m)
    BY <1>1, <1>2
  <2>2. ListsLive(q, names, tombs, k)
    BY <2>1 DEF ListsLive
  <2>. QED BY <1>2, <2>2
<1>3. CASE names[k] \notin tombs
  <2> DEFINE t == Append(q, names[k])
  <2>1. /\ t \in Seq(Names) /\ DOMAIN t = 1..(Len(q) + 1) /\ t[Len(q) + 1] = names[k]
        /\ \A i \in 1..Len(q) : t[i] = q[i]
    BY <1>1
  <2>2. DOMAIN q = 1..Len(q)
    BY <1>1
  <2>3. \A i \in DOMAIN t : i = Len(q) + 1 \/ i \in DOMAIN q
    BY <1>1, <2>1, <2>2
  <2>4. Len(q) + 1 \in DOMAIN t /\ DOMAIN q \subseteq DOMAIN t
    BY <1>1, <2>1, <2>2
  <2> HIDE DEF t
  <2>5. \A j \in 1..(k - 1) : names[j] # names[k]
    BY <1>1
  <2>6. \A i \in DOMAIN q : q[i] # names[k]
    BY <1>1, <2>5 DEF ListsLive
  <2>7. \A m \in Names : (\E i \in DOMAIN t : t[i] = m)
                           <=> m = names[k] \/ \E i \in DOMAIN q : q[i] = m
    BY <2>1, <2>2, <2>3, <2>4
  <2>8. \A m \in Names : (\E j \in 1..k : names[j] = m)
                           <=> m = names[k] \/ \E j \in 1..(k - 1) : names[j] = m
    BY <1>1
  <2>9. \A m \in Names : (\E i \in DOMAIN t : t[i] = m)
                           <=> m \notin tombs /\ \E j \in 1..k : names[j] = m
    BY <1>3, <2>7, <2>8 DEF ListsLive
  <2>10. ASSUME NEW i \in DOMAIN t, NEW j \in DOMAIN t, t[i] = t[j]
         PROVE  i = j
    <3>1. CASE i \in DOMAIN q /\ j \in DOMAIN q
      BY <2>1, <2>2, <2>10, <3>1 DEF ListsLive
    <3>2. CASE i = Len(q) + 1 /\ j = Len(q) + 1
      BY <3>2
    <3>. QED BY <2>1, <2>2, <2>3, <2>6, <2>10, <3>1, <3>2
  <2>11. ListsLive(t, names, tombs, k)
    BY <2>1, <2>9, <2>10 DEF ListsLive
  <2>. QED BY <1>3, <2>11 DEF t
<1>. QED BY <1>2, <1>3

(* What PropNames answers. *)
LEMMA PropNamesLive ==
  ASSUME NEW o \in Objs, NEW names \in Seq(Names), names = shapes[shape[o]].propNames,
         \A i, j \in 1..Len(names) : names[i] = names[j] => i = j
  PROVE  ListsLive(PropNames(o), names, Tombs(o), Len(names))
<1> DEFINE n == Len(names)
           f == CHOOSE listed : Lists(listed, names, Tombs(o), n)
<1>1. n \in Nat
  OBVIOUS
<1>2. PropNames(o) = f[n]
  BY DEF PropNames, Lists
<1>3. Lists(f, names, Tombs(o), n)
  BY <1>1, ListsExists
<1> HIDE DEF f, n
<1>4. /\ f[0] = <<>>
      /\ \A k \in 1..n : f[k] = IF names[k] \in Tombs(o) THEN f[k - 1] ELSE Append(f[k - 1], names[k])
  <2>1. 0 \in 0..n /\ \A k \in 1..n : k \in 0..n /\ k # 0
    BY <1>1
  <2>2. \A i \in 0..n : f[i] = IF i = 0 THEN <<>>
                               ELSE IF names[i] \in Tombs(o) THEN f[i - 1]
                               ELSE Append(f[i - 1], names[i])
    BY <1>3 DEF Lists
  <2>. QED BY <2>1, <2>2
<1> DEFINE P == {k \in 0..n : ListsLive(f[k], names, Tombs(o), k)}
<1>5. 0 \in P
  <2>1. ListsLive(<<>>, names, Tombs(o), 0)
    BY DEF ListsLive
  <2>. QED BY <1>1, <1>4, <2>1
<1>6. ASSUME NEW k \in 1..n, k - 1 \in P
      PROVE  k \in P
  <2>1. ListsLive(f[k - 1], names, Tombs(o), k - 1) /\ k \in 0..n /\ k \in 1..Len(names)
    BY <1>1, <1>6 DEF n
  <2>2. ListsLive(IF names[k] \in Tombs(o) THEN f[k - 1] ELSE Append(f[k - 1], names[k]),
                  names, Tombs(o), k)
    BY <2>1, NextListed
  <2>. QED BY <1>4, <2>1, <2>2
<1>7. \A k \in 0..n : k \in P
  <2> HIDE DEF P
  <2>. QED BY <1>1, <1>5, <1>6, Rounds
<1>8. ListsLive(f[n], names, Tombs(o), n)
  <2>1. n \in 0..n
    BY <1>1
  <2>. QED BY <1>7, <2>1
<1>. QED BY <1>2, <1>8 DEF n

(* PropNames and the reads agree on what is there: a name is enumerated exactly
   if an own read of it succeeds, and once. *)
THEOREM Enumeration == Spec => []EnumerationExact
<1>1. IInv => EnumerationExact
  <2> SUFFICES ASSUME IInv, NEW o \in Objs
               PROVE  /\ \A n \in Names : (\E i \in DOMAIN PropNames(o) : PropNames(o)[i] = n)
                                            <=> GetOwn(o, n) # Missing
                      /\ \A i, j \in DOMAIN PropNames(o) : PropNames(o)[i] = PropNames(o)[j] => i = j
    BY DEF EnumerationExact
  <2> DEFINE s == shape[o]
             names == shapes[s].propNames
  <2>1. /\ s \in Shapes /\ shapes[s] \in ShapeRecord /\ LayoutConsistent(s)
        /\ Len(values[o]) = Len(names) /\ values[o] \in Seq(Vals)
    BY DEF IInv, TypeOK, Coherent, LayoutsConsistent, VectorsFit, Shapes
  <2>2. names \in Seq(Names)
    BY <2>1 DEF ShapeRecord
  <2>3. \A i, j \in 1..Len(names) : names[i] = names[j] => i = j
    BY <2>1 DEF LayoutConsistent
  <2>4. ListsLive(PropNames(o), names, Tombs(o), Len(names))
    <3> HIDE DEF names
    <3>. QED BY <2>2, <2>3, PropNamesLive DEF names
  <2>5. \A n \in Names : Owns(s, n) <=> \E j \in 1..Len(names) : names[j] = n
    BY <2>1, <2>2 DEF LayoutConsistent, Owns, NoSlot
  <2>6. \A n \in Names : GetOwn(o, n) # Missing <=> n \notin Tombs(o) /\ Owns(s, n)
    <3> TAKE n \in Names
    <3>1. Owns(s, n) => values[o][PropIndex(s, n)] \in Vals
      BY <2>1 DEF LayoutConsistent
    <3>. QED BY <3>1, MissingAssumption DEF GetOwn
  <2>. QED BY <2>4, <2>5, <2>6 DEF ListsLive
<1>. QED BY <1>1, Coherence, PTL
=============================================================================
