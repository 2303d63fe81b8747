------------------------------ MODULE ShapeCache ------------------------------
(***************************************************************************)
(* internal/value/object.go: objects as a pointer to a shared, immutable   *)
(* Shape plus a slot vector, lazy deletion by tombstones, and the          *)
(* monomorphic inline caches that OpGetProp and OpSetProp keep one per     *)
(* bytecode site.  The cells sit in the Chunk, so every object that flows  *)
(* through a site shares its cell.  One action per operation; an operation *)
(* of the single interpreter goroutine is one step.                        *)
(***************************************************************************)
EXTENDS Integers, Sequences

CONSTANTS Objs,       \* the *Object values, all fresh from NewObject
          Names,      \* property names
          Vals,       \* property values
          Missing,    \* (Undefined(), false)
          GetSites,   \* OpGetProp sites, one PropCache each
          SetSites,   \* OpSetProp sites, one SetCache each
          GetName,    \* the constant name of each read site
          SetName     \* the constant name of each write site

ASSUME SitesAssumption == /\ GetName \in [GetSites -> Names]
                          /\ SetName \in [SetSites -> Names]

ASSUME MissingAssumption == Missing \notin Vals

VARIABLES shapes,     \* the Shape heap in allocation order; 1 is emptyShape
          shape,      \* shape[o]: the Shape pointer of o
          values,     \* values[o]: the slot vector of o
          deleted,    \* deleted[o]: the tombstones of o, and whether the map was
                      \* made (it is nil until the first Delete, never nil again)
          propCache,  \* propCache[c]: cell of read site c
          setCache    \* setCache[c]: cell of write site c

vars == <<shapes, shape, values, deleted, propCache, setCache>>

NilShape == 0   \* the nil *Shape
NoSlot   == 0   \* PropIndex's -1: slots count from 1 here

-----------------------------------------------------------------------------
(* Shape and Object helpers. *)

Shapes == DOMAIN shapes

PropIndex(s, n) == shapes[s].propsByName[n]

Owns(s, n) == PropIndex(s, n) # NoSlot

NoTransitions == [n \in Names |-> NilShape]

(* The Shape struct of an extension of s by n: the layout of s, then n. *)
NewShape(s, n) ==
  [propNames   |-> Append(shapes[s].propNames, n),
   propsByName |-> [shapes[s].propsByName EXCEPT
                      ![n] = Len(shapes[s].propNames) + 1],
   transitions |-> NoTransitions]

(* The Shape heap after s.Extend(n): a child is made at most once and is
   remembered in the parent's transitions. *)
Extended(s, n) ==
  IF shapes[s].transitions[n] # NilShape
  THEN shapes
  ELSE Append([shapes EXCEPT ![s].transitions[n] = Len(shapes) + 1],
              NewShape(s, n))

Child(s, n) == Extended(s, n)[s].transitions[n]

NoMap == [made |-> FALSE, names |-> {}]     \* the nil map

Tombs(o) == deleted[o].names

(* Object.GetOwn: the tombstone is consulted before the shape. *)
GetOwn(o, n) == IF n \in Tombs(o) \/ ~ Owns(shape[o], n)
                THEN Missing
                ELSE values[o][PropIndex(shape[o], n)]

(* Slip: tombstones are not consulted. *)
PropNamesOfShape(o) == shapes[shape[o]].propNames

(* Object.PropNames: listed[i] is out after the first i names of the shape. *)
PropNames(o) ==
  LET names == shapes[shape[o]].propNames
      listed[i \in 0..Len(names)] ==
        IF i = 0 THEN <<>>
        ELSE IF names[i] \in Tombs(o) THEN listed[i - 1]
        ELSE Append(listed[i - 1], names[i])
  IN listed[Len(names)]

-----------------------------------------------------------------------------
Init ==
  /\ shapes = <<[propNames |-> <<>>,
                 propsByName |-> [n \in Names |-> NoSlot],
                 transitions |-> NoTransitions]>>
  /\ shape = [o \in Objs |-> 1]
  /\ values = [o \in Objs |-> <<>>]
  /\ deleted = [o \in Objs |-> NoMap]
  /\ propCache = [c \in GetSites |-> [shape |-> NilShape, slot |-> 1]]
  /\ setCache = [c \in SetSites |-> [shape |-> NilShape, slot |-> 1,
                                     newShape |-> NilShape]]

(* Slip: the test compares shapes only. *)
HitsByShape(cell, o) == cell.shape = shape[o]

(* The inline-cache hit test shared by reads and writes. *)
Hits(cell, o) == cell.shape = shape[o] /\ ~ deleted[o].made

(* The PropCache cell after a read of n in o through a cell that missed. *)
FilledPropCache(cell, o, n) ==
  IF Owns(shape[o], n) /\ ~ deleted[o].made
  THEN [shape |-> shape[o], slot |-> PropIndex(shape[o], n)]
  ELSE cell

(* What a read through site c returns: the cached slot, or a full lookup. *)
CachedRead(c, o) == IF Hits(propCache[c], o)
                    THEN values[o][propCache[c].slot]
                    ELSE GetOwn(o, GetName[c])

(* Object.GetOwnCached as a step: a hit changes nothing. *)
GetOwnCached(c, o) ==
  /\ ~ Hits(propCache[c], o)
  /\ propCache' = [propCache EXCEPT
                     ![c] = FilledPropCache(@, o, GetName[c])]
  /\ UNCHANGED <<shapes, shape, values, deleted, setCache>>

(* Slip: a write empties the map of tombstones. *)
RevivesAll(o, n) == {}

(* The tombstones of o after a write of n: n's is dropped, the map stays. *)
Revives(o, n) == Tombs(o) \ {n}

(* The slow path shared by Set and SetCached: drop the tombstone of n, then
   write in place or append to an extended shape. *)
Store(o, n, v) ==
  /\ deleted' = [deleted EXCEPT ![o].names = Revives(o, n)]
  /\ \/ /\ Owns(shape[o], n)
        /\ values' = [values EXCEPT ![o][PropIndex(shape[o], n)] = v]
        /\ UNCHANGED <<shapes, shape>>
     \/ /\ ~ Owns(shape[o], n)
        /\ shapes' = Extended(shape[o], n)
        /\ shape' = [shape EXCEPT ![o] = Child(shape[o], n)]
        /\ values' = [values EXCEPT ![o] = Append(@, v)]

Set(o, n, v) ==
  /\ Store(o, n, v)
  /\ UNCHANGED <<propCache, setCache>>

(* Slip: the update regime forgets to clear newShape. *)
FilledSetCacheStale(cell, o, n) ==
  IF deleted[o].made
  THEN cell
  ELSE IF Owns(shape[o], n)
  THEN [shape |-> shape[o], slot |-> PropIndex(shape[o], n), newShape |-> cell.newShape]
  ELSE [shape |-> shape[o], slot |-> cell.slot, newShape |-> Child(shape[o], n)]

(* The SetCache cell after a write of n in o through a cell that missed: the
   update regime clears newShape, the add regime leaves the slot as it was. *)
FilledSetCache(cell, o, n) ==
  IF deleted[o].made
  THEN cell
  ELSE IF Owns(shape[o], n)
  THEN [shape |-> shape[o], slot |-> PropIndex(shape[o], n), newShape |-> NilShape]
  ELSE [shape |-> shape[o], slot |-> cell.slot, newShape |-> Child(shape[o], n)]

(* A hit in the update regime writes the cached slot; in the add regime it
   installs the cached shape and appends. *)
CachedStore(cell, o, v) ==
  \/ /\ cell.newShape = NilShape
     /\ values' = [values EXCEPT ![o][cell.slot] = v]
     /\ UNCHANGED shape
  \/ /\ cell.newShape # NilShape
     /\ shape' = [shape EXCEPT ![o] = cell.newShape]
     /\ values' = [values EXCEPT ![o] = Append(@, v)]

SetCached(c, o, v) ==
  LET cell == setCache[c]
      n    == SetName[c] IN
  /\ \/ /\ Hits(cell, o)
        /\ CachedStore(cell, o, v)
        /\ UNCHANGED <<shapes, deleted, setCache>>
     \/ /\ ~ Hits(cell, o)
        /\ Store(o, n, v)
        /\ setCache' = [setCache EXCEPT ![c] = FilledSetCache(cell, o, n)]
  /\ UNCHANGED propCache

(* Object.Delete of a property that is there; otherwise it only answers false. *)
Delete(o, n) ==
  /\ n \notin Tombs(o) /\ Owns(shape[o], n)
  /\ deleted' = [deleted EXCEPT ![o] = [made |-> TRUE, names |-> Tombs(o) \cup {n}]]
  /\ UNCHANGED <<shapes, shape, values, propCache, setCache>>

Next ==
  \E o \in Objs :
    \/ \E n \in Names : \/ Delete(o, n)
                        \/ \E v \in Vals : Set(o, n, v)
    \/ \E c \in GetSites : GetOwnCached(c, o)
    \/ \E c \in SetSites, v \in Vals : SetCached(c, o, v)

Spec == Init /\ [][Next]_vars

-----------------------------------------------------------------------------
(* Invariants. *)

ShapeRecord == [propNames   : Seq(Names),
                propsByName : [Names -> Nat],
                transitions : [Names -> Nat]]

(* Every variable has the Go type of the field it stands for. *)
TypeOK ==
  /\ shapes \in Seq(ShapeRecord) /\ 1 \in Shapes
  /\ shape \in [Objs -> Shapes]
  /\ values \in [Objs -> Seq(Vals)]
  /\ deleted \in [Objs -> [made : BOOLEAN, names : SUBSET Names]]
  /\ propCache \in [GetSites -> [shape : Nat, slot : Nat]]
  /\ setCache \in [SetSites -> [shape : Nat, slot : Nat, newShape : Nat]]

(* A shape's two descriptions of its layout agree: propsByName is the inverse
   of propNames, so no name has two slots and no slot two names. *)
LayoutConsistent(s) ==
  /\ \A n \in Names : Owns(s, n) =>
       /\ PropIndex(s, n) \in 1..Len(shapes[s].propNames)
       /\ shapes[s].propNames[PropIndex(s, n)] = n
  /\ \A i \in 1..Len(shapes[s].propNames) :
       PropIndex(s, shapes[s].propNames[i]) = i

LayoutsConsistent == \A s \in Shapes : LayoutConsistent(s)

(* t has the layout of s with n appended. *)
ExtendsBy(s, n, t) ==
  /\ ~ Owns(s, n)
  /\ shapes[t].propNames = Append(shapes[s].propNames, n)
  /\ \A m \in Names : PropIndex(t, m) = IF m = n
                                         THEN Len(shapes[s].propNames) + 1
                                         ELSE PropIndex(s, m)

(* A remembered transition leads to the layout that appends its name. *)
TransitionsExtend ==
  \A s \in Shapes, n \in Names :
    shapes[s].transitions[n] # NilShape =>
      /\ shapes[s].transitions[n] \in Shapes
      /\ ExtendsBy(s, n, shapes[s].transitions[n])

(* Every shape but the root was made by Extend, so a transition leads to it. *)
ParentsExist ==
  \A t \in Shapes \ {1} : \E s \in Shapes, n \in Names :
    shapes[s].transitions[n] = t

(* The slot vector tracks the shape (the comment of SetCached's add regime
   relies on it), only names of the layout are ever tombstoned, and a nil map
   holds no tombstone. *)
VectorsFit ==
  \A o \in Objs : /\ Len(values[o]) = Len(shapes[shape[o]].propNames)
                  /\ \A n \in Tombs(o) : Owns(shape[o], n)
                  /\ ~ deleted[o].made => Tombs(o) = {}

(* A filled read cell names the slot its site's name has in the cached shape,
   whatever objects have flowed through the site since it was filled. *)
PropCachesCoherent ==
  \A c \in GetSites : propCache[c].shape # NilShape =>
    LET s == propCache[c].shape IN
    /\ s \in Shapes
    /\ Owns(s, GetName[c])
    /\ propCache[c].slot = PropIndex(s, GetName[c])

(* A filled write cell is in exactly one of the two regimes SetCache's comment
   describes, and says what the slow path would do for the cached shape. *)
SetCachesCoherent ==
  \A c \in SetSites : setCache[c].shape # NilShape =>
    LET cell == setCache[c]
        n    == SetName[c] IN
    /\ cell.shape \in Shapes
    /\ \/ /\ cell.newShape = NilShape
          /\ Owns(cell.shape, n)
          /\ cell.slot = PropIndex(cell.shape, n)
       \/ /\ ~ Owns(cell.shape, n)
          /\ cell.newShape # NilShape
          /\ cell.newShape = shapes[cell.shape].transitions[n]

(* The object model is coherent: layouts, transitions, slot vectors and both
   kinds of inline cache describe the same heap. *)
Coherent == /\ LayoutsConsistent
            /\ TransitionsExtend
            /\ ParentsExist
            /\ VectorsFit
            /\ PropCachesCoherent
            /\ SetCachesCoherent

(* Type correctness, carried together with coherence: neither is inductive
   alone, since a cached slot or shape is followed without a check. *)
IInv == TypeOK /\ Coherent

(* A read through an inline cache answers exactly what the full lookup would,
   tombstones included: the cache is an optimisation, not a second truth. *)
CachedReadsExact ==
  \A c \in GetSites, o \in Objs : CachedRead(c, o) = GetOwn(o, GetName[c])

(* Objects that took the same construction path share their Shape: no two
   shapes have the same property list, so a monomorphic site stays so. *)
ShapesShared ==
  \A s, t \in Shapes : shapes[s].propNames = shapes[t].propNames => s = t

(* PropNames and the reads agree on what is there: a name is enumerated iff an
   own read of it succeeds, and it is enumerated once. *)
EnumerationExact ==
  \A o \in Objs :
    LET listed == PropNames(o) IN
    /\ \A n \in Names : (\E i \in DOMAIN listed : listed[i] = n)
                          <=> GetOwn(o, n) # Missing
    /\ \A i, j \in DOMAIN listed : listed[i] = listed[j] => i = j

(* Shape is "an immutable, shareable layout descriptor": no step changes the
   layout of an existing shape or redirects one of its transitions. *)
ShapesImmutable ==
  [][\A s \in Shapes :
       /\ shapes'[s].propNames = shapes[s].propNames
       /\ shapes'[s].propsByName = shapes[s].propsByName
       /\ \A n \in Names : shapes[s].transitions[n] # NilShape =>
            shapes'[s].transitions[n] = shapes[s].transitions[n]]_vars

-----------------------------------------------------------------------------
(* The abstract map behind the slots. *)
Contents == [o \in Objs |-> [n \in Names |-> GetOwn(o, n)]]

Store_ == INSTANCE PropertyStore WITH props <- Contents

(* Through any mix of cached and uncached writes, cache fills, deletions and
   re-insertions, the objects behave as independent maps: in particular a
   deleted name stays away until its own object writes it again, and no write
   through a shared site lands in another name's slot. *)
ImplementsPropertyStore == Store_!Spec

(* A write, cached or not, of a name that is there, that was deleted or that
   is new, stores its value in its name and changes nothing else of the heap. *)
WritesLand ==
  [][\A o \in Objs, v \in Vals :
       /\ \A n \in Names : Set(o, n, v) => Contents' = [Contents EXCEPT ![o][n] = v]
       /\ \A c \in SetSites :
            SetCached(c, o, v) => Contents' = [Contents EXCEPT ![o][SetName[c]] = v]]_vars
=============================================================================
