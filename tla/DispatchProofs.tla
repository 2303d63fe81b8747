---------------------------- MODULE DispatchProofs ----------------------------
(***************************************************************************)
(* What Dispatch says of objects, for every heap that literals can build,  *)
(* every set of functions, names and numbers, and any length of script:    *)
(* objects stay well formed (ObjectsHold), each operation of the runtime   *)
(* is one of OrdinaryObjects, or one that it leaves out (OrdinaryHolds),   *)
(* and elements of typed arrays read back what was written to them         *)
(* (ElementsHold).                                                         *)
(*                                                                         *)
(* ObjectsSound alone is not inductive: that addresses refer to objects    *)
(* needs the heap to be typed, objects and their views together, and the   *)
(* prototype of an instance needs to be what the function that constructed *)
(* it had then.  ObjectsInv says both.                                     *)
(***************************************************************************)
EXTENDS Dispatch, SequenceTheorems, FunctionTheorems, WellFoundedInduction, TLAPS

(* The fields of an object by themselves, among n objects. *)
Fields(r, n) ==
  /\ r = [data |-> r.data, accessors |-> r.accessors, proto |-> r.proto,
          proxy |-> r.proxy, view |-> r.view, bytes |-> r.bytes]
  /\ r.data \in [DOMAIN r.data -> Held] /\ DOMAIN r.data \subseteq Names \cup Int
  /\ r.accessors \in [DOMAIN r.accessors -> Pairs] /\ DOMAIN r.accessors \subseteq Names
  /\ r.proto \in 0..n
  /\ r.proxy \in [target : 1..n, handler : 1..n] \cup {NoProxy}
  /\ r.view \in [kind : Kinds, buffer : 1..n, offset : Nat, length : Int] \cup {NoView}
  /\ r.bytes \in Seq(0..(Base - 1)) \cup {NoBytes}

(* A heap is a sequence of objects whose views lie over buffers. *)
LEMMA HeapParts ==
  ASSUME NEW h
  PROVE  HeapTyped(h) <=> /\ Len(h) \in Nat /\ h = [o \in 1..Len(h) |-> h[o]]
                          /\ \A o \in 1..Len(h) : Fields(h[o], Len(h))
                          /\ \A o \in 1..Len(h) :
                               h[o].view # NoView => Lies(h[o].view, h[h[o].view.buffer].bytes)
BY DEF HeapTyped, ObjectTyped, Fields

(* A heap as a sequence over any set that holds its objects. *)
LEMMA HeapSequence ==
  ASSUME NEW h, HeapTyped(h), NEW S, \A o \in 1..Len(h) : h[o] \in S
  PROVE  h \in Seq(S) /\ DOMAIN h = 1..Len(h) /\ Len(h) \in Nat
<1> DEFINE n == Len(h)
<1>1. n \in Nat /\ h = [o \in 1..n |-> h[o]]
  BY HeapParts
<1> HIDE DEF n
<1>2. h \in [1..n -> S]
  BY <1>1 DEF n
<1>. QED BY <1>1, <1>2 DEF n

(* A function on 1..n is a sequence. *)
LEMMA FunctionSequence ==
  ASSUME NEW n \in Nat, NEW S, NEW f \in [1..n -> S]
  PROVE  f \in Seq(S) /\ Len(f) = n
OBVIOUS

(* A sequence is a function. *)
LEMMA SequenceFunction ==
  ASSUME NEW S, NEW s \in Seq(S)
  PROVE  Len(s) \in Nat /\ s = [k \in 1..Len(s) |-> s[k]]
OBVIOUS

(* Bytes in the place of others, as many if there are any. *)
AsMany(b, c) == b = c \/ (b # NoBytes /\ Len(b) = Len(c))

(* A view lies in them as it did in the others. *)
LEMMA StillLies ==
  ASSUME NEW w, NEW b, NEW c, AsMany(b, c), Lies(w, c)
  PROVE  Lies(w, b)
BY DEF AsMany, Lies

(* One object is put in the place of another that lies in the same buffers. *)
LEMMA ObjectChanged ==
  ASSUME NEW h, HeapTyped(h), NEW o \in 1..Len(h), NEW r, Fields(r, Len(h)),
         r.view = h[o].view, AsMany(r.bytes, h[o].bytes)
  PROVE  HeapTyped([h EXCEPT ![o] = r]) /\ Len([h EXCEPT ![o] = r]) = Len(h)
<1> DEFINE n == Len(h)
           g == [h EXCEPT ![o] = r]
<1>1. /\ n \in Nat /\ h = [p \in 1..n |-> h[p]] /\ \A p \in 1..n : Fields(h[p], n)
      /\ \A p \in 1..n : h[p].view # NoView => Lies(h[p].view, h[h[p].view.buffer].bytes)
  BY HeapParts
<1>2. g = [p \in 1..n |-> IF p = o THEN r ELSE h[p]]
  BY <1>1
<1>3. g \in Seq({g[p] : p \in 1..n}) /\ Len(g) = n
  <2> DEFINE S == {g[p] : p \in 1..n}
  <2>1. g \in [1..n -> S]
    BY <1>2
  <2> HIDE DEF g, n, S
  <2>2. g \in Seq(S) /\ Len(g) = n
    BY <1>1, <2>1, FunctionSequence
  <2>. QED BY <2>2 DEF S
<1>4. \A p \in 1..n : g[p] = IF p = o THEN r ELSE h[p]
  BY <1>2
<1>5. \A p \in 1..n : Fields(g[p], n)
  BY <1>1, <1>4 DEF n
<1>6. ASSUME NEW p \in 1..n, g[p].view # NoView
      PROVE  Lies(g[p].view, g[g[p].view.buffer].bytes)
  <2>1. g[p].view = h[p].view
    BY <1>4
  <2>2. Lies(h[p].view, h[h[p].view.buffer].bytes)
    BY <1>1, <1>6, <2>1
  <2>3. h[p].view.buffer \in 1..n
    BY <1>1, <1>6, <2>1 DEF Fields
  <2>4. \A q \in 1..n : AsMany(g[q].bytes, h[q].bytes)
    BY <1>4 DEF AsMany
  <2> HIDE DEF g, n
  <2>. QED BY <2>1, <2>2, <2>3, <2>4, StillLies
<1>7. g = [p \in 1..n |-> g[p]]
  BY <1>2
<1> HIDE DEF g, n
<1>8. HeapTyped(g)
  BY <1>1, <1>3, <1>5, <1>6, <1>7, HeapParts
<1>. QED BY <1>3, <1>8 DEF g, n

(* More objects only make more addresses. *)
LEMMA FieldsAmongMore ==
  ASSUME NEW n \in Nat, NEW m \in Nat, n <= m, NEW r, Fields(r, n)
  PROVE  Fields(r, m)
<1>1. 0..n \subseteq 0..m /\ 1..n \subseteq 1..m
  OBVIOUS
<1>2. [target : 1..n, handler : 1..n] \subseteq [target : 1..m, handler : 1..m]
  BY <1>1
<1>3. [kind : Kinds, buffer : 1..n, offset : Nat, length : Int]
        \subseteq [kind : Kinds, buffer : 1..m, offset : Nat, length : Int]
  BY <1>1
<1>. QED BY <1>1, <1>2, <1>3 DEF Fields

(* The objects a step may make: one or two. *)
Fresh(s, n) ==
  /\ s \in Seq({s[k] : k \in DOMAIN s}) /\ Len(s) \in 1..2 /\ DOMAIN s = 1..Len(s)
  /\ \A k \in 1..Len(s) : Fields(s[k], n + Len(s))

(* The views among the new objects s lie over buffers of the heap h. *)
ViewsOver(s, h) == \A k \in 1..Len(s) : s[k].view # NoView => Lies(s[k].view, h[s[k].view.buffer].bytes)

(* Objects are added to a heap. *)
LEMMA ObjectsAdded ==
  ASSUME NEW h, HeapTyped(h), NEW s, Fresh(s, Len(h)),
         ViewsOver(s, h \o s)
  PROVE  /\ HeapTyped(h \o s) /\ Len(h \o s) = Len(h) + Len(s)
         /\ \A o \in 1..Len(h) : (h \o s)[o] = h[o]
         /\ \A k \in 1..Len(s) : (h \o s)[Len(h) + k] = s[k]
<1> DEFINE n == Len(h)
           m == n + Len(s)
           g == h \o s
           S == {h[o] : o \in 1..n} \cup {s[k] : k \in DOMAIN s}
<1>1. /\ n \in Nat /\ \A p \in 1..n : Fields(h[p], n)
      /\ \A p \in 1..n : h[p].view # NoView => Lies(h[p].view, h[h[p].view.buffer].bytes)
  BY HeapParts
<1>2. h \in Seq(S) /\ s \in Seq(S) /\ Len(s) \in 1..2 /\ DOMAIN s = 1..Len(s)
  <2>1. h \in Seq(S)
    BY HeapSequence
  <2>. QED BY <2>1 DEF Fresh
<1> HIDE DEF S
<1>3. /\ g \in Seq(S) /\ Len(g) = m
      /\ \A i \in 1..m : g[i] = IF i <= n THEN h[i] ELSE s[i - n]
  BY <1>2, ConcatProperties
<1>4. m \in Nat /\ n <= m /\ g = [p \in 1..m |-> g[p]]
  <2>1. g = [p \in 1..Len(g) |-> g[p]]
    BY <1>3, SequenceFunction
  <2>2. m \in Nat /\ n <= m
    BY <1>1, <1>2
  <2>. QED BY <1>3, <2>1, <2>2
<1>5. /\ \A o \in 1..n : g[o] = h[o]
      /\ \A k \in 1..Len(s) : g[n + k] = s[k]
  BY <1>1, <1>2, <1>3
<1> HIDE DEF g
<1>6. \A p \in 1..m : Fields(g[p], m)
  <2> TAKE p \in 1..m
  <2>1. CASE p <= n
    <3>1. p \in 1..n /\ g[p] = h[p] /\ Fields(h[p], n)
      BY <1>1, <1>5, <2>1
    <3>. QED BY <1>1, <1>4, <3>1, FieldsAmongMore
  <2>2. CASE ~ (p <= n)
    <3>1. p - n \in 1..Len(s) /\ g[p] = s[p - n]
      BY <1>1, <1>2, <1>3, <2>2
    <3>. QED BY <3>1 DEF Fresh
  <2>. QED BY <2>1, <2>2
<1>7. ASSUME NEW p \in 1..m, g[p].view # NoView
      PROVE  Lies(g[p].view, g[g[p].view.buffer].bytes)
  <2>1. CASE p <= n
    <3>1. p \in 1..n /\ g[p] = h[p] /\ Fields(h[p], n) /\ Lies(h[p].view, h[h[p].view.buffer].bytes)
      BY <1>1, <1>5, <1>7, <2>1
    <3>2. h[p].view.buffer \in 1..n
      BY <1>7, <3>1 DEF Fields
    <3>. QED BY <1>5, <3>1, <3>2
  <2>2. CASE ~ (p <= n)
    <3>1. p - n \in 1..Len(s) /\ g[p] = s[p - n]
      BY <1>1, <1>2, <1>3, <2>2
    <3>. QED BY <1>7, <3>1 DEF g, ViewsOver
  <2>. QED BY <2>1, <2>2
<1> HIDE DEF n, m
<1>8. HeapTyped(g)
  BY <1>3, <1>4, <1>6, <1>7, HeapParts
<1>. QED BY <1>3, <1>5, <1>8 DEF g, m, n

-----------------------------------------------------------------------------
(* Bytes. *)

Bytes == 0..(Base - 1)

(* What is left after a division by Base is a byte. *)
LEMMA ByteRange ==
  ASSUME NEW x \in Int
  PROVE  x % Base \in Bytes /\ x \div Base \in Int
BY BaseAssumption DEF Bytes

(* The product of two numbers that are not less than two is not less than four. *)
LEMMA Products ==
  ASSUME NEW a \in Nat, NEW b \in Nat, a >= 2, b >= 2
  PROVE  a * b \in Nat /\ a * b >= 2
<1>1. a * b \in Nat
  OBVIOUS
<1>2. a * b >= 2 * b
  OBVIOUS
<1>. QED BY <1>1, <1>2

(* 2^32 is a number that is not less than two. *)
LEMMA WordsRange == Words \in Nat /\ Words >= 2
<1>1. Base \in Nat /\ Base >= 2
  BY BaseAssumption
<1>2. Base * Base \in Nat /\ Base * Base >= 2
  BY <1>1, Products
<1>3. (Base * Base) * Base \in Nat /\ (Base * Base) * Base >= 2
  BY <1>1, <1>2, Products
<1>4. ((Base * Base) * Base) * Base \in Nat /\ ((Base * Base) * Base) * Base >= 2
  BY <1>1, <1>3, Products
<1>. QED BY <1>4 DEF Words

(* ToUint32 of an integer is less than 2^32, and Int32 an integer. *)
LEMMA WordRange ==
  ASSUME NEW v \in Int
  PROVE  ToUint32JS(v) \in 0..(Words - 1) /\ Int32(v) \in Int
<1>1. v % Words \in 0..(Words - 1)
  BY WordsRange
<1>2. v - Words \in Int
  BY WordsRange
<1>. QED BY <1>1, <1>2 DEF ToUint32JS, Int32

(* The bytes of a number. *)
LEMMA OctetsRange ==
  ASSUME NEW u \in Int
  PROVE  \A k \in 1..4 : Octets(u)[k] \in Bytes
<1> DEFINE u1 == u \div Base
           u2 == u1 \div Base
           u3 == u2 \div Base
<1>1. u1 \in Int /\ u2 \in Int /\ u3 \in Int
  BY ByteRange
<1>2. u % Base \in Bytes /\ u1 % Base \in Bytes /\ u2 % Base \in Bytes /\ u3 % Base \in Bytes
  BY <1>1, ByteRange
<1>3. Octets(u) = <<u % Base, u1 % Base, u2 % Base, u3 % Base>>
  BY DEF Octets
<1> HIDE DEF u1, u2, u3, Bytes
<1> DEFINE a == u % Base
           b == u1 % Base
           c == u2 % Base
           d == u3 % Base
<1>4. a \in Bytes /\ b \in Bytes /\ c \in Bytes /\ d \in Bytes /\ Octets(u) = <<a, b, c, d>>
  BY <1>2, <1>3
<1> HIDE DEF a, b, c, d
<1>. QED BY <1>4

(* The width of an element. *)
LEMMA Widths ==
  ASSUME NEW kind \in Kinds
  PROVE  BytesPerElem(kind) \in {1, 4}
BY DEF BytesPerElem

(* A write of an element leaves bytes, as many as there were. *)
LEMMA WriteElemBytes ==
  ASSUME NEW bytes \in Seq(Bytes), NEW kind \in Kinds, NEW i \in Int, NEW v \in Int
  PROVE  WriteElem(bytes, kind, i, v) \in Seq(Bytes) /\ Len(WriteElem(bytes, kind, i, v)) = Len(bytes)
<1> DEFINE w == BytesPerElem(kind)
           n == Len(bytes)
           f == [b \in 1..n |-> LET k == b - 1 - w * i
                                IN IF k \in 0..(w - 1) THEN Octets(ToUint32JS(v))[k + 1] ELSE bytes[b]]
<1>1. n \in Nat /\ DOMAIN bytes = 1..n /\ \A b \in 1..n : bytes[b] \in Bytes
  OBVIOUS
<1>2. w \in {1, 4}
  BY Widths
<1>3. \A k \in 1..4 : Octets(ToUint32JS(v))[k] \in Bytes
  <2>1. ToUint32JS(v) \in Int
    BY WordRange, WordsRange
  <2>. QED BY <2>1, OctetsRange
<1>4. WriteElem(bytes, kind, i, v) = bytes \/ WriteElem(bytes, kind, i, v) = f
  BY <1>1 DEF WriteElem
<1> HIDE DEF w, n
<1>5. f \in [1..n -> Bytes]
  <2> SUFFICES ASSUME NEW b \in 1..n, NEW k, k = b - 1 - w * i
               PROVE  (IF k \in 0..(w - 1) THEN Octets(ToUint32JS(v))[k + 1] ELSE bytes[b]) \in Bytes
    OBVIOUS
  <2>1. CASE k \in 0..(w - 1)
    <3>1. k + 1 \in 1..4
      BY <1>2, <2>1
    <3>. QED BY <1>3, <2>1, <3>1
  <2>2. CASE k \notin 0..(w - 1)
    BY <1>1, <2>2
  <2>. QED BY <2>1, <2>2
<1> HIDE DEF f
<1>6. f \in Seq(Bytes) /\ Len(f) = n
  BY <1>1, <1>5, FunctionSequence
<1>. QED BY <1>4, <1>6 DEF n

(* What is read from bytes is an integer. *)
LEMMA ReadElemInt ==
  ASSUME NEW bytes \in Seq(Bytes), NEW kind \in Kinds, NEW i \in Int
  PROVE  ReadElem(bytes, kind, i) \in Int
<1>1. Base \in Int /\ \A b \in 1..Len(bytes) : bytes[b] \in Int
  BY BaseAssumption DEF Bytes
<1>2. ASSUME Fits(bytes, kind, i), kind = "Uint8"
      PROVE  bytes[i + 1] \in Int
  BY <1>1, <1>2 DEF Fits, BytesPerElem
<1>3. ASSUME Fits(bytes, kind, i), kind # "Uint8"
      PROVE  Int32(bytes[4 * i + 1] + Base * (bytes[4 * i + 2]
                     + Base * (bytes[4 * i + 3] + Base * bytes[4 * i + 4]))) \in Int
  <2> DEFINE a == bytes[4 * i + 1]
             b == bytes[4 * i + 2]
             c == bytes[4 * i + 3]
             d == bytes[4 * i + 4]
  <2>1. a \in Int /\ b \in Int /\ c \in Int /\ d \in Int
    BY <1>1, <1>3 DEF Fits, BytesPerElem
  <2> HIDE DEF a, b, c, d
  <2>2. a + Base * (b + Base * (c + Base * d)) \in Int
    <3>1. Base * d \in Int
      BY <1>1, <2>1
    <3>2. Base * (c + Base * d) \in Int
      BY <1>1, <2>1, <3>1
    <3>3. Base * (b + Base * (c + Base * d)) \in Int
      BY <1>1, <2>1, <3>2
    <3>. QED BY <2>1, <3>3
  <2>. QED BY <2>2, WordRange DEF a, b, c, d
<1>. QED BY <1>2, <1>3 DEF ReadElem

(* What holds at the beginning and is kept by every round holds at the end. *)
LEMMA Rounds ==
  ASSUME NEW n, NEW P, n \in Nat, 0 \in P, \A k \in 1..n : k - 1 \in P => k \in P
  PROVE  \A k \in 0..n : k \in P
<1> DEFINE B == {k \in 0..n : k \notin P}
<1>1. CASE B = {}
  BY <1>1
<1>2. CASE B # {}
  <2>1. B \in SUBSET Nat
    OBVIOUS
  <2> HIDE DEF B
  <2>2. PICK m \in B : \A j \in B : ~ (<<j, m>> \in OpToRel(<, Nat))
    BY <1>2, <2>1, NatLessThanWellFounded, WFMin
  <2>3. \A j \in B : ~ (j < m)
    <3> TAKE j \in B
    <3>1. <<j, m>> \in Nat \X Nat /\ <<j, m>>[1] = j /\ <<j, m>>[2] = m
      BY <2>1
    <3>2. j < m => <<j, m>> \in OpToRel(<, Nat)
      BY <3>1, Zenon DEF OpToRel
    <3>. QED BY <2>2, <3>2, Zenon
  <2> USE DEF B
  <2>4. m \in 1..n /\ m - 1 \in 0..n /\ m - 1 < m
    <3>1. m \in 0..n /\ m # 0
      OBVIOUS
    <3>. QED BY <3>1
  <2>5. m - 1 \in P
    BY <2>3, <2>4
  <2>. QED BY <2>4, <2>5
<1>. QED BY <1>1, <1>2

(* A view, over any buffer. *)
IsViewRecord(view) == view.kind \in Kinds /\ view.offset \in Nat /\ view.length \in Int

(* The place of an element is an integer. *)
LEMMA SlotInt ==
  ASSUME NEW view, IsViewRecord(view), NEW i \in Int
  PROVE  Slot(view, i) \in Int
<1>1. BytesPerElem(view.kind) \in {1, 4} /\ view.offset \in Nat
  BY Widths DEF IsViewRecord
<1>2. view.offset \div BytesPerElem(view.kind) \in Int
  BY <1>1
<1>. QED BY <1>2 DEF Slot

(* g[k] are the bytes after k elements of the source have been written. *)
Filling(g, bytes, view, source, off, n) ==
  g = [k \in 0..n |-> IF k = 0 THEN bytes
                      ELSE WriteElem(g[k - 1], view.kind, Slot(view, off + k - 1), source[k])]

(* There are such bytes, a round at a time. *)
LEMMA FillingExists ==
  ASSUME NEW bytes, NEW view, NEW source, NEW off, NEW n \in Nat
  PROVE  \E g : Filling(g, bytes, view, source, off, n)
<1> DEFINE P == {m \in 0..n : \E g : Filling(g, bytes, view, source, off, m)}
<1>1. 0 \in P
  <2>1. Filling([i \in 0..0 |-> bytes], bytes, view, source, off, 0)
    BY DEF Filling
  <2>2. \E g : Filling(g, bytes, view, source, off, 0)
    BY <2>1
  <2>. QED BY <2>2
<1>2. ASSUME NEW k \in 1..n, k - 1 \in P
      PROVE  k \in P
  <2>1. PICK g : Filling(g, bytes, view, source, off, k - 1)
    BY <1>2
  <2> DEFINE x == WriteElem(g[k - 1], view.kind, Slot(view, off + k - 1), source[k])
             h == [i \in 0..k |-> IF i = k THEN x ELSE g[i]]
  <2>2. \A i \in 0..(k - 1) : i \in 0..k /\ i # k
    OBVIOUS
  <2>3. \A i \in 0..(k - 1) :
          g[i] = IF i = 0 THEN bytes ELSE WriteElem(g[i - 1], view.kind, Slot(view, off + i - 1), source[i])
    BY <2>1 DEF Filling
  <2>4. \A i \in 0..k : i = k \/ i \in 0..(k - 1)
    OBVIOUS
  <2>5. \A i \in 0..k : i # 0 => i - 1 \in 0..(k - 1)
    OBVIOUS
  <2>6. h[k] = x /\ \A i \in 0..(k - 1) : h[i] = g[i]
    BY <2>2
  <2>7. k \in 0..n /\ k \in 0..k /\ k # 0
    OBVIOUS
  <2> HIDE DEF x
  <2>8. \A i \in 0..k :
          h[i] = IF i = 0 THEN bytes ELSE WriteElem(h[i - 1], view.kind, Slot(view, off + i - 1), source[i])
    <3> TAKE i \in 0..k
    <3> HIDE DEF h
    <3>1. CASE i = k
      <4>1. h[k - 1] = g[k - 1]
        BY <2>5, <2>6, <2>7
      <4>. QED BY <2>6, <2>7, <3>1, <4>1 DEF x
    <3>2. CASE i # k
      <4>1. i \in 0..(k - 1) /\ (i # 0 => i - 1 \in 0..(k - 1))
        BY <2>4, <2>5, <3>2
      <4>2. h[i] = g[i] /\ (i # 0 => h[i - 1] = g[i - 1])
        BY <2>6, <4>1
      <4>. QED BY <2>3, <4>1, <4>2
    <3>. QED BY <3>1, <3>2
  <2>9. Filling(h, bytes, view, source, off, k)
    <3> DEFINE step(i) == IF i = 0 THEN bytes
                       ELSE WriteElem(h[i - 1], view.kind, Slot(view, off + i - 1), source[i])
    <3>1. h = [i \in 0..k |-> h[i]]
      OBVIOUS
    <3> HIDE DEF h
    <3>2. h = [i \in 0..k |-> step(i)]
      BY <2>8, <3>1
    <3>. QED BY <3>2 DEF Filling
  <2>10. \E f : Filling(f, bytes, view, source, off, k)
    BY <2>9
  <2> HIDE DEF h
  <2>. QED BY <2>7, <2>10
<1>3. \A k \in 0..n : k \in P
  <2> HIDE DEF P
  <2>. QED BY <1>1, <1>2, Rounds
<1>. QED BY <1>3

(* However many elements are written, bytes they are, and as many. *)
LEMMA FilledBytes ==
  ASSUME NEW bytes \in Seq(Bytes), NEW view, IsViewRecord(view), NEW source \in Seq(Int), NEW off \in Int
  PROVE  Filled(bytes, view, source, off) \in Seq(Bytes) /\ Len(Filled(bytes, view, source, off)) = Len(bytes)
<1> DEFINE n == Len(source)
           g == CHOOSE f : Filling(f, bytes, view, source, off, n)
           P == {k \in 0..n : g[k] \in Seq(Bytes) /\ Len(g[k]) = Len(bytes)}
<1>1. n \in Nat /\ \A k \in 1..n : source[k] \in Int
  OBVIOUS
<1>2. Filled(bytes, view, source, off) = g[n]
  BY DEF Filled, Filling
<1> HIDE DEF n
<1>3. Filling(g, bytes, view, source, off, n)
  BY <1>1, FillingExists
<1> HIDE DEF g
<1>4. 0 \in P
  BY <1>1, <1>3 DEF Filling
<1>5. ASSUME NEW k \in 1..n, k - 1 \in P
      PROVE  k \in P
  <2>1. g[k - 1] \in Seq(Bytes) /\ Len(g[k - 1]) = Len(bytes) /\ source[k] \in Int /\ k \in 0..n /\ k # 0
    BY <1>1, <1>5
  <2>2. Slot(view, off + k - 1) \in Int
    BY SlotInt
  <2>3. g[k] = WriteElem(g[k - 1], view.kind, Slot(view, off + k - 1), source[k])
    BY <1>3, <2>1 DEF Filling
  <2>4. view.kind \in Kinds
    BY DEF IsViewRecord
  <2> DEFINE t == WriteElem(g[k - 1], view.kind, Slot(view, off + k - 1), source[k])
  <2>5. t \in Seq(Bytes) /\ Len(t) = Len(g[k - 1])
    BY <2>1, <2>2, <2>4, WriteElemBytes
  <2> HIDE DEF t
  <2>. QED BY <2>1, <2>3, <2>5 DEF t
<1> HIDE DEF P
<1>6. \A k \in 0..n : k \in P
  BY <1>1, <1>4, <1>5, Rounds
<1>. QED BY <1>1, <1>2, <1>6 DEF P

(* slice() copies integers, as many as lie between its ends. *)
LEMMA SliceElemsInts ==
  ASSUME NEW bytes \in Seq(Bytes), NEW view, IsViewRecord(view), NEW start \in Int, NEW end \in Int
  PROVE  SliceElems(bytes, view, start, end) \in Seq(Int)
<1> DEFINE s == IF Counted(start, view.length) < 0 THEN 0 ELSE Counted(start, view.length)
           e == IF Counted(end, view.length) > view.length THEN view.length ELSE Counted(end, view.length)
           f == [k \in 1..(e - s) |-> ReadElem(bytes, view.kind, Slot(view, s + k - 1))]
<1>1. s \in Int /\ e \in Int
  BY DEF Counted, IsViewRecord
<1>2. SliceElems(bytes, view, start, end) = IF e <= s THEN <<>> ELSE f
  BY DEF SliceElems
<1> HIDE DEF s, e
<1>3. CASE e <= s
  <2>1. <<>> \in Seq(Int)
    OBVIOUS
  <2>. QED BY <1>2, <1>3, <2>1
<1>4. CASE ~ (e <= s)
  <2>1. e - s \in Nat
    BY <1>1, <1>4
  <2>2. \A k \in 1..(e - s) : ReadElem(bytes, view.kind, Slot(view, s + k - 1)) \in Int
    <3> TAKE k \in 1..(e - s)
    <3>1. s + k - 1 \in Int
      BY <1>1
    <3>. QED BY <3>1, SlotInt, ReadElemInt DEF IsViewRecord
  <2>3. f \in [1..(e - s) -> Int]
    BY <2>2
  <2> DEFINE n == e - s
  <2> HIDE DEF f, n
  <2>4. f \in Seq(Int)
    BY <2>1, <2>3, FunctionSequence DEF n
  <2>. QED BY <1>2, <1>4, <2>4
<1>. QED BY <1>3, <1>4

(* A new buffer holds bytes. *)
LEMMA ZeroBytesAre ==
  ASSUME NEW n \in Nat
  PROVE  ZeroBytes(n) \in Seq(Bytes) /\ Len(ZeroBytes(n)) = n
<1>1. 0 \in Bytes
  BY BaseAssumption DEF Bytes
<1>2. ZeroBytes(n) \in [1..n -> Bytes]
  BY <1>1 DEF ZeroBytes
<1>. QED BY <1>2, FunctionSequence

-----------------------------------------------------------------------------
(* What operations do to one object keeps the heap typed. *)

(* The heap, as its objects see it. *)
LEMMA HeapObject ==
  ASSUME NEW g, HeapTyped(g), NEW o \in 1..Len(g)
  PROVE  Fields(g[o], Len(g)) /\ DOMAIN g = 1..Len(g) /\ Len(g) \in Nat
<1>1. \A p \in 1..Len(g) : g[p] \in {g[q] : q \in 1..Len(g)}
  OBVIOUS
<1>2. DOMAIN g = 1..Len(g) /\ Len(g) \in Nat
  BY <1>1, HeapSequence
<1>. QED BY <1>2, HeapParts

(* The data of an object are replaced. *)
LEMMA DataReplaced ==
  ASSUME NEW g, HeapTyped(g), NEW o \in 1..Len(g), NEW d,
         d \in [DOMAIN d -> Held], DOMAIN d \subseteq Names \cup Int
  PROVE  LET h == [g EXCEPT ![o].data = d]
         IN /\ HeapTyped(h) /\ Len(h) = Len(g)
            /\ \A p \in 1..Len(g) : h[p].proto = g[p].proto
<1> DEFINE r == [data |-> d, accessors |-> g[o].accessors, proto |-> g[o].proto,
                 proxy |-> g[o].proxy, view |-> g[o].view, bytes |-> g[o].bytes]
           h == [g EXCEPT ![o].data = d]
<1>1. Fields(g[o], Len(g))
  BY HeapObject
<1>2. [g[o] EXCEPT !.data = d] = r
  BY <1>1 DEF Fields
<1>3. h = [g EXCEPT ![o] = r]
  <2>1. h = [g EXCEPT ![o] = [g[o] EXCEPT !.data = d]]
    OBVIOUS
  <2>. QED BY <1>2, <2>1
<1>4. Fields(r, Len(g)) /\ r.view = g[o].view /\ AsMany(r.bytes, g[o].bytes) /\ r.proto = g[o].proto
  BY <1>1 DEF Fields, AsMany
<1> HIDE DEF r
<1>5. HeapTyped(h) /\ Len(h) = Len(g)
  BY <1>3, <1>4, ObjectChanged
<1>6. \A p \in 1..Len(g) : h[p].proto = g[p].proto
  <2>1. DOMAIN g = 1..Len(g)
    BY HeapObject
  <2>. QED BY <1>3, <1>4, <2>1
<1>. QED BY <1>5, <1>6

(* The accessors of an object are replaced. *)
LEMMA AccessorsReplaced ==
  ASSUME NEW g, HeapTyped(g), NEW o \in 1..Len(g), NEW d,
         d \in [DOMAIN d -> Pairs], DOMAIN d \subseteq Names
  PROVE  LET h == [g EXCEPT ![o].accessors = d]
         IN /\ HeapTyped(h) /\ Len(h) = Len(g)
            /\ \A p \in 1..Len(g) : h[p].proto = g[p].proto
<1> DEFINE r == [data |-> g[o].data, accessors |-> d, proto |-> g[o].proto,
                 proxy |-> g[o].proxy, view |-> g[o].view, bytes |-> g[o].bytes]
           h == [g EXCEPT ![o].accessors = d]
<1>1. Fields(g[o], Len(g))
  BY HeapObject
<1>2. [g[o] EXCEPT !.accessors = d] = r
  BY <1>1 DEF Fields
<1>3. h = [g EXCEPT ![o] = r]
  <2>1. h = [g EXCEPT ![o] = [g[o] EXCEPT !.accessors = d]]
    OBVIOUS
  <2>. QED BY <1>2, <2>1
<1>4. Fields(r, Len(g)) /\ r.view = g[o].view /\ AsMany(r.bytes, g[o].bytes) /\ r.proto = g[o].proto
  BY <1>1 DEF Fields, AsMany
<1> HIDE DEF r
<1>5. HeapTyped(h) /\ Len(h) = Len(g)
  BY <1>3, <1>4, ObjectChanged
<1>6. \A p \in 1..Len(g) : h[p].proto = g[p].proto
  <2>1. DOMAIN g = 1..Len(g)
    BY HeapObject
  <2>. QED BY <1>3, <1>4, <2>1
<1>. QED BY <1>5, <1>6

(* The prototype of an object is replaced. *)
LEMMA ProtoReplaced ==
  ASSUME NEW g, HeapTyped(g), NEW o \in 1..Len(g), NEW q \in 0..Len(g)
  PROVE  LET h == [g EXCEPT ![o].proto = q]
         IN /\ HeapTyped(h) /\ Len(h) = Len(g)
            /\ \A p \in 1..Len(g) : h[p].proto = IF p = o THEN q ELSE g[p].proto
<1> DEFINE r == [data |-> g[o].data, accessors |-> g[o].accessors, proto |-> q,
                 proxy |-> g[o].proxy, view |-> g[o].view, bytes |-> g[o].bytes]
           h == [g EXCEPT ![o].proto = q]
<1>1. Fields(g[o], Len(g))
  BY HeapObject
<1>2. [g[o] EXCEPT !.proto = q] = r
  BY <1>1 DEF Fields
<1>3. h = [g EXCEPT ![o] = r]
  <2>1. h = [g EXCEPT ![o] = [g[o] EXCEPT !.proto = q]]
    OBVIOUS
  <2>. QED BY <1>2, <2>1
<1>4. Fields(r, Len(g)) /\ r.view = g[o].view /\ AsMany(r.bytes, g[o].bytes) /\ r.proto = q
  BY <1>1 DEF Fields, AsMany
<1> HIDE DEF r
<1>5. HeapTyped(h) /\ Len(h) = Len(g)
  BY <1>3, <1>4, ObjectChanged
<1>6. \A p \in 1..Len(g) : h[p].proto = IF p = o THEN q ELSE g[p].proto
  <2>1. DOMAIN g = 1..Len(g)
    BY HeapObject
  <2>. QED BY <1>3, <1>4, <2>1
<1>. QED BY <1>5, <1>6

(* The bytes of a buffer are replaced. *)
LEMMA BytesReplaced ==
  ASSUME NEW g, HeapTyped(g), NEW o \in 1..Len(g), NEW b \in Seq(Bytes), Len(b) = Len(g[o].bytes)
  PROVE  LET h == [g EXCEPT ![o].bytes = b]
         IN /\ HeapTyped(h) /\ Len(h) = Len(g)
            /\ \A p \in 1..Len(g) : h[p].proto = g[p].proto /\ h[p].data = g[p].data
<1> DEFINE r == [data |-> g[o].data, accessors |-> g[o].accessors, proto |-> g[o].proto,
                 proxy |-> g[o].proxy, view |-> g[o].view, bytes |-> b]
           h == [g EXCEPT ![o].bytes = b]
<1>1. Fields(g[o], Len(g))
  BY HeapObject
<1>2. [g[o] EXCEPT !.bytes = b] = r
  BY <1>1 DEF Fields
<1>3. h = [g EXCEPT ![o] = r]
  <2>1. h = [g EXCEPT ![o] = [g[o] EXCEPT !.bytes = b]]
    OBVIOUS
  <2>. QED BY <1>2, <2>1
<1>4. /\ Fields(r, Len(g)) /\ r.view = g[o].view /\ AsMany(r.bytes, g[o].bytes)
      /\ r.proto = g[o].proto /\ r.data = g[o].data
  BY <1>1, DispatchAssumption DEF Fields, Bytes, AsMany
<1> HIDE DEF r
<1>5. HeapTyped(h) /\ Len(h) = Len(g)
  BY <1>3, <1>4, ObjectChanged
<1>6. \A p \in 1..Len(g) : h[p].proto = g[p].proto /\ h[p].data = g[p].data
  <2>1. DOMAIN g = 1..Len(g)
    BY HeapObject
  <2>. QED BY <1>3, <1>4, <2>1
<1>. QED BY <1>5, <1>6

-----------------------------------------------------------------------------
(* What is known of the state. *)

(* Calls are a sequence, of whatever records. *)
TypeInv == TypeOK /\ \E S : calls \in Seq(S)

(* Addresses are the first numbers. *)
LEMMA Addresses ==
  ASSUME TypeOK
  PROVE  /\ HeapTyped(heap) /\ Objects = 1..Len(heap) /\ Len(heap) \in Nat /\ Len(heap) >= 1
         /\ \A o \in Objects : Fields(heap[o], Len(heap))
<1>1. HeapTyped(heap) /\ Len(heap) \in 1..MaxObjects
  BY DEF TypeOK
<1>2. Len(heap) \in Nat /\ Len(heap) >= 1 /\ 1 \in 1..Len(heap)
  BY <1>1, DispatchAssumption
<1>3. DOMAIN heap = 1..Len(heap)
  BY <1>1, <1>2, HeapObject
<1>. QED BY <1>1, <1>2, <1>3, HeapObject DEF Objects

(* The data property n of an object is written. *)
LEMMA StoredTyped ==
  ASSUME TypeOK, NEW o \in Objects, NEW n \in Names, NEW v \in Held
  PROVE  /\ HeapTyped(Stored(o, n, v)) /\ Len(Stored(o, n, v)) = Len(heap)
         /\ \A p \in 1..Len(heap) : Stored(o, n, v)[p].proto = heap[p].proto
<1> DEFINE r == heap[o].data
           d == [m \in DOMAIN r \cup {n} |-> IF m = n THEN v ELSE r[m]]
<1>1. HeapTyped(heap) /\ o \in 1..Len(heap) /\ Fields(heap[o], Len(heap))
  BY Addresses
<1>2. d \in [DOMAIN d -> Held] /\ DOMAIN d \subseteq Names \cup Int
  BY <1>1 DEF Fields
<1>3. Stored(o, n, v) = [heap EXCEPT ![o].data = d]
  BY DEF Stored
<1> HIDE DEF d
<1> DEFINE h == [heap EXCEPT ![o].data = d]
<1>4. HeapTyped(h) /\ Len(h) = Len(heap) /\ \A p \in 1..Len(heap) : h[p].proto = heap[p].proto
  BY <1>1, <1>2, DataReplaced
<1> HIDE DEF h
<1>. QED BY <1>3, <1>4 DEF h

(* An accessor of an object is defined. *)
LEMMA WithAccessorTyped ==
  ASSUME TypeOK, NEW o \in Objects, NEW n \in Names,
         NEW a \in Functions \cup {NoFunction}, NEW b \in Functions \cup {NoFunction}
  PROVE  /\ HeapTyped(WithAccessor(o, n, a, b)) /\ Len(WithAccessor(o, n, a, b)) = Len(heap)
         /\ \A p \in 1..Len(heap) : WithAccessor(o, n, a, b)[p].proto = heap[p].proto
<1> DEFINE r == heap[o].accessors
           d == [m \in DOMAIN r \cup {n} |-> IF m = n THEN [Get |-> a, Set |-> b] ELSE r[m]]
<1>1. HeapTyped(heap) /\ o \in 1..Len(heap) /\ Fields(heap[o], Len(heap))
  BY Addresses
<1>2. [Get |-> a, Set |-> b] \in Pairs
  BY DEF Pairs
<1>3. d \in [DOMAIN d -> Pairs] /\ DOMAIN d \subseteq Names
  BY <1>1, <1>2 DEF Fields
<1>4. WithAccessor(o, n, a, b) = [heap EXCEPT ![o].accessors = d]
  BY DEF WithAccessor
<1> HIDE DEF d
<1> DEFINE h == [heap EXCEPT ![o].accessors = d]
<1>5. HeapTyped(h) /\ Len(h) = Len(heap) /\ \A p \in 1..Len(heap) : h[p].proto = heap[p].proto
  BY <1>1, <1>3, AccessorsReplaced
<1> HIDE DEF h
<1>. QED BY <1>4, <1>5 DEF h

(* The halves of an accessor are functions or missing. *)
LEMMA HalfTyped ==
  ASSUME TypeOK, NEW o \in Objects, NEW n \in Names
  PROVE  /\ Half(o, n, "Get") \in Functions \cup {NoFunction}
         /\ Half(o, n, "Set") \in Functions \cup {NoFunction}
         /\ Accessor(o, n) # Missing =>
              /\ Accessor(o, n) \in Pairs
              /\ Accessor(o, n).Get \in Functions \cup {NoFunction}
              /\ Accessor(o, n).Set \in Functions \cup {NoFunction}
<1>1. Fields(heap[o], Len(heap))
  BY Addresses
<1>2. Accessor(o, n) # Missing => Accessor(o, n) \in Pairs
  BY <1>1 DEF Fields, Accessor
<1>. QED BY <1>2 DEF Half, Pairs

(* A data property is deleted. *)
LEMMA DeletedTyped ==
  ASSUME TypeOK, NEW o \in Objects, NEW n
  PROVE  LET h == [heap EXCEPT ![o].data = [m \in DOMAIN @ \ {n} |-> @[m]]]
         IN /\ HeapTyped(h) /\ Len(h) = Len(heap)
            /\ \A p \in 1..Len(heap) : h[p].proto = heap[p].proto
<1> DEFINE r == heap[o].data
           d == [m \in DOMAIN r \ {n} |-> r[m]]
<1>1. HeapTyped(heap) /\ o \in 1..Len(heap) /\ Fields(heap[o], Len(heap))
  BY Addresses
<1>2. d \in [DOMAIN d -> Held] /\ DOMAIN d \subseteq Names \cup Int
  BY <1>1 DEF Fields
<1>3. [heap EXCEPT ![o].data = [m \in DOMAIN @ \ {n} |-> @[m]]] = [heap EXCEPT ![o].data = d]
  OBVIOUS
<1> HIDE DEF d
<1>. QED BY <1>1, <1>2, <1>3, DataReplaced

(* The data of an object are copied over others. *)
LEMMA CopiedData ==
  ASSUME TypeOK, NEW s \in Objects, NEW d, d \in [DOMAIN d -> Held], DOMAIN d \subseteq Names \cup Int
  PROVE  /\ Copied(d, s) \in [DOMAIN Copied(d, s) -> Held]
         /\ DOMAIN Copied(d, s) \subseteq Names \cup Int
<1>1. Fields(heap[s], Len(heap))
  BY Addresses
<1>. QED BY <1>1 DEF Fields, Copied, Owns

(* Object.assign. *)
LEMMA AssignedTyped ==
  ASSUME TypeOK, NEW o \in Objects, NEW s \in Objects
  PROVE  LET h == [heap EXCEPT ![o].data = Copied(@, s)]
         IN /\ HeapTyped(h) /\ Len(h) = Len(heap)
            /\ \A p \in 1..Len(heap) : h[p].proto = heap[p].proto
<1> DEFINE d == Copied(heap[o].data, s)
<1>1. HeapTyped(heap) /\ o \in 1..Len(heap) /\ Fields(heap[o], Len(heap))
  BY Addresses
<1>2. d \in [DOMAIN d -> Held] /\ DOMAIN d \subseteq Names \cup Int
  BY <1>1, CopiedData DEF Fields
<1>3. [heap EXCEPT ![o].data = Copied(@, s)] = [heap EXCEPT ![o].data = d]
  OBVIOUS
<1> HIDE DEF d
<1>. QED BY <1>1, <1>2, <1>3, DataReplaced

(* Elements are mirrored into named slots. *)
LEMMA MirroredData ==
  ASSUME NEW d, d \in [DOMAIN d -> Held], DOMAIN d \subseteq Names \cup Int,
         NEW off \in Int, NEW source \in Seq(Int)
  PROVE  /\ Mirrored(d, off, source) \in [DOMAIN Mirrored(d, off, source) -> Held]
         /\ DOMAIN Mirrored(d, off, source) \subseteq Names \cup Int
<1> DEFINE N == {off + k - 1 : k \in DOMAIN source}
           e == [n \in DOMAIN d \cup N |->
                   IF n \in Int /\ n - off + 1 \in DOMAIN source THEN source[n - off + 1] ELSE d[n]]
<1>1. Mirrored(d, off, source) = e
  BY DEF Mirrored
<1>2. N \subseteq Int
  OBVIOUS
<1>3. \A k \in DOMAIN source : source[k] \in Held
  BY DEF Held
<1>4. \A n \in N : n \in Int /\ n - off + 1 \in DOMAIN source
  <2> TAKE n \in N
  <2>1. PICK k \in DOMAIN source : n = off + k - 1
    OBVIOUS
  <2>2. k \in Int
    OBVIOUS
  <2>. QED BY <1>2, <2>1, <2>2
<1>5. \A n \in DOMAIN d \cup N : e[n] \in Held
  BY <1>3, <1>4
<1>. QED BY <1>1, <1>2, <1>5

(* The view of an object lies over a buffer. *)
LEMMA ViewOver ==
  ASSUME TypeOK, NEW o \in Objects, IsView(o)
  PROVE  /\ IsViewRecord(heap[o].view) /\ heap[o].view.buffer \in 1..Len(heap)
         /\ BytesOf(heap[o].view) \in Seq(Bytes) /\ BytesOf(heap[o].view) = heap[heap[o].view.buffer].bytes
         /\ Lies(heap[o].view, BytesOf(heap[o].view))
<1>1. HeapTyped(heap) /\ o \in 1..Len(heap) /\ Fields(heap[o], Len(heap)) /\ heap[o].view # NoView
  BY Addresses DEF IsView
<1>2. heap[o].view \in [kind : Kinds, buffer : 1..Len(heap), offset : Nat, length : Int]
  BY <1>1 DEF Fields
<1>3. Lies(heap[o].view, heap[heap[o].view.buffer].bytes)
  BY <1>1, HeapParts
<1>4. heap[o].view.buffer \in 1..Len(heap) /\ Fields(heap[heap[o].view.buffer], Len(heap))
  BY <1>2, Addresses
<1>. QED BY <1>2, <1>3, <1>4 DEF Fields, BytesOf, Bytes, IsViewRecord, Lies

(* An element is written. *)
LEMMA IndexedWriteTyped ==
  ASSUME TypeOK, NEW o \in Objects, IsView(o), NEW i \in Int, NEW v \in Int
  PROVE  /\ HeapTyped(IndexedWrite(o, i, v)) /\ Len(IndexedWrite(o, i, v)) = Len(heap)
         /\ \A p \in 1..Len(heap) : IndexedWrite(o, i, v)[p].proto = heap[p].proto
<1> DEFINE view == heap[o].view
           b == WriteElem(heap[view.buffer].bytes, view.kind, Slot(view, i), v)
<1>1. HeapTyped(heap)
  BY Addresses
<1>2. view.buffer \in 1..Len(heap) /\ heap[view.buffer].bytes \in Seq(Bytes) /\ IsViewRecord(view)
  BY ViewOver
<1>3. b \in Seq(Bytes) /\ Len(b) = Len(heap[view.buffer].bytes)
  <2> DEFINE c == heap[view.buffer].bytes
             at == Slot(view, i)
             kind == view.kind
  <2>1. c \in Seq(Bytes) /\ at \in Int /\ kind \in Kinds
    BY <1>2, SlotInt DEF IsViewRecord
  <2>2. b = WriteElem(c, kind, at, v)
    OBVIOUS
  <2> HIDE DEF b, c, at, kind
  <2>3. b \in Seq(Bytes) /\ Len(b) = Len(c)
    BY <2>1, <2>2, WriteElemBytes
  <2>. QED BY <2>3 DEF c
<1>4. IndexedWrite(o, i, v) = heap \/ IndexedWrite(o, i, v) = [heap EXCEPT ![view.buffer].bytes = b]
  BY DEF IndexedWrite
<1> HIDE DEF b
<1> DEFINE h == [heap EXCEPT ![view.buffer].bytes = b]
<1>5. HeapTyped(h) /\ Len(h) = Len(heap) /\ \A p \in 1..Len(heap) : h[p].proto = heap[p].proto
  <2> DEFINE a == view.buffer
  <2>1. a \in 1..Len(heap) /\ Len(b) = Len(heap[a].bytes) /\ h = [heap EXCEPT ![a].bytes = b]
    BY <1>2, <1>3
  <2> HIDE DEF a, h
  <2>2. /\ HeapTyped([heap EXCEPT ![a].bytes = b]) /\ Len([heap EXCEPT ![a].bytes = b]) = Len(heap)
        /\ \A p \in 1..Len(heap) : /\ [heap EXCEPT ![a].bytes = b][p].proto = heap[p].proto
                                  /\ [heap EXCEPT ![a].bytes = b][p].data = heap[p].data
    <3>1. a \in 1..Len(heap) /\ HeapTyped(heap) /\ b \in Seq(Bytes) /\ Len(b) = Len(heap[a].bytes)
      BY <1>1, <1>3, <2>1
    <3>. QED BY <3>1, BytesReplaced
  <2>. QED BY <2>1, <2>2
<1>6. IndexedWrite(o, i, v) = heap \/ IndexedWrite(o, i, v) = h
  BY <1>4
<1> HIDE DEF h
<1>. QED BY <1>1, <1>5, <1>6

(* set() writes elements and mirrors them. *)
LEMMA ElementsSetTyped ==
  ASSUME TypeOK, NEW o \in Objects, IsView(o), NEW source \in Seq(Int), NEW off \in Int
  PROVE  LET h == [heap EXCEPT ![heap[o].view.buffer].bytes = Filled(@, heap[o].view, source, off),
                               ![o].data = Mirrored(@, off, source)]
         IN /\ HeapTyped(h) /\ Len(h) = Len(heap)
            /\ \A p \in 1..Len(heap) : h[p].proto = heap[p].proto
<1> DEFINE view == heap[o].view
           b == Filled(heap[view.buffer].bytes, view, source, off)
           g == [heap EXCEPT ![view.buffer].bytes = b]
           d == Mirrored(heap[o].data, off, source)
<1>1. HeapTyped(heap) /\ o \in 1..Len(heap) /\ Fields(heap[o], Len(heap)) /\ DOMAIN heap = 1..Len(heap)
  BY Addresses DEF Objects
<1>2. view.buffer \in 1..Len(heap) /\ heap[view.buffer].bytes \in Seq(Bytes) /\ IsViewRecord(view)
  BY ViewOver
<1>3. b \in Seq(Bytes) /\ Len(b) = Len(heap[view.buffer].bytes)
  BY <1>2, FilledBytes
<1>4. d \in [DOMAIN d -> Held] /\ DOMAIN d \subseteq Names \cup Int
  BY <1>1, MirroredData DEF Fields
<1>5. [heap EXCEPT ![view.buffer].bytes = Filled(@, view, source, off), ![o].data = Mirrored(@, off, source)]
        = [g EXCEPT ![o].data = Mirrored(g[o].data, off, source)]
  OBVIOUS
<1> HIDE DEF b, d
<1>6. /\ HeapTyped(g) /\ Len(g) = Len(heap) /\ \A p \in 1..Len(heap) : g[p].proto = heap[p].proto
      /\ g[o].data = heap[o].data
  <2> DEFINE a == view.buffer
  <2> HIDE DEF a, view
  <2>1. /\ HeapTyped([heap EXCEPT ![a].bytes = b]) /\ Len([heap EXCEPT ![a].bytes = b]) = Len(heap)
        /\ \A p \in 1..Len(heap) : /\ [heap EXCEPT ![a].bytes = b][p].proto = heap[p].proto
                                  /\ [heap EXCEPT ![a].bytes = b][p].data = heap[p].data
    <3>1. a \in 1..Len(heap) /\ HeapTyped(heap) /\ b \in Seq(Bytes) /\ Len(b) = Len(heap[a].bytes)
      BY <1>1, <1>2, <1>3 DEF a
    <3>. QED BY <3>1, BytesReplaced
  <2>2. g = [heap EXCEPT ![a].bytes = b]
    BY DEF a
  <2> HIDE DEF g
  <2>. QED BY <1>1, <2>1, <2>2
<1> HIDE DEF g
<1>7. [g EXCEPT ![o].data = Mirrored(g[o].data, off, source)] = [g EXCEPT ![o].data = d]
  BY <1>6 DEF d
<1> DEFINE h == [g EXCEPT ![o].data = d]
<1>8. HeapTyped(h) /\ Len(h) = Len(g) /\ \A p \in 1..Len(g) : h[p].proto = g[p].proto
  BY <1>1, <1>4, <1>6, DataReplaced
<1>9. /\ HeapTyped(h) /\ Len(h) = Len(heap) /\ \A p \in 1..Len(heap) : h[p].proto = heap[p].proto
  BY <1>6, <1>8
<1> HIDE DEF h
<1>. QED BY <1>5, <1>7, <1>9 DEF h, view

-----------------------------------------------------------------------------
(* Steps as the type invariant sees them: calls, properties of functions, and
   objects, which stay and are added to. *)

CallsStep ==
  \/ calls' = calls
  \/ Len(calls) < MaxCalls /\ \E c : c.fn \in Functions /\ calls' = Append(calls, c)
  \/ \E k \in 0..(Len(calls) - 1) : calls' = SubSeq(calls, 1, k)

FunctionsStep ==
  /\ fprops' \in [Functions -> [FNames -> Prims \cup Functions \cup (1..Len(heap')) \cup {Missing}]]
  /\ \A f \in Functions : fprops'[f]["prototype"] \in Prims \cup (1..Len(heap')) \cup {Missing}

(* Objects keep their prototypes and origins; what is constructed has the
   prototype of its function. *)
ObjectsStep ==
  /\ HeapTyped(heap') /\ Len(heap') \in 1..MaxObjects /\ Len(heap) <= Len(heap')
  /\ born' \in [1..Len(heap') -> Origins \cup {Missing}] /\ epoch' = epoch
  /\ \A o \in 1..Len(heap) : heap'[o].proto = heap[o].proto /\ born'[o] = born[o]
  /\ \A f \in Functions : fprops'[f]["prototype"] # fprops[f]["prototype"] => Lacks(f)
  /\ \A o \in 1..Len(heap') : o > Len(heap) /\ born'[o] # Missing =>
       LET p == fprops'[born'[o].by]["prototype"]
       IN /\ born'[o].epoch = epoch[born'[o].by] /\ p # Missing
          /\ heap'[o].proto = IF p \in 1..Len(heap') THEN p ELSE ObjectPrototype

(* The stack of calls stays one, within its bound. *)
LEMMA CallsKept ==
  ASSUME TypeInv, CallsStep
  PROVE  /\ \E S : calls' \in Seq(S)
         /\ Len(calls') <= MaxCalls /\ \A k \in DOMAIN calls' : calls'[k].fn \in Functions
<1>1. PICK S : calls \in Seq(S)
  BY DEF TypeInv
<1>2. Len(calls) <= MaxCalls /\ \A k \in DOMAIN calls : calls[k].fn \in Functions
  BY DEF TypeInv, TypeOK
<1>3. MaxCalls \in Nat
  BY DispatchAssumption
<1>4. CASE calls' = calls
  BY <1>1, <1>2, <1>4
<1>5. ASSUME Len(calls) < MaxCalls, NEW c, c.fn \in Functions, calls' = Append(calls, c)
      PROVE  /\ \E T : calls' \in Seq(T)
             /\ Len(calls') <= MaxCalls /\ \A k \in DOMAIN calls' : calls'[k].fn \in Functions
  <2> DEFINE T == S \cup {c}
             n == Len(calls)
  <2>1. calls \in Seq(T) /\ c \in T /\ n \in Nat /\ DOMAIN calls = 1..n
    BY <1>1
  <2> HIDE DEF T
  <2>2. /\ calls' \in Seq(T) /\ Len(calls') = n + 1
        /\ \A k \in 1..(n + 1) : calls'[k] = IF k = n + 1 THEN c ELSE calls[k]
    BY <1>5, <2>1, AppendProperties
  <2>3. DOMAIN calls' = 1..(n + 1)
    BY <2>2
  <2>4. \A k \in DOMAIN calls' : calls'[k].fn \in Functions
    BY <1>2, <1>5, <2>1, <2>2, <2>3
  <2>. QED BY <1>3, <1>5, <2>1, <2>2, <2>4
<1>6. ASSUME NEW k \in 0..(Len(calls) - 1), calls' = SubSeq(calls, 1, k)
      PROVE  /\ \E T : calls' \in Seq(T)
             /\ Len(calls') <= MaxCalls /\ \A j \in DOMAIN calls' : calls'[j].fn \in Functions
  <2>1. Len(calls) \in Nat /\ DOMAIN calls = 1..Len(calls) /\ k \in Nat /\ k <= Len(calls)
    BY <1>1
  <2>2. calls' \in Seq(S) /\ Len(calls') = k /\ \A j \in 1..k : calls'[j] = calls[j]
    BY <1>1, <1>6, <2>1, SubSeqProperties
  <2>3. DOMAIN calls' = 1..k
    BY <2>2
  <2>. QED BY <1>2, <1>3, <2>1, <2>2, <2>3
<1>. QED BY <1>4, <1>5, <1>6, Zenon DEF CallsStep

(* A step that leaves typed parts keeps the types. *)
LEMMA TypesAgain ==
  ASSUME TypeInv, CallsStep, FunctionsStep, HeapTyped(heap'), Len(heap') \in 1..MaxObjects,
         born' \in [1..Len(heap') -> Origins \cup {Missing}], epoch' \in [Functions -> Nat],
         script' = script, steps' = steps \/ steps' = steps + 1
  PROVE  TypeInv'
<1>1. /\ \E S : calls' \in Seq(S)
      /\ Len(calls') <= MaxCalls /\ \A k \in DOMAIN calls' : calls'[k].fn \in Functions
  BY CallsKept
<1>3. DOMAIN heap' = 1..Len(heap')
  <2>1. Len(heap') \in Nat /\ 1 \in 1..Len(heap')
    BY DispatchAssumption
  <2>. QED BY <2>1, HeapObject
<1>4. steps' \in Nat /\ script' \in Scripts
  BY DEF TypeInv, TypeOK
<1>5. /\ fprops' \in [Functions -> [FNames -> Prims \cup Functions \cup (1..Len(heap')) \cup {Missing}]]
      /\ \A f \in Functions : fprops'[f]["prototype"] \in Prims \cup (1..Len(heap')) \cup {Missing}
  BY DEF FunctionsStep
<1>. QED BY <1>1, <1>3, <1>4, <1>5 DEF TypeInv, TypeOK, Objects

(* A step of these three kinds keeps the types. *)
LEMMA TypesKept ==
  ASSUME TypeInv, CallsStep, FunctionsStep, ObjectsStep, script' = script,
         steps' = steps \/ steps' = steps + 1
  PROVE  TypeInv'
BY TypesAgain DEF ObjectsStep, TypeInv, TypeOK

(* What a step answers and calls. *)
LEMMA AnswersStep ==
  ASSUME NEW of, NEW v, Answers(of, v)
  PROVE  CallsStep
BY DEF Answers, CallsStep

(* A call of a script function. *)
LEMMA CallStep ==
  ASSUME NEW of, NEW fn \in Functions, NEW this, NEW args, Call(of, fn, this, args)
  PROVE  CallsStep
<1> DEFINE c == [of |-> of, fn |-> fn, this |-> this, args |-> args]
<1>1. c.fn \in Functions
  OBVIOUS
<1>2. Len(calls) < MaxCalls /\ calls' = Append(calls, c)
  BY DEF Call
<1> HIDE DEF c
<1>. QED BY <1>1, <1>2 DEF CallsStep

(* A step that reads objects, or changes their properties, and no functions. *)
LEMMA WritesStep ==
  ASSUME TypeInv, HeapTyped(heap'), Len(heap') = Len(heap),
         \A p \in 1..Len(heap) : heap'[p].proto = heap[p].proto,
         UNCHANGED <<fprops, born, epoch>>
  PROVE  ObjectsStep /\ FunctionsStep
<1>1. /\ Len(heap) \in 1..MaxObjects /\ Len(heap) \in Nat /\ Objects = 1..Len(heap)
      /\ \A o \in 1..Len(heap') : ~ (o > Len(heap))
  BY Addresses DEF TypeInv, TypeOK
<1>. QED BY <1>1 DEF TypeInv, TypeOK, ObjectsStep, FunctionsStep

(* A step that only reads. *)
LEMMA ReadsStep ==
  ASSUME TypeInv, Reads
  PROVE  ObjectsStep /\ FunctionsStep
<1>1. heap' = heap /\ UNCHANGED <<fprops, born, epoch>>
  BY DEF Reads, History
<1>2. HeapTyped(heap')
  BY <1>1, Addresses DEF TypeInv
<1>. QED BY <1>1, <1>2, WritesStep

-----------------------------------------------------------------------------
(* Objects are made. *)

NoAccessors == [n \in {} |-> Missing]

(* An object of literals, constructors and builtins is one among n objects. *)
LEMMA NewTyped ==
  ASSUME NEW n \in Nat, NEW d, d \in [DOMAIN d -> Held], DOMAIN d \subseteq Names \cup Int, NEW p \in 0..n,
         NEW x \in [target : 1..n, handler : 1..n] \cup {NoProxy},
         NEW w \in [kind : Kinds, buffer : 1..n, offset : Nat, length : Int] \cup {NoView},
         NEW b \in Seq(Bytes) \cup {NoBytes}
  PROVE  Fields([data |-> d, accessors |-> NoAccessors, proto |-> p,
                 proxy |-> x, view |-> w, bytes |-> b], n)
<1>1. NoAccessors \in [DOMAIN NoAccessors -> Pairs] /\ DOMAIN NoAccessors \subseteq Names
  BY DEF NoAccessors
<1> HIDE DEF NoAccessors
<1>. QED BY <1>1 DEF Fields, Bytes

(* The records objects are made as. *)
LEMMA NewRecords ==
  /\ NewBareObject = [data |-> NoData, accessors |-> NoAccessors, proto |-> Nil,
                      proxy |-> NoProxy, view |-> NoView, bytes |-> NoBytes]
  /\ NewObject = [data |-> NoData, accessors |-> NoAccessors, proto |-> ObjectPrototype,
                  proxy |-> NoProxy, view |-> NoView, bytes |-> NoBytes]
  /\ NoData \in [DOMAIN NoData -> Held] /\ DOMAIN NoData \subseteq Names \cup Int
<1>1. NewBareObject = [data |-> NoData, accessors |-> NoAccessors, proto |-> Nil,
                       proxy |-> NoProxy, view |-> NoView, bytes |-> NoBytes]
  BY DEF NewBareObject, NoAccessors
<1>2. NoData \in [DOMAIN NoData -> Held] /\ DOMAIN NoData \subseteq Names \cup Int
  BY DEF NoData
<1> HIDE DEF NewBareObject, NoAccessors, NoData
<1>3. NewObject = [data |-> NoData, accessors |-> NoAccessors, proto |-> ObjectPrototype,
                   proxy |-> NoProxy, view |-> NoView, bytes |-> NoBytes]
  BY <1>1 DEF NewObject
<1>. QED BY <1>1, <1>2, <1>3

(* One object, as a sequence. *)
LEMMA FreshOne ==
  ASSUME NEW n \in Nat, NEW a, Fields(a, n + 1)
  PROVE  Fresh(<<a>>, n) /\ Len(<<a>>) = 1 /\ <<a>>[1] = a
<1>1. <<a>> \in Seq({a}) /\ Len(<<a>>) = 1 /\ <<a>>[1] = a /\ DOMAIN <<a>> = 1..1
  OBVIOUS
<1>2. {<<a>>[k] : k \in DOMAIN <<a>>} = {a}
  BY <1>1
<1>. QED BY <1>1, <1>2 DEF Fresh

(* Two objects, as a sequence. *)
LEMMA FreshTwo ==
  ASSUME NEW n \in Nat, NEW a, NEW b, Fields(a, n + 2), Fields(b, n + 2)
  PROVE  Fresh(<<a, b>>, n) /\ Len(<<a, b>>) = 2 /\ <<a, b>>[1] = a /\ <<a, b>>[2] = b
<1>1. /\ <<a, b>> \in Seq({a, b}) /\ Len(<<a, b>>) = 2 /\ <<a, b>>[1] = a /\ <<a, b>>[2] = b
      /\ DOMAIN <<a, b>> = 1..2
  OBVIOUS
<1>2. {<<a, b>>[k] : k \in DOMAIN <<a, b>>} = {a, b}
  <2>1. 1..2 = {1, 2}
    OBVIOUS
  <2>. QED BY <1>1, <2>1
<1>3. \A k \in 1..2 : Fields(<<a, b>>[k], n + 2)
  <2>1. \A k \in 1..2 : k = 1 \/ k = 2
    OBVIOUS
  <2>. QED BY <1>1, <2>1
<1>. QED BY <1>1, <1>2, <1>3 DEF Fresh

(* The history goes on with the origins of new objects. *)
LEMMA BornOn ==
  ASSUME TypeInv, NEW s, NEW m \in Nat, s \in [1..m -> Origins \cup {Missing}]
  PROVE  LET b == born \o s
         IN /\ b \in [1..(Len(heap) + m) -> Origins \cup {Missing}]
            /\ \A o \in 1..Len(heap) : b[o] = born[o]
            /\ \A k \in 1..m : b[Len(heap) + k] = s[k]
<1> DEFINE n == Len(heap)
           O1 == Origins \cup {Missing}
           b == born \o s
<1>1. n \in Nat /\ born \in [1..n -> O1]
  BY Addresses DEF TypeInv, TypeOK
<1> HIDE DEF n, O1
<1>2. born \in Seq(O1) /\ Len(born) = n /\ s \in Seq(O1) /\ Len(s) = m
  BY <1>1, FunctionSequence DEF O1
<1>3. /\ b \in Seq(O1) /\ Len(b) = n + m
      /\ \A i \in 1..(n + m) : b[i] = IF i <= n THEN born[i] ELSE s[i - n]
  BY <1>2, ConcatProperties
<1> HIDE DEF b
<1>4. b \in [1..(n + m) -> O1]
  BY <1>3
<1>5. \A o \in 1..n : b[o] = born[o]
  BY <1>1, <1>3
<1>6. \A k \in 1..m : b[n + k] = s[k]
  BY <1>1, <1>3
<1>. QED BY <1>4, <1>5, <1>6 DEF b, n, O1

(* The objects s are added, of which the last may have an origin. *)
LEMMA AllocationStep ==
  ASSUME TypeInv, NEW s, Fresh(s, Len(heap)), Len(heap) + Len(s) <= MaxObjects, heap' = heap \o s,
         ViewsOver(s, heap \o s),
         NEW origins, origins \in [1..Len(s) -> Origins \cup {Missing}],
         born' = born \o origins, epoch' = epoch,
         \A f \in Functions : fprops'[f]["prototype"] # fprops[f]["prototype"] => Lacks(f),
         \A k \in 1..Len(s) : origins[k] # Missing =>
           LET p == fprops'[origins[k].by]["prototype"]
           IN /\ origins[k].epoch = epoch[origins[k].by] /\ p # Missing
              /\ s[k].proto = IF p \in 1..Len(heap') THEN p ELSE ObjectPrototype
  PROVE  ObjectsStep /\ Len(heap') = Len(heap) + Len(s) /\ heap'[Len(heap) + Len(s)] = s[Len(s)]
<1> DEFINE n == Len(heap)
           m == Len(s)
<1>1. n \in Nat /\ n >= 1 /\ HeapTyped(heap) /\ m \in 1..2 /\ MaxObjects \in Nat
  BY Addresses, DispatchAssumption DEF TypeInv, Fresh
<1>2. /\ HeapTyped(heap') /\ Len(heap') = n + m
      /\ \A o \in 1..n : heap'[o] = heap[o]
      /\ \A k \in 1..m : heap'[n + k] = s[k]
  <2>1. /\ HeapTyped(heap \o s) /\ Len(heap \o s) = Len(heap) + Len(s)
        /\ \A o \in 1..Len(heap) : (heap \o s)[o] = heap[o]
        /\ \A k \in 1..Len(s) : (heap \o s)[Len(heap) + k] = s[k]
    BY <1>1, ObjectsAdded
  <2>. QED BY <2>1
<1>3. /\ born' \in [1..(n + m) -> Origins \cup {Missing}]
      /\ \A o \in 1..n : born'[o] = born[o]
      /\ \A k \in 1..m : born'[n + k] = origins[k]
  <2>1. m \in Nat
    BY <1>1
  <2>. QED BY <2>1, BornOn
<1>4. Len(heap') \in 1..MaxObjects /\ n <= Len(heap')
  BY <1>1, <1>2
<1>5. ASSUME NEW o \in 1..Len(heap'), o > n, born'[o] # Missing
      PROVE  LET p == fprops'[born'[o].by]["prototype"]
             IN /\ born'[o].epoch = epoch[born'[o].by] /\ p # Missing
                /\ heap'[o].proto = IF p \in 1..Len(heap') THEN p ELSE ObjectPrototype
  <2> DEFINE k == o - n
  <2>1. k \in 1..m /\ n + k = o
    <3>1. o \in 1..(n + m) /\ o > n
      BY <1>2, <1>5
    <3> HIDE DEF n, m
    <3>. QED BY <1>1, <3>1
  <2> HIDE DEF k
  <2>2. heap'[o] = s[k] /\ born'[o] = origins[k]
    BY <1>2, <1>3, <2>1
  <2>. QED BY <1>5, <2>1, <2>2
<1>6. heap'[n + m] = s[m]
  <2> HIDE DEF m, n
  <2>1. m \in 1..m
    BY <1>1
  <2>. QED BY <1>2, <2>1
<1>7. \A o \in 1..n : heap'[o].proto = heap[o].proto /\ born'[o] = born[o]
  BY <1>2, <1>3
<1> HIDE DEF n, m
<1>8. ObjectsStep
  BY <1>2, <1>3, <1>4, <1>5, <1>7 DEF ObjectsStep, n, m
<1>. QED BY <1>2, <1>6, <1>8 DEF n, m

(* The properties of functions stay while objects are added. *)
LEMMA FunctionsStay ==
  ASSUME TypeInv, ObjectsStep, fprops' = fprops
  PROVE  FunctionsStep
<1>1. 1..Len(heap) \subseteq 1..Len(heap') /\ Objects = 1..Len(heap)
  BY Addresses, DispatchAssumption DEF TypeInv, ObjectsStep
<1> DEFINE old == Prims \cup Functions \cup Objects \cup {Missing}
           new == Prims \cup Functions \cup (1..Len(heap')) \cup {Missing}
<1>2. fprops \in [Functions -> [FNames -> old]] /\ old \subseteq new
  BY <1>1 DEF TypeInv, TypeOK
<1> HIDE DEF old, new
<1>3. fprops \in [Functions -> [FNames -> new]]
  BY <1>2
<1>4. \A f \in Functions : fprops[f]["prototype"] \in Prims \cup (1..Len(heap')) \cup {Missing}
  BY <1>1 DEF TypeInv, TypeOK
<1>. QED BY <1>3, <1>4 DEF FunctionsStep, new

(* Objects that are allocated keep the others what they are. *)
LEMMA AllocatesStep ==
  ASSUME TypeInv, NEW s, Fresh(s, Len(heap)), Allocates(s), fprops' = fprops,
         ViewsOver(s, heap \o s)
  PROVE  ObjectsStep /\ FunctionsStep
<1> DEFINE origins == [k \in DOMAIN s |-> Missing]
<1>1. /\ Len(heap) + Len(s) <= MaxObjects /\ heap' = heap \o s /\ born' = born \o origins /\ epoch' = epoch
  BY DEF Allocates
<1>2. DOMAIN s = 1..Len(s)
  BY DEF Fresh
<1>3. origins \in [1..Len(s) -> Origins \cup {Missing}] /\ \A k \in 1..Len(s) : origins[k] = Missing
  BY <1>2
<1> HIDE DEF origins
<1>4. ObjectsStep
  BY <1>1, <1>3, AllocationStep
<1>. QED BY <1>4, FunctionsStay

-----------------------------------------------------------------------------
(* The walk along prototypes. *)

(* g[k] is the object k prototypes above o, for k up to n. *)
Walking(g, o, n) ==
  g = [k \in 0..n |-> IF k = 0 THEN o ELSE IF g[k - 1] = Nil THEN Nil ELSE Protos[g[k - 1]]]

(* There is such a walk, a prototype at a time. *)
LEMMA WalkingExists ==
  ASSUME NEW o, NEW n \in Nat
  PROVE  \E g : Walking(g, o, n)
<1> DEFINE P == {m \in 0..n : \E g : Walking(g, o, m)}
<1>1. 0 \in P
  <2>1. Walking([i \in 0..0 |-> o], o, 0)
    BY DEF Walking
  <2>2. \E g : Walking(g, o, 0)
    BY <2>1
  <2>. QED BY <2>2
<1>2. ASSUME NEW k \in 1..n, k - 1 \in P
      PROVE  k \in P
  <2>1. PICK g : Walking(g, o, k - 1)
    BY <1>2
  <2> DEFINE x == IF g[k - 1] = Nil THEN Nil ELSE Protos[g[k - 1]]
             h == [i \in 0..k |-> IF i = k THEN x ELSE g[i]]
  <2>2. \A i \in 0..(k - 1) : i \in 0..k /\ i # k
    OBVIOUS
  <2>3. \A i \in 0..(k - 1) :
          g[i] = IF i = 0 THEN o ELSE IF g[i - 1] = Nil THEN Nil ELSE Protos[g[i - 1]]
    BY <2>1 DEF Walking
  <2>4. \A i \in 0..k : i = k \/ i \in 0..(k - 1)
    OBVIOUS
  <2>5. \A i \in 0..k : i # 0 => i - 1 \in 0..(k - 1)
    OBVIOUS
  <2>6. h[k] = x /\ \A i \in 0..(k - 1) : h[i] = g[i]
    BY <2>2
  <2>7. k \in 0..n /\ k \in 0..k /\ k # 0
    OBVIOUS
  <2> HIDE DEF x
  <2>8. \A i \in 0..k :
          h[i] = IF i = 0 THEN o ELSE IF h[i - 1] = Nil THEN Nil ELSE Protos[h[i - 1]]
    <3> TAKE i \in 0..k
    <3> HIDE DEF h
    <3>1. CASE i = k
      <4>1. h[k - 1] = g[k - 1]
        BY <2>5, <2>6, <2>7
      <4>. QED BY <2>6, <2>7, <3>1, <4>1 DEF x
    <3>2. CASE i # k
      <4>1. i \in 0..(k - 1) /\ (i # 0 => i - 1 \in 0..(k - 1))
        BY <2>4, <2>5, <3>2
      <4>2. h[i] = g[i] /\ (i # 0 => h[i - 1] = g[i - 1])
        BY <2>6, <4>1
      <4>. QED BY <2>3, <4>1, <4>2
    <3>. QED BY <3>1, <3>2
  <2>9. Walking(h, o, k)
    <3> DEFINE step(i) == IF i = 0 THEN o ELSE IF h[i - 1] = Nil THEN Nil ELSE Protos[h[i - 1]]
    <3>1. h = [i \in 0..k |-> h[i]]
      OBVIOUS
    <3> HIDE DEF h
    <3>2. h = [i \in 0..k |-> step(i)]
      BY <2>8, <3>1
    <3>. QED BY <3>2 DEF Walking
  <2>10. \E f : Walking(f, o, k)
    BY <2>9
  <2> HIDE DEF h
  <2>. QED BY <2>7, <2>10
<1>3. \A k \in 0..n : k \in P
  <2> HIDE DEF P
  <2>. QED BY <1>1, <1>2, Rounds
<1>. QED BY <1>3

(* A walk starts at its object and goes up, among the objects. *)
LEMMA WalkIs ==
  ASSUME TypeOK, NEW o \in Objects
  PROVE  LET w == Walk(o)
         IN /\ DOMAIN w = 0..Len(heap) /\ w[0] = o
            /\ \A k \in 1..Len(heap) : w[k] = IF w[k - 1] = Nil THEN Nil ELSE heap[w[k - 1]].proto
            /\ \A k \in 0..Len(heap) : w[k] \in Objects \cup {Nil}
<1> DEFINE n == Len(heap)
           w == Walk(o)
<1>1. /\ Objects = 1..n /\ n \in Nat /\ n >= 1 /\ \A p \in Objects : heap[p].proto \in 0..n
  BY Addresses DEF Fields
<1>2. Len(Protos) = n /\ \A p \in Objects : Protos[p] = heap[p].proto
  <2>1. Protos \in [1..n -> 0..n]
    BY <1>1 DEF Protos
  <2> HIDE DEF n
  <2>2. Len(Protos) = n
    BY <1>1, <2>1, FunctionSequence
  <2>. QED BY <2>2 DEF Protos
<1> HIDE DEF n
<1>3. Walking(w, o, n)
  <2>1. \E g : Walking(g, o, n)
    BY <1>1, WalkingExists
  <2>2. w = CHOOSE g : Walking(g, o, n)
    BY <1>2 DEF Walk, Walking
  <2>. QED BY <2>1, <2>2
<1> HIDE DEF w
<1>4. DOMAIN w = 0..n /\ w[0] = o
  BY <1>1, <1>3 DEF Walking
<1>5. \A k \in 1..n : w[k] = IF w[k - 1] = Nil THEN Nil ELSE Protos[w[k - 1]]
  <2> TAKE k \in 1..n
  <2>1. k \in 0..n /\ k # 0
    BY <1>1
  <2>. QED BY <1>3, <2>1 DEF Walking
<1> DEFINE P == {k \in 0..n : w[k] \in Objects \cup {Nil}}
<1>6. 0 \in P
  BY <1>1, <1>4
<1>7. ASSUME NEW k \in 1..n, k - 1 \in P
      PROVE  k \in P
  <2>1. k \in 0..n /\ w[k - 1] \in Objects \cup {Nil} /\ 0..n = Objects \cup {Nil}
    BY <1>1, <1>7 DEF Nil
  <2>2. w[k] \in 0..n
    BY <1>1, <1>2, <1>5, <2>1 DEF Nil
  <2>. QED BY <2>1, <2>2
<1> HIDE DEF P
<1>8. \A k \in 0..n : k \in P
  BY <1>1, <1>6, <1>7, Rounds
<1>9. \A k \in 0..n : w[k] \in Objects \cup {Nil}
  BY <1>8 DEF P
<1>10. \A k \in 1..n : w[k] = IF w[k - 1] = Nil THEN Nil ELSE heap[w[k - 1]].proto
  <2> TAKE k \in 1..n
  <2>1. k - 1 \in 0..n
    BY <1>1
  <2>. QED BY <1>2, <1>5, <1>9, <2>1
<1>. QED BY <1>4, <1>9, <1>10 DEF w, n

(* A set of positions that is not empty has a first one. *)
LEMMA LeastExists ==
  ASSUME NEW S \in SUBSET Nat, S # {}
  PROVE  \E k \in S : \A j \in S : k <= j
<1>1. PICK x \in S : \A y \in S : ~ (<<y, x>> \in OpToRel(<, Nat))
  BY NatLessThanWellFounded, WFMin
<1>2. \A y \in S : x <= y
  <2> TAKE y \in S
  <2>1. <<y, x>> \in Nat \X Nat /\ <<y, x>>[1] = y /\ <<y, x>>[2] = x
    OBVIOUS
  <2>2. y < x => <<y, x>> \in OpToRel(<, Nat)
    BY <2>1, Zenon DEF OpToRel
  <2>3. ~ (y < x)
    BY <1>1, <2>2, Zenon
  <2>. QED BY <2>3
<1>. QED BY <1>2

(* On the walk of o nothing of the set S. *)
NoneOf(o, S) == \A k \in 0..Len(heap) : Walk(o)[k] # Nil => Walk(o)[k] \notin S

(* Of the objects of the set S on the walk of o, p is the first, at k. *)
FirstAt(o, S, p, k) ==
  /\ k \in 0..Len(heap) /\ p = Walk(o)[k] /\ p \in S /\ p \in Objects
  /\ \A j \in 0..Len(heap) : Walk(o)[j] # Nil /\ Walk(o)[j] \in S => k <= j

(* FirstOf finds the first, or Nil. *)
LEMMA FirstOfIs ==
  ASSUME TypeOK, NEW o \in Objects, NEW S
  PROVE  \/ FirstOf(o, S) = Nil /\ NoneOf(o, S)
         \/ FirstOf(o, S) # Nil /\ \E k : FirstAt(o, S, FirstOf(o, S), k)
<1> DEFINE n == Len(heap)
           w == Walk(o)
           hits == {k \in DOMAIN w : w[k] # Nil /\ w[k] \in S}
           c == CHOOSE k \in hits : \A j \in hits : k <= j
<1>1. n \in Nat /\ Objects = 1..n
  BY Addresses
<1>2. DOMAIN w = 0..n /\ \A k \in 0..n : w[k] \in Objects \cup {Nil}
  BY WalkIs
<1>3. FirstOf(o, S) = IF hits = {} THEN Nil ELSE w[c]
  BY DEF FirstOf
<1> HIDE DEF n, w
<1>4. CASE hits = {}
  <2>1. \A k \in 0..n : w[k] # Nil => w[k] \notin S
    BY <1>2, <1>4
  <2>. QED BY <1>3, <1>4, <2>1 DEF NoneOf, n, w
<1>5. CASE hits # {}
  <2>1. hits \in SUBSET Nat
    BY <1>1, <1>2
  <2>2. \E k \in hits : \A j \in hits : k <= j
    <3> HIDE DEF hits
    <3>. QED BY <1>5, <2>1, LeastExists
  <2>3. c \in hits /\ \A j \in hits : c <= j
    <3> HIDE DEF hits
    <3>. QED BY <2>2
  <2>4. c \in 0..n /\ w[c] # Nil /\ w[c] \in S /\ w[c] \in Objects
    BY <1>2, <2>3
  <2>5. \A j \in 0..n : w[j] # Nil /\ w[j] \in S => c <= j
    BY <1>2, <2>3
  <2>6. FirstOf(o, S) = w[c]
    BY <1>3, <1>5
  <2> HIDE DEF c, hits
  <2>7. FirstAt(o, S, w[c], c)
    BY <2>4, <2>5 DEF FirstAt, w, n
  <2>8. \E k : FirstAt(o, S, FirstOf(o, S), k)
    BY <2>6, <2>7
  <2>. QED BY <2>4, <2>6, <2>8
<1>. QED BY <1>4, <1>5

(* The accessor a lookup finds is that of an object. *)
LEMMA LookupTyped ==
  ASSUME TypeOK, NEW o \in Objects, NEW n \in Names, LookupAccessor(o, n) # Missing
  PROVE  /\ LookupAccessor(o, n).Get \in Functions \cup {NoFunction}
         /\ LookupAccessor(o, n).Set \in Functions \cup {NoFunction}
<1> DEFINE S == {p \in DOMAIN heap : Accessor(p, n) # Missing}
           at == FirstOf(o, S)
<1>1. LookupAccessor(o, n) = IF at = Nil THEN Missing ELSE Accessor(at, n)
  BY DEF LookupAccessor
<1>2. at # Nil
  BY <1>1
<1>3. at \in S
  <2>1. \E k : FirstAt(o, S, at, k)
    <3> HIDE DEF S
    <3>. QED BY <1>2, FirstOfIs
  <2>. QED BY <2>1 DEF FirstAt
<1>4. at \in Objects /\ Accessor(at, n) # Missing
  BY <1>3 DEF Objects
<1> HIDE DEF at
<1>. QED BY <1>1, <1>2, <1>4, HalfTyped

-----------------------------------------------------------------------------
(* Every operation is a step of these kinds. *)

StepSound == CallsStep /\ FunctionsStep /\ ObjectsStep

(* A trap is a function, if there is one. *)
LEMMA TrapTyped ==
  ASSUME NEW o, NEW name, Trap(o, name) # NoFunction
  PROVE  Trap(o, name) \in Functions
BY DEF Trap

(* The target of a proxy is an object. *)
LEMMA BehindTyped ==
  ASSUME TypeOK, NEW o \in Objects
  PROVE  Behind(o) \in Objects
<1>1. /\ heap[o].proxy \in [target : 1..Len(heap), handler : 1..Len(heap)] \cup {NoProxy}
      /\ Objects = 1..Len(heap)
  BY Addresses DEF Fields
<1>. QED BY <1>1 DEF Behind

(* Looking a property up calls a getter or nothing. *)
LEMMA ResolveStep ==
  ASSUME TypeOK, NEW of, NEW o \in Objects, NEW n \in Names, Resolve(of, o, n)
  PROVE  CallsStep
<1> DEFINE acc == IF Accessor(o, n) # Missing THEN Accessor(o, n) ELSE LookupAccessor(o, n)
<1>1. acc # Missing => acc.Get \in Functions \cup {NoFunction}
  BY HalfTyped, LookupTyped
<1>2. \/ \E v : Answers(of, v)
      \/ acc # Missing /\ acc.Get # NoFunction /\ Call(of, acc.Get, o, <<>>)
  <2> HIDE DEF acc
  <2>1. \/ Accessor(o, n) = Missing /\ Owns(o, n) /\ Answers(of, heap[o].data[n])
        \/ acc # Missing /\ acc.Get = NoFunction /\ Answers(of, Undefined)
        \/ acc # Missing /\ acc.Get # NoFunction /\ Call(of, acc.Get, o, <<>>)
        \/ Hangs(of) \/ Answers(of, GetInherited(o, n))
    BY Zenon DEF Resolve, acc
  <2>. QED BY <2>1, Zenon DEF Hangs
<1> HIDE DEF acc
<1>3. ASSUME NEW v, Answers(of, v)
      PROVE  CallsStep
  BY <1>3, AnswersStep
<1>4. ASSUME acc # Missing, acc.Get # NoFunction, Call(of, acc.Get, o, <<>>)
      PROVE  CallsStep
  <2>1. acc.Get \in Functions
    BY <1>1, <1>4
  <2>. QED BY <1>4, <2>1, CallStep
<1>. QED BY <1>2, <1>3, <1>4, Zenon

(* A read through dots. *)
LEMMA GetPropSound ==
  ASSUME TypeInv, NEW o \in Objects, NEW n \in Names, OpGetProp(o, n)
  PROVE  StepSound
<1> DEFINE of == <<"get", o, n>>
<1>1. TypeOK /\ Behind(o) \in Objects
  BY BehindTyped DEF TypeInv
<1>2. ObjectsStep /\ FunctionsStep
  BY ReadsStep DEF OpGetProp
<1>3. CASE Trap(o, get) # NoFunction
  <2>1. Call(of, Trap(o, get), heap[o].proxy.handler, <<Behind(o), n, o>>)
    BY <1>3, Zenon DEF OpGetProp
  <2>. QED BY <1>2, <1>3, <2>1, TrapTyped, CallStep DEF StepSound
<1>4. CASE Trap(o, get) = NoFunction
  <2>1. Resolve(of, Behind(o), n)
    BY <1>4, Zenon DEF OpGetProp
  <2>. QED BY <1>1, <1>2, <2>1, ResolveStep DEF StepSound
<1>. QED BY <1>3, <1>4

(* A step that writes objects and answers. *)
LEMMA WritesSound ==
  ASSUME TypeInv, NEW h, HeapTyped(h), Len(h) = Len(heap),
         \A p \in 1..Len(heap) : h[p].proto = heap[p].proto,
         Writes(h), NEW of, NEW v, Answers(of, v)
  PROVE  StepSound
<1>1. heap' = h /\ UNCHANGED <<fprops, born, epoch>>
  BY DEF Writes, History
<1>2. ObjectsStep /\ FunctionsStep
  BY <1>1, WritesStep
<1>. QED BY <1>2, AnswersStep DEF StepSound

(* A step that reads and answers. *)
LEMMA ReadsSound ==
  ASSUME TypeInv, Reads, NEW of, NEW v, Answers(of, v)
  PROVE  StepSound
BY ReadsStep, AnswersStep DEF StepSound

(* A write through dots. *)
LEMMA SetPropSound ==
  ASSUME TypeInv, NEW o \in Objects, NEW n \in Names, NEW v \in Held, OpSetProp(o, n, v)
  PROVE  StepSound
<1> DEFINE of == <<"set", o, n, v>>
           obj == Behind(o)
           acc == LookupAccessor(Behind(o), n)
<1>1. TypeOK /\ obj \in Objects /\ HeapTyped(heap)
  BY BehindTyped, Addresses DEF TypeInv
<1>2. ASSUME Trap(o, set) # NoFunction, Reads, Call(of, Trap(o, set), heap[o].proxy.handler, <<obj, n, v, o>>)
      PROVE  StepSound
  <2>1. ObjectsStep /\ FunctionsStep
    BY <1>2, ReadsStep
  <2>. QED BY <1>2, <2>1, TrapTyped, CallStep DEF StepSound
<1>3. ASSUME acc # Missing, Reads,
             IF acc.Set = NoFunction THEN Answers(of, v) ELSE Call(of, acc.Set, obj, <<v>>)
      PROVE  StepSound
  <2>1. ObjectsStep /\ FunctionsStep
    BY <1>3, ReadsStep
  <2>2. acc.Set \in Functions \cup {NoFunction}
    BY <1>1, <1>3, LookupTyped
  <2> HIDE DEF acc, obj, of
  <2>3. CASE acc.Set = NoFunction
    BY <1>3, <2>1, <2>3, AnswersStep DEF StepSound
  <2>4. CASE acc.Set # NoFunction
    <3>1. acc.Set \in Functions /\ Call(of, acc.Set, obj, <<v>>)
      BY <1>3, <2>2, <2>4
    <3>. QED BY <2>1, <3>1, CallStep DEF StepSound
  <2>. QED BY <2>3, <2>4
<1>4. ASSUME Reads, Hangs(of)
      PROVE  StepSound
  BY <1>4, ReadsSound DEF Hangs
<1>5. ASSUME Writes(Stored(obj, n, v)), Answers(of, v)
      PROVE  StepSound
  <2>1. /\ HeapTyped(Stored(obj, n, v)) /\ Len(Stored(obj, n, v)) = Len(heap)
        /\ \A p \in 1..Len(heap) : Stored(obj, n, v)[p].proto = heap[p].proto
    BY <1>1, StoredTyped
  <2>. QED BY <1>5, <2>1, WritesSound
<1> HIDE DEF of, obj, acc
<1>6. \/ /\ Trap(o, set) # NoFunction /\ Reads
         /\ Call(of, Trap(o, set), heap[o].proxy.handler, <<obj, n, v, o>>)
      \/ /\ acc # Missing /\ Reads
         /\ IF acc.Set = NoFunction THEN Answers(of, v) ELSE Call(of, acc.Set, obj, <<v>>)
      \/ Reads /\ Hangs(of)
      \/ Writes(Stored(obj, n, v)) /\ Answers(of, v)
  BY Zenon DEF OpSetProp, of, obj, acc
<1>. QED BY <1>2, <1>3, <1>4, <1>5, <1>6, Zenon

(* The operations on properties. *)
LEMMA AccessSound ==
  ASSUME TypeInv, Access
  PROVE  StepSound
<1>1. PICK o \in Objects, n \in PlainNames :
        \/ OpGetProp(o, n) \/ OpDeleteProp(o, n) \/ OpIn(o, n) \/ GetByVal(o, n)
        \/ \E v \in Values : OpSetProp(o, n, v) \/ DefineDataProperty(o, n, v) \/ SetByVal(o, n, v)
        \/ \E f \in Getters : OpDefineGetter(o, n, f)
        \/ \E f \in Setters : OpDefineSetter(o, n, f)
        \/ \E p \in Getters \cup {NoFunction}, q \in Setters \cup {NoFunction} :
             DefineAccessorProperty(o, n, p, q)
  BY Zenon DEF Access
<1>2. TypeOK /\ n \in Names /\ Values \subseteq Held /\ HeapTyped(heap)
  BY Addresses DEF TypeInv, Names, Values, Held
<1>3. Getters \cup {NoFunction} \subseteq Functions \cup {NoFunction}
      /\ Setters \cup {NoFunction} \subseteq Functions \cup {NoFunction}
  BY DispatchAssumption
<1>4. CASE OpGetProp(o, n)
  BY <1>2, <1>4, GetPropSound
<1>5. CASE OpDeleteProp(o, n)
  <2> DEFINE h == [heap EXCEPT ![o].data = [m \in DOMAIN @ \ {n} |-> @[m]]]
  <2>1. HeapTyped(h) /\ Len(h) = Len(heap) /\ \A p \in 1..Len(heap) : h[p].proto = heap[p].proto
    BY <1>2, DeletedTyped
  <2>2. Writes(h) /\ Answers(<<"delete", o, n>>, Owns(o, n))
    BY <1>5 DEF OpDeleteProp
  <2> HIDE DEF h
  <2>. QED BY <2>1, <2>2, WritesSound
<1>6. CASE OpIn(o, n)
  BY <1>6, ReadsSound DEF OpIn
<1>7. CASE GetByVal(o, n)
  <2>1. Reads /\ \E of, v : Answers(of, v)
    BY <1>7, Zenon DEF GetByVal, Hangs
  <2>. QED BY <2>1, ReadsSound
<1>8. ASSUME NEW v \in Values, OpSetProp(o, n, v) \/ DefineDataProperty(o, n, v) \/ SetByVal(o, n, v)
      PROVE  StepSound
  <2>1. CASE OpSetProp(o, n, v)
    BY <1>2, <2>1, SetPropSound
  <2>2. CASE DefineDataProperty(o, n, v) \/ SetByVal(o, n, v)
    <3>1. /\ HeapTyped(Stored(o, n, v)) /\ Len(Stored(o, n, v)) = Len(heap)
          /\ \A p \in 1..Len(heap) : Stored(o, n, v)[p].proto = heap[p].proto
      BY <1>2, StoredTyped
    <3>2. Writes(Stored(o, n, v)) /\ \E of, w : Answers(of, w)
      BY <2>2, Zenon DEF DefineDataProperty, SetByVal
    <3>. QED BY <3>1, <3>2, WritesSound
  <2>. QED BY <1>8, <2>1, <2>2
<1>9. ASSUME NEW a \in Functions \cup {NoFunction}, NEW b \in Functions \cup {NoFunction},
             Writes(WithAccessor(o, n, a, b)), NEW of, NEW w, Answers(of, w)
      PROVE  StepSound
  <2>1. /\ HeapTyped(WithAccessor(o, n, a, b)) /\ Len(WithAccessor(o, n, a, b)) = Len(heap)
        /\ \A p \in 1..Len(heap) : WithAccessor(o, n, a, b)[p].proto = heap[p].proto
    BY <1>2, WithAccessorTyped
  <2>. QED BY <1>9, <2>1, WritesSound
<1>10. ASSUME NEW f \in Getters, OpDefineGetter(o, n, f)
       PROVE  StepSound
  <2>1. f \in Functions \cup {NoFunction} /\ Half(o, n, "Set") \in Functions \cup {NoFunction}
    BY <1>2, <1>3, HalfTyped
  <2>2. Writes(WithAccessor(o, n, f, Half(o, n, "Set"))) /\ Answers(<<"getter", o, n, f>>, o)
    BY <1>10, Zenon DEF OpDefineGetter
  <2>. QED BY <1>9, <2>1, <2>2
<1>11. ASSUME NEW f \in Setters, OpDefineSetter(o, n, f)
       PROVE  StepSound
  <2>1. f \in Functions \cup {NoFunction} /\ Half(o, n, "Get") \in Functions \cup {NoFunction}
    BY <1>2, <1>3, HalfTyped
  <2>2. Writes(WithAccessor(o, n, Half(o, n, "Get"), f)) /\ Answers(<<"setter", o, n, f>>, o)
    BY <1>11, Zenon DEF OpDefineSetter
  <2>. QED BY <1>9, <2>1, <2>2
<1>12. ASSUME NEW p \in Getters \cup {NoFunction}, NEW q \in Setters \cup {NoFunction},
              DefineAccessorProperty(o, n, p, q)
       PROVE  StepSound
  <2>1. p \in Functions \cup {NoFunction} /\ q \in Functions \cup {NoFunction}
    BY <1>3
  <2>2. Writes(WithAccessor(o, n, p, q)) /\ Answers(<<"accessor", o, n, p, q>>, o)
    BY <1>12, Zenon DEF DefineAccessorProperty
  <2>. QED BY <1>9, <2>1, <2>2
<1>. QED BY <1>1, <1>4, <1>5, <1>6, <1>7, <1>8, <1>10, <1>11, <1>12, Zenon

-----------------------------------------------------------------------------
(* Operations that make objects. *)

(* One object is made, which is no view. *)
LEMMA OneMade ==
  ASSUME TypeInv, NEW a, Fields(a, Len(heap) + 1), a.view = NoView, Allocates(<<a>>), fprops' = fprops,
         NEW of, NEW v, Answers(of, v)
  PROVE  StepSound
<1>1. Fresh(<<a>>, Len(heap)) /\ Len(<<a>>) = 1 /\ <<a>>[1] = a
  BY Addresses, FreshOne DEF TypeInv
<1>2. ViewsOver(<<a>>, heap \o <<a>>)
  BY <1>1 DEF ViewsOver
<1>. QED BY <1>1, <1>2, AllocatesStep, AnswersStep DEF StepSound

(* A view is made over a buffer there is. *)
LEMMA ViewMade ==
  ASSUME TypeInv, NEW a, Fields(a, Len(heap) + 1), a.view # NoView, a.view.buffer \in Objects,
         Lies(a.view, heap[a.view.buffer].bytes), Allocates(<<a>>), fprops' = fprops,
         NEW of, NEW v, Answers(of, v)
  PROVE  StepSound
<1>1. Fresh(<<a>>, Len(heap)) /\ Len(<<a>>) = 1 /\ <<a>>[1] = a
  BY Addresses, FreshOne DEF TypeInv
<1>2. /\ Objects = 1..Len(heap) /\ Len(heap) \in Nat /\ HeapTyped(heap)
  BY Addresses DEF TypeInv
<1>3. (heap \o <<a>>)[a.view.buffer] = heap[a.view.buffer]
  <2> DEFINE S == {heap[o] : o \in 1..Len(heap)} \cup {a}
  <2>1. heap \in Seq(S) /\ <<a>> \in Seq(S)
    <3>1. \A o \in 1..Len(heap) : heap[o] \in S
      OBVIOUS
    <3>2. a \in S
      OBVIOUS
    <3> HIDE DEF S
    <3>. QED BY <1>2, <3>1, <3>2, HeapSequence
  <2> HIDE DEF S
  <2>. QED BY <1>1, <1>2, <2>1, ConcatProperties
<1>4. ViewsOver(<<a>>, heap \o <<a>>)
  <2> DEFINE s == <<a>>
             h == heap \o s
  <2>1. Len(s) = 1 /\ s[1] = a /\ h[a.view.buffer] = heap[a.view.buffer]
    BY <1>1, <1>3
  <2> HIDE DEF s, h
  <2>2. \A k \in 1..Len(s) : s[k] = a
    BY <2>1
  <2>3. ViewsOver(s, h)
    BY <2>1, <2>2 DEF ViewsOver
  <2>. QED BY <2>3 DEF s, h
<1>. QED BY <1>1, <1>4, AllocatesStep, AnswersStep DEF StepSound

(* A buffer and the view over it are made. *)
LEMMA PairMade ==
  ASSUME TypeInv, NEW a, NEW b, Fields(a, Len(heap) + 2), Fields(b, Len(heap) + 2),
         a.view = NoView, Lies(b.view, a.bytes), b.view # NoView, b.view.buffer = Len(heap) + 1,
         Allocates(<<a, b>>), fprops' = fprops, NEW of, NEW v, Answers(of, v)
  PROVE  StepSound
<1>1. Fresh(<<a, b>>, Len(heap)) /\ Len(<<a, b>>) = 2 /\ <<a, b>>[1] = a /\ <<a, b>>[2] = b
  BY Addresses, FreshTwo DEF TypeInv
<1>2. /\ Objects = 1..Len(heap) /\ Len(heap) \in Nat /\ HeapTyped(heap)
  BY Addresses DEF TypeInv
<1>3. (heap \o <<a, b>>)[Len(heap) + 1] = a
  <2> DEFINE S == {heap[o] : o \in 1..Len(heap)} \cup {a, b}
  <2>1. heap \in Seq(S) /\ <<a, b>> \in Seq(S)
    <3>1. \A o \in 1..Len(heap) : heap[o] \in S
      OBVIOUS
    <3>2. a \in S /\ b \in S
      OBVIOUS
    <3> HIDE DEF S
    <3>. QED BY <1>2, <3>1, <3>2, HeapSequence
  <2> HIDE DEF S
  <2>. QED BY <1>1, <1>2, <2>1, ConcatProperties
<1>4. ViewsOver(<<a, b>>, heap \o <<a, b>>)
  <2> DEFINE s == <<a, b>>
             h == heap \o s
  <2>1. Len(s) = 2 /\ s[1] = a /\ s[2] = b /\ h[b.view.buffer] = a
    BY <1>1, <1>3
  <2> HIDE DEF s, h
  <2>2. \A k \in 1..Len(s) : s[k] = a \/ s[k] = b
    BY <2>1
  <2>3. ViewsOver(s, h)
    BY <2>1, <2>2 DEF ViewsOver
  <2>. QED BY <2>3 DEF s, h
<1>. QED BY <1>1, <1>4, AllocatesStep, AnswersStep DEF StepSound

(* Object.create, the Proxy constructor and a spread. *)
LEMMA CreateSound ==
  ASSUME TypeInv, \/ \E p \in Objects \cup {Nil} : ObjectCreate(p)
                  \/ \E t, h \in Objects : ProxyConstruct(t, h)
                  \/ \E s \in Objects : OpObjectSpread(s)
  PROVE  StepSound
<1> DEFINE n == Len(heap) + 1
<1>1. TypeOK /\ n \in Nat /\ Objects = 1..Len(heap) /\ Len(heap) \in Nat /\ 1 \in Objects
  BY Addresses DEF TypeInv
<1>2. ASSUME NEW p \in Objects \cup {Nil}, ObjectCreate(p)
      PROVE  StepSound
  <2> DEFINE a == [NewBareObject EXCEPT !.proto = p]
             b == [data |-> NoData, accessors |-> NoAccessors, proto |-> p,
                   proxy |-> NoProxy, view |-> NoView, bytes |-> NoBytes]
  <2>1. a = b
    BY NewRecords
  <2>2. p \in 0..n
    BY <1>1 DEF Nil
  <2> HIDE DEF n
  <2>3. Fields(b, n) /\ b.view = NoView
    BY <1>1, <2>2, NewRecords, NewTyped
  <2>4. Allocates(<<a>>) /\ fprops' = fprops /\ Answers(<<"create", p>>, Next1)
    BY <1>2 DEF ObjectCreate
  <2> HIDE DEF a, b
  <2>. QED BY <2>1, <2>3, <2>4, OneMade DEF n
<1>3. ASSUME NEW t \in Objects, NEW h \in Objects, ProxyConstruct(t, h)
      PROVE  StepSound
  <2> DEFINE x == [target |-> t, handler |-> h]
             a == [NewBareObject EXCEPT !.proxy = x]
             b == [data |-> NoData, accessors |-> NoAccessors, proto |-> Nil,
                   proxy |-> x, view |-> NoView, bytes |-> NoBytes]
  <2>1. a = b
    BY NewRecords
  <2>2. Nil \in 0..n /\ t \in 1..n /\ h \in 1..n
    BY <1>1 DEF Nil
  <2> HIDE DEF n
  <2>3. x \in [target : 1..n, handler : 1..n]
    BY <2>2
  <2>4. Fields(b, n) /\ b.view = NoView
    BY <1>1, <2>2, <2>3, NewRecords, NewTyped
  <2>5. Allocates(<<a>>) /\ fprops' = fprops /\ Answers(<<"proxy", t, h>>, Next1)
    BY <1>3 DEF ProxyConstruct
  <2> HIDE DEF a, b
  <2>. QED BY <2>1, <2>4, <2>5, OneMade DEF n
<1>4. ASSUME NEW s \in Objects, OpObjectSpread(s)
      PROVE  StepSound
  <2> DEFINE d == Copied(NoData, s)
             a == [NewObject EXCEPT !.data = d]
             b == [data |-> d, accessors |-> NoAccessors, proto |-> ObjectPrototype,
                   proxy |-> NoProxy, view |-> NoView, bytes |-> NoBytes]
  <2>1. a = b
    BY NewRecords
  <2>2. ObjectPrototype \in 0..n
    BY <1>1 DEF ObjectPrototype
  <2>3. d \in [DOMAIN d -> Held] /\ DOMAIN d \subseteq Names \cup Int
    BY <1>1, NewRecords, CopiedData
  <2> HIDE DEF n, d
  <2>4. Fields(b, n) /\ b.view = NoView
    BY <1>1, <2>2, <2>3, NewTyped
  <2>5. Allocates(<<a>>) /\ fprops' = fprops /\ Answers(<<"spread", s>>, Next1)
    BY <1>4 DEF OpObjectSpread, d
  <2> HIDE DEF a, b
  <2>. QED BY <2>1, <2>4, <2>5, OneMade DEF n
<1>. QED BY <1>2, <1>3, <1>4

-----------------------------------------------------------------------------
(* Elements of typed arrays. *)

(* The records of buffers and views. *)
LEMMA ViewRecords ==
  ASSUME NEW kind, NEW b, NEW offset, NEW length, NEW m
  PROVE  /\ MakeTypedArrayView(kind, b, offset, length) =
              [data |-> NoData, accessors |-> NoAccessors, proto |-> ObjectPrototype, proxy |-> NoProxy,
               view |-> [kind |-> kind, buffer |-> b, offset |-> offset, length |-> length],
               bytes |-> NoBytes]
         /\ NewBuffer(m) =
              [data |-> NoData, accessors |-> NoAccessors, proto |-> ObjectPrototype, proxy |-> NoProxy,
               view |-> NoView, bytes |-> ZeroBytes(m)]
BY NewRecords DEF MakeTypedArrayView, NewBuffer

(* A view is not what stands for none, and neither are bytes. *)
LEMMA SomeView ==
  ASSUME NEW kind \in Kinds, NEW b \in Nat, NEW offset \in Nat, NEW length \in Int
  PROVE  /\ [kind |-> kind, buffer |-> b, offset |-> offset, length |-> length]
              \in [kind : Kinds, buffer : Nat, offset : Nat, length : Int]
         /\ [kind |-> kind, buffer |-> b, offset |-> offset, length |-> length] # NoView
         /\ NoBytes \notin Seq(Bytes)
BY DispatchAssumption DEF Bytes

(* What is left behind an offset lies in the bytes, if it is something. *)
LEMMA LeftLies ==
  ASSUME NEW bytes \in Seq(Bytes), NEW kind \in Kinds, NEW offset \in Nat
  PROVE  /\ LengthLeft(bytes, kind, offset) \in Int
         /\ LengthLeft(bytes, kind, offset) > 0 =>
              offset + BytesPerElem(kind) * LengthLeft(bytes, kind, offset) <= Len(bytes)
<1> DEFINE all == Len(bytes)
           left == all - offset
           width == BytesPerElem(kind)
           length == LengthLeft(bytes, kind, offset)
<1>1. all \in Nat /\ left \in Int /\ width \in {1, 4}
  BY Widths
<1>2. length = IF left >= 0 THEN left \div width ELSE -((-left) \div width)
  BY DEF LengthLeft
<1> HIDE DEF width, length
<1>3. CASE left >= 0
  <2> DEFINE quotient == left \div width
             part == width * quotient
  <2>1. quotient \in Nat /\ part <= left
    <3> HIDE DEF left
    <3>. QED BY <1>1, <1>3
  <2>2. length = quotient
    BY <1>2, <1>3
  <2> HIDE DEF quotient
  <2>3. part \in Nat
    BY <1>1, <2>1
  <2> HIDE DEF part
  <2>4. offset + part <= all
    BY <1>1, <2>1, <2>3
  <2>. QED BY <2>1, <2>2, <2>4 DEF part, width, length
<1>4. CASE ~ (left >= 0)
  <2> DEFINE behind == -left
             quotient == behind \div width
  <2>1. behind \in Nat
    BY <1>1, <1>4
  <2> HIDE DEF behind
  <2>2. quotient \in Nat
    BY <1>1, <2>1
  <2>3. length = -quotient
    BY <1>2, <1>4 DEF behind
  <2> HIDE DEF quotient
  <2>. QED BY <2>2, <2>3 DEF length
<1>. QED BY <1>3, <1>4

(* A view over a buffer there is. *)
LEMMA ViewOfBufferSound ==
  ASSUME TypeInv, NEW kind \in Kinds, NEW b \in Objects, NEW offset \in Nat, ViewOfBuffer(kind, b, offset)
  PROVE  StepSound
<1> DEFINE n == Len(heap) + 1
           length == LengthLeft(heap[b].bytes, kind, offset)
           w == [kind |-> kind, buffer |-> b, offset |-> offset, length |-> length]
           a == MakeTypedArrayView(kind, b, offset, length)
           r == [data |-> NoData, accessors |-> NoAccessors, proto |-> ObjectPrototype, proxy |-> NoProxy,
                 view |-> w, bytes |-> NoBytes]
<1>1. /\ TypeOK /\ n \in Nat /\ Objects = 1..Len(heap) /\ Len(heap) \in Nat
      /\ b \in 1..n /\ b \in Nat /\ 1 \in 0..n
  BY Addresses DEF TypeInv
<1>2. heap[b].bytes # NoBytes /\ heap[b].bytes \in Seq(Bytes)
  BY <1>1, Addresses DEF ViewOfBuffer, Fields, Bytes
<1>3. length \in Int /\ (length > 0 => offset + BytesPerElem(kind) * length <= Len(heap[b].bytes))
  BY <1>2, LeftLies
<1>4. Allocates(<<a>>) /\ fprops' = fprops /\ Answers(<<"view", kind, b, offset>>, Next1)
  BY DEF ViewOfBuffer
<1> HIDE DEF length
<1>5. a = r
  BY ViewRecords
<1> HIDE DEF n, a
<1>6. w \in [kind : Kinds, buffer : 1..n, offset : Nat, length : Int] /\ w # NoView
  BY <1>1, <1>3, SomeView
<1>7. r.view = w /\ w.buffer = b
  OBVIOUS
<1> HIDE DEF w
<1>8. Fields(r, n)
  BY <1>1, <1>6, NewRecords, NewTyped DEF ObjectPrototype
<1> HIDE DEF r
<1>9. Fields(a, Len(heap) + 1) /\ a.view # NoView /\ a.view.buffer = b
  BY <1>5, <1>6, <1>7, <1>8 DEF n
<1>10. Lies(a.view, heap[b].bytes)
  BY <1>2, <1>3, <1>5, <1>7 DEF Lies, w
<1>. QED BY <1>4, <1>9, <1>10, ViewMade

(* A buffer with these bytes, and a view over it with these data. *)
LEMMA PairTyped ==
  ASSUME TypeInv, NEW kind \in Kinds, NEW length \in Nat, NEW bytes \in Seq(Bytes),
         Len(bytes) = BytesPerElem(kind) * length,
         NEW d, d \in [DOMAIN d -> Held], DOMAIN d \subseteq Names \cup Int,
         NEW a, a = [data |-> NoData, accessors |-> NoAccessors, proto |-> ObjectPrototype,
                     proxy |-> NoProxy, view |-> NoView, bytes |-> bytes],
         NEW b, b = [data |-> d, accessors |-> NoAccessors, proto |-> ObjectPrototype, proxy |-> NoProxy,
                     view |-> [kind |-> kind, buffer |-> Next1, offset |-> 0, length |-> length],
                     bytes |-> NoBytes],
         Allocates(<<a, b>>), fprops' = fprops, NEW of, NEW v, Answers(of, v)
  PROVE  StepSound
<1> DEFINE n == Len(heap) + 2
           w == [kind |-> kind, buffer |-> Next1, offset |-> 0, length |-> length]
<1>1. n \in Nat /\ Len(heap) \in Nat /\ Next1 \in 1..n /\ Next1 \in Nat /\ 1 \in 0..n /\ Next1 = Len(heap) + 1
  BY Addresses DEF TypeInv, Next1
<1> HIDE DEF n
<1>2. w \in [kind : Kinds, buffer : 1..n, offset : Nat, length : Int] /\ w # NoView
  <2>1. length \in Int /\ 0 \in Nat
    OBVIOUS
  <2>2. w # NoView
    BY <1>1, <2>1, SomeView
  <2>. QED BY <1>1, <2>1, <2>2
<1>3. b.view = w /\ w.buffer = Next1 /\ a.view = NoView /\ a.bytes = bytes
  OBVIOUS
<1>4. Lies(b.view, a.bytes)
  <2>1. a.bytes # NoBytes
    BY <1>3, DispatchAssumption DEF Bytes
  <2>2. /\ b.view.offset = 0 /\ b.view.kind = kind /\ b.view.length = length
        /\ Len(a.bytes) = BytesPerElem(kind) * length
    OBVIOUS
  <2>3. BytesPerElem(kind) * length \in Nat
    BY Widths
  <2>. QED BY <2>1, <2>2, <2>3 DEF Lies
<1>5. b = [data |-> d, accessors |-> NoAccessors, proto |-> ObjectPrototype, proxy |-> NoProxy,
           view |-> w, bytes |-> NoBytes]
  OBVIOUS
<1> HIDE DEF w
<1>6. Fields(a, n)
  BY <1>1, NewRecords, NewTyped DEF ObjectPrototype
<1>7. Fields(b, n)
  <2> DEFINE r(p) == [data |-> d, accessors |-> NoAccessors, proto |-> p, proxy |-> NoProxy,
                      view |-> w, bytes |-> NoBytes]
  <2>1. 1 \in 0..n /\ n \in Nat
    BY <1>1
  <2>2. Fields(r(1), n)
    <3>1. NoProxy \in [target : 1..n, handler : 1..n] \cup {NoProxy}
      OBVIOUS
    <3>2. w \in [kind : Kinds, buffer : 1..n, offset : Nat, length : Int] \cup {NoView}
      BY <1>2
    <3>3. NoBytes \in Seq(Bytes) \cup {NoBytes}
      OBVIOUS
    <3>. QED BY <2>1, <3>1, <3>2, <3>3, NewTyped
  <2>. QED BY <1>5, <2>2 DEF ObjectPrototype
<1>8. Fields(a, Len(heap) + 2) /\ Fields(b, Len(heap) + 2) /\ b.view # NoView /\ b.view.buffer = Len(heap) + 1
  BY <1>1, <1>2, <1>3, <1>6, <1>7 DEF n
<1>. QED BY <1>3, <1>4, <1>8, PairMade

(* new Kind(n). *)
LEMMA ConstructArraySound ==
  ASSUME TypeInv, NEW kind \in Kinds, NEW m \in Nat, TypedArrayConstruct(kind, m)
  PROVE  StepSound
<1> DEFINE a == NewBuffer(m * BytesPerElem(kind))
           b == MakeTypedArrayView(kind, Next1, 0, m)
           zero == ZeroBytes(m * BytesPerElem(kind))
<1>1. m * BytesPerElem(kind) \in Nat
  BY Widths
<1>2. zero \in Seq(Bytes) /\ Len(zero) = BytesPerElem(kind) * m
  <2>1. zero \in Seq(Bytes) /\ Len(zero) = m * BytesPerElem(kind)
    BY <1>1, ZeroBytesAre
  <2>2. m * BytesPerElem(kind) = BytesPerElem(kind) * m
    BY Widths
  <2>. QED BY <2>1, <2>2
<1>3. Allocates(<<a, b>>) /\ fprops' = fprops /\ \E of, v : Answers(of, v)
  BY Zenon DEF TypedArrayConstruct
<1>4. /\ a = [data |-> NoData, accessors |-> NoAccessors, proto |-> ObjectPrototype,
              proxy |-> NoProxy, view |-> NoView, bytes |-> zero]
      /\ b = [data |-> NoData, accessors |-> NoAccessors, proto |-> ObjectPrototype, proxy |-> NoProxy,
              view |-> [kind |-> kind, buffer |-> Next1, offset |-> 0, length |-> m], bytes |-> NoBytes]
  BY ViewRecords
<1> HIDE DEF a, b, zero
<1>. QED BY <1>2, <1>3, <1>4, NewRecords, PairTyped

(* view.slice(start, end). *)
LEMMA SliceSound ==
  ASSUME TypeInv, NEW o \in Objects, NEW start \in Int, NEW end \in Int, TypedArraySlice(o, start, end)
  PROVE  StepSound
<1> DEFINE view == heap[o].view
           elems == SliceElems(BytesOf(view), view, start, end)
           buffer == NewBuffer(Len(elems) * BytesPerElem(view.kind))
           copy == MakeTypedArrayView(view.kind, Next1, 0, Len(elems))
           zero == ZeroBytes(Len(elems) * BytesPerElem(view.kind))
           over == [kind |-> view.kind, buffer |-> Next1, offset |-> 0, length |-> Len(elems)]
           bytes == Filled(buffer.bytes, copy.view, elems, 0)
           d == Mirrored(copy.data, 0, elems)
           a == [buffer EXCEPT !.bytes = bytes]
           b == [copy EXCEPT !.data = d]
<1>1. TypeOK /\ IsView(o)
  BY DEF TypeInv, TypedArraySlice
<1>2. /\ Allocates(<<[buffer EXCEPT !.bytes = Filled(@, copy.view, elems, 0)],
                     [copy EXCEPT !.data = Mirrored(@, 0, elems)]>>)
      /\ fprops' = fprops /\ \E of, v : Answers(of, v)
  BY Zenon DEF TypedArraySlice
<1>3. Allocates(<<a, b>>)
  BY <1>2
<1>4. IsViewRecord(view) /\ BytesOf(view) \in Seq(Bytes) /\ view.kind \in Kinds
  BY <1>1, ViewOver DEF IsViewRecord
<1>5. elems \in Seq(Int) /\ Len(elems) \in Nat
  <2>1. elems \in Seq(Int)
    BY <1>4, SliceElemsInts
  <2> HIDE DEF elems
  <2>. QED BY <2>1
<1> HIDE DEF elems, view
<1>6. zero \in Seq(Bytes) /\ Len(zero) = BytesPerElem(view.kind) * Len(elems)
  <2>1. /\ Len(elems) * BytesPerElem(view.kind) \in Nat
        /\ Len(elems) * BytesPerElem(view.kind) = BytesPerElem(view.kind) * Len(elems)
    BY <1>4, <1>5, Widths
  <2>. QED BY <2>1, ZeroBytesAre
<1>7. /\ buffer = [data |-> NoData, accessors |-> NoAccessors, proto |-> ObjectPrototype,
                   proxy |-> NoProxy, view |-> NoView, bytes |-> zero]
      /\ copy = [data |-> NoData, accessors |-> NoAccessors, proto |-> ObjectPrototype, proxy |-> NoProxy,
                 view |-> over, bytes |-> NoBytes]
  BY ViewRecords
<1>8. IsViewRecord(over)
  BY <1>4, <1>5 DEF IsViewRecord
<1> HIDE DEF buffer, copy, zero
<1>9. bytes \in Seq(Bytes) /\ Len(bytes) = BytesPerElem(view.kind) * Len(elems)
  <2>1. bytes = Filled(zero, over, elems, 0)
    BY <1>7
  <2> HIDE DEF bytes, over
  <2>. QED BY <1>5, <1>6, <1>8, <2>1, FilledBytes
<1>10. d \in [DOMAIN d -> Held] /\ DOMAIN d \subseteq Names \cup Int
  <2> DEFINE e == Mirrored(NoData, 0, elems)
  <2>1. d = e
    BY <1>7
  <2>2. NoData \in [DOMAIN NoData -> Held] /\ DOMAIN NoData \subseteq Names \cup Int /\ 0 \in Int
    BY NewRecords
  <2>3. e \in [DOMAIN e -> Held] /\ DOMAIN e \subseteq Names \cup Int
    BY <1>5, <2>2, MirroredData
  <2> HIDE DEF d, e
  <2>. QED BY <2>1, <2>3
<1> HIDE DEF bytes, d
<1>11. /\ a = [data |-> NoData, accessors |-> NoAccessors, proto |-> ObjectPrototype,
               proxy |-> NoProxy, view |-> NoView, bytes |-> bytes]
       /\ b = [data |-> d, accessors |-> NoAccessors, proto |-> ObjectPrototype, proxy |-> NoProxy,
               view |-> over, bytes |-> NoBytes]
  BY <1>7
<1> HIDE DEF a, b
<1>. QED BY <1>2, <1>3, <1>4, <1>5, <1>9, <1>10, <1>11, PairTyped

(* The objects when the elements of source are set in o. *)
ElementsSet(o, source, off) ==
  [heap EXCEPT ![heap[o].view.buffer].bytes = Filled(@, heap[o].view, source, off),
               ![o].data = Mirrored(@, off, source)]

(* set() leaves the objects typed. *)
LEMMA ElementsSetIs ==
  ASSUME TypeOK, NEW o \in Objects, IsView(o), NEW source \in Seq(Int), NEW off \in Int
  PROVE  /\ HeapTyped(ElementsSet(o, source, off)) /\ Len(ElementsSet(o, source, off)) = Len(heap)
         /\ \A p \in 1..Len(heap) : ElementsSet(o, source, off)[p].proto = heap[p].proto
BY ElementsSetTyped DEF ElementsSet

(* The operations on elements. *)
LEMMA ElementsSound ==
  ASSUME TypeInv, Elements
  PROVE  StepSound
<1>1. TypeOK /\ HeapTyped(heap) /\ Indices \subseteq Int /\ Numbers \subseteq Int
  BY Addresses, DispatchAssumption DEF TypeInv
<1>2. ASSUME NEW o \in Objects, NEW i \in Indices, GetByVal(o, i)
      PROVE  StepSound
  <2>1. Reads /\ \E of, v : Answers(of, v)
    BY <1>2, Zenon DEF GetByVal, Hangs
  <2>. QED BY <2>1, ReadsSound
<1>3. ASSUME NEW o \in Objects, NEW i \in Indices, NEW v \in Numbers, SetElement(o, i, v)
      PROVE  StepSound
  <2>1. IsView(o) /\ Writes(IndexedWrite(o, i, v)) /\ Answers(<<"element", o, i, v>>, v)
    BY <1>3 DEF SetElement
  <2>2. i \in Int /\ v \in Int
    BY <1>1
  <2>3. /\ HeapTyped(IndexedWrite(o, i, v)) /\ Len(IndexedWrite(o, i, v)) = Len(heap)
        /\ \A p \in 1..Len(heap) : IndexedWrite(o, i, v)[p].proto = heap[p].proto
    BY <1>1, <2>1, <2>2, IndexedWriteTyped
  <2>. QED BY <2>1, <2>3, WritesSound
<1>4. ASSUME NEW o \in Objects, NEW i \in Indices, NEW v \in Numbers, TypedArraySet(o, <<v, 1>>, i)
      PROVE  StepSound
  <2> DEFINE s == <<v, 1>>
             h == [heap EXCEPT ![heap[o].view.buffer].bytes = Filled(@, heap[o].view, s, i),
                               ![o].data = Mirrored(@, i, s)]
             of == <<"elements", o, i, s>>
  <2>1. /\ IsView(o)
        /\ \/ Reads /\ Answers(of, Hung)
           \/ Writes(h) /\ Answers(of, Undefined)
    BY <1>4, Zenon DEF TypedArraySet, Hangs
  <2>2. i \in Int /\ v \in Int
    BY <1>1
  <2>3. s \in Seq(Int)
    BY <2>2
  <2> HIDE DEF s, of
  <2>4. HeapTyped(h) /\ Len(h) = Len(heap) /\ \A p \in 1..Len(heap) : h[p].proto = heap[p].proto
    <3>1. ElementsSet(o, s, i) = h
      BY DEF ElementsSet
    <3>2. TypeOK /\ IsView(o)
      BY <1>1, <2>1
    <3> HIDE DEF h
    <3>. QED BY <2>2, <2>3, <3>1, <3>2, ElementsSetIs
  <2> HIDE DEF h
  <2>. QED BY <2>1, <2>4, ReadsSound, WritesSound
<1>5. ASSUME NEW o \in Objects, NEW i \in Indices, NEW e \in Indices, TypedArraySlice(o, i, e)
      PROVE  StepSound
  BY <1>1, <1>5, SliceSound
<1>6. ASSUME NEW kind \in Kinds, TypedArrayConstruct(kind, 2)
      PROVE  StepSound
  BY <1>6, ConstructArraySound
<1>7. ASSUME NEW kind \in Kinds, NEW b \in Objects, NEW offset \in {0, 2, 4}, ViewOfBuffer(kind, b, offset)
      PROVE  StepSound
  BY <1>7, ViewOfBufferSound
<1>. QED BY <1>2, <1>3, <1>4, <1>5, <1>6, <1>7, Zenon DEF Elements

(* A script function returns, or an exception ends in a frame below. *)
LEMMA ReturnSound ==
  ASSUME TypeInv, (\E v : FunctionReturns(v)) \/ FunctionThrows
  PROVE  StepSound
<1>1. Reads /\ calls # <<>>
  BY Zenon DEF FunctionReturns, FunctionThrows
<1>2. \E k \in 0..(Len(calls) - 1) : calls' = SubSeq(calls, 1, k)
  <2>1. PICK S : calls \in Seq(S)
    BY DEF TypeInv
  <2>2. Len(calls) - 1 \in 0..(Len(calls) - 1)
    BY <1>1, <2>1
  <2>. QED BY <2>2, Zenon DEF FunctionReturns, FunctionThrows
<1>. QED BY <1>1, <1>2, ReadsStep DEF StepSound, CallsStep

-----------------------------------------------------------------------------
(* Functions and what they construct. *)

(* The prototype of a function is made, if it lacks one. *)
LEMMA PrototypeMade ==
  ASSUME TypeInv, NEW f \in Functions, fprops' = MadePrototype(f),
         Len(heap') \in Nat, Len(heap) <= Len(heap'), Lacks(f) => Next1 <= Len(heap')
  PROVE  /\ FunctionsStep
         /\ \A g \in Functions : fprops'[g]["prototype"] # fprops[g]["prototype"] => Lacks(g)
         /\ fprops'[f]["prototype"] = PrototypeOf(f) /\ PrototypeOf(f) # Missing
         /\ PrototypeOf(f) \in Prims \cup Objects \cup {Next1}
<1> DEFINE new == 1..Len(heap')
           S == Prims \cup Functions \cup new \cup {Missing}
           old == Prims \cup Functions \cup Objects \cup {Missing}
<1>1. /\ Objects = 1..Len(heap) /\ Len(heap) \in Nat /\ Objects \subseteq new
      /\ fprops \in [Functions -> [FNames -> old]]
      /\ \A g \in Functions : fprops[g]["prototype"] \in Prims \cup Objects \cup {Missing}
  BY Addresses DEF TypeInv, TypeOK
<1>2. Next1 \in Nat /\ Next1 # Missing /\ Next1 >= 1
  BY <1>1, DispatchAssumption DEF Next1
<1>3. old \subseteq S /\ {"prototype"} \subseteq FNames
  BY <1>1 DEF FNames
<1>4. fprops \in [Functions -> [FNames -> S]]
  <2> HIDE DEF old, S
  <2>. QED BY <1>1, <1>3
<1>5. CASE Lacks(f)
  <2>1. fprops' = [fprops EXCEPT ![f]["prototype"] = Next1]
    BY <1>5 DEF MadePrototype
  <2>2. Next1 \in new /\ Next1 \in S
    BY <1>2, <1>5
  <2> HIDE DEF S
  <2>3. fprops' \in [Functions -> [FNames -> S]]
    BY <1>3, <1>4, <2>1, <2>2
  <2>4. /\ fprops'[f]["prototype"] = Next1
        /\ \A g \in Functions : g # f => fprops'[g]["prototype"] = fprops[g]["prototype"]
    BY <1>3, <1>4, <2>1
  <2>5. \A g \in Functions : fprops'[g]["prototype"] \in Prims \cup new \cup {Missing}
    BY <1>1, <2>2, <2>4
  <2>6. PrototypeOf(f) = Next1
    BY <1>5 DEF PrototypeOf
  <2>. QED BY <1>2, <1>5, <2>3, <2>4, <2>5, <2>6 DEF FunctionsStep, S
<1>6. CASE ~ Lacks(f)
  <2>1. fprops' = fprops
    BY <1>6 DEF MadePrototype
  <2>2. PrototypeOf(f) = fprops[f]["prototype"] /\ PrototypeOf(f) # Missing
    BY <1>6 DEF PrototypeOf, Lacks
  <2>. QED BY <1>1, <1>4, <2>1, <2>2 DEF FunctionsStep
<1>. QED BY <1>5, <1>6

(* Objects that Object.prototype, or another, is the prototype of. *)
LEMMA InstanceTyped ==
  ASSUME NEW n \in Nat, n >= 1, NEW p \in 0..n
  PROVE  /\ Fields(NewObject, n) /\ NewObject.view = NoView /\ NewObject.proto = ObjectPrototype
         /\ Fields([NewObject EXCEPT !.proto = p], n) /\ [NewObject EXCEPT !.proto = p].view = NoView
         /\ [NewObject EXCEPT !.proto = p].proto = p
<1> DEFINE r(q) == [data |-> NoData, accessors |-> NoAccessors, proto |-> q,
                    proxy |-> NoProxy, view |-> NoView, bytes |-> NoBytes]
<1>1. NewObject = r(ObjectPrototype) /\ [NewObject EXCEPT !.proto = p] = r(p)
  BY NewRecords
<1>2. \A q \in 0..n : Fields(r(q), n) /\ r(q).view = NoView /\ r(q).proto = q
  BY NewRecords, NewTyped
<1>3. ObjectPrototype \in 0..n
  BY DEF ObjectPrototype
<1> HIDE DEF r
<1>. QED BY <1>1, <1>2, <1>3

(* A function is asked for its prototype. *)
LEMMA GetPrototypeSound ==
  ASSUME TypeInv, NEW f \in Functions, FunctionGetProp(f)
  PROVE  StepSound
<1>1. /\ Len(heap) \in Nat /\ Len(heap) >= 1 /\ Objects = 1..Len(heap)
  BY Addresses DEF TypeInv
<1>2. CallsStep /\ fprops' = MadePrototype(f)
  BY AnswersStep DEF FunctionGetProp
<1>3. CASE Lacks(f)
  <2> DEFINE s == <<NewObject>>
             origins == [k \in DOMAIN s |-> Missing]
             n == Len(heap) + 1
  <2>1. n \in Nat /\ n >= 1 /\ 0 \in 0..n
    BY <1>1
  <2>2. Fields(NewObject, n) /\ NewObject.view = NoView
    BY <2>1, InstanceTyped
  <2>3. Fresh(s, Len(heap)) /\ Len(s) = 1 /\ s[1] = NewObject
    BY <1>1, <2>2, FreshOne
  <2>4. Len(heap) + Len(s) <= MaxObjects /\ heap' = heap \o s /\ born' = born \o origins /\ epoch' = epoch
    BY <1>3 DEF FunctionGetProp, Allocates
  <2>5. DOMAIN s = 1..Len(s)
    BY <2>3 DEF Fresh
  <2>6. origins \in [1..Len(s) -> Origins \cup {Missing}] /\ \A k \in 1..Len(s) : origins[k] = Missing
    BY <2>5
  <2> HIDE DEF s, origins
  <2>7. ViewsOver(s, heap \o s)
    BY <2>2, <2>3 DEF ViewsOver
  <2>8. Len(heap') = n
    <3>1. Len(heap \o s) = Len(heap) + Len(s)
      BY <2>3, <2>7, Addresses, ObjectsAdded DEF TypeInv
    <3>. QED BY <2>3, <2>4, <3>1
  <2>9. /\ FunctionsStep
        /\ \A g \in Functions : fprops'[g]["prototype"] # fprops[g]["prototype"] => Lacks(g)
    BY <1>1, <1>2, <2>1, <2>8, PrototypeMade DEF Next1
  <2>10. ObjectsStep
    BY <2>3, <2>4, <2>6, <2>7, <2>9, AllocationStep
  <2>. QED BY <1>2, <2>9, <2>10 DEF StepSound
<1>4. CASE ~ Lacks(f)
  <2>1. UNCHANGED <<heap, born, epoch>> /\ fprops' = fprops
    BY <1>2, <1>4 DEF FunctionGetProp, MadePrototype
  <2>2. Reads
    BY <2>1 DEF Reads, History
  <2>. QED BY <1>2, <2>2, ReadsStep DEF StepSound
<1>. QED BY <1>3, <1>4

(* new f(), and Reflect.construct(f). *)
LEMMA ConstructsSound ==
  ASSUME TypeInv, NEW f \in Functions, NEW op, Constructs(op, f)
  PROVE  StepSound
<1> DEFINE p == PrototypeOf(f)
           q == IF p \in Objects \cup {Next1} THEN p ELSE ObjectPrototype
           inst == [NewObject EXCEPT !.proto = q]
           made == [NewObject EXCEPT !.proto =
                      IF PrototypeOf(f) \in Objects \cup {Next1} THEN PrototypeOf(f) ELSE @]
           s == IF Lacks(f) THEN <<NewObject, inst>> ELSE <<inst>>
           origins == [k \in DOMAIN s |-> IF k = Len(s) THEN [by |-> f, epoch |-> epoch[f]] ELSE Missing]
<1>1. /\ Len(heap) \in Nat /\ Len(heap) >= 1 /\ Objects = 1..Len(heap) /\ Next1 = Len(heap) + 1
      /\ epoch \in [Functions -> Nat]
  BY Addresses DEF TypeInv, TypeOK, Next1
<1>2. made = inst
  BY NewRecords
<1>3. /\ fprops' = MadePrototype(f) /\ Len(heap) + Len(s) <= MaxObjects /\ heap' = heap \o s
      /\ born' = born \o origins /\ epoch' = epoch
      /\ \E of, this, args : Call(of, f, this, args)
  <2> DEFINE t == IF Lacks(f) THEN <<NewObject, made>> ELSE <<made>>
             borns == [k \in DOMAIN t |-> IF k = Len(t) THEN [by |-> f, epoch |-> epoch[f]] ELSE Missing]
  <2>1. /\ fprops' = MadePrototype(f) /\ Len(heap) + Len(t) <= MaxObjects /\ heap' = heap \o t
        /\ born' = born \o borns /\ epoch' = epoch
        /\ \E of, this, args : Call(of, f, this, args)
    BY Zenon DEF Constructs
  <2>2. t = s
    BY <1>2
  <2> HIDE DEF t, s
  <2>. QED BY <2>1, <2>2
<1>4. CallsStep
  BY <1>3, CallStep
<1> HIDE DEF made
<1>5. /\ Fresh(s, Len(heap)) /\ s[Len(s)] = inst /\ (Lacks(f) => Len(s) = 2) /\ Len(s) \in 1..2
      /\ q \in 0..(Len(heap) + 1) /\ \A k \in 1..Len(s) : s[k].view = NoView
  <2>1. q \in 0..(Len(heap) + 1)
    BY <1>1 DEF ObjectPrototype
  <2> HIDE DEF q
  <2>2. /\ Fields(inst, Len(heap) + 1) /\ inst.view = NoView
        /\ Fields(inst, Len(heap) + 2) /\ Fields(NewObject, Len(heap) + 2) /\ NewObject.view = NoView
    <3>1. /\ Len(heap) + 1 \in Nat /\ Len(heap) + 1 >= 1 /\ Len(heap) + 2 \in Nat /\ Len(heap) + 2 >= 1
          /\ q \in 0..(Len(heap) + 2)
      BY <1>1, <2>1
    <3>. QED BY <2>1, <3>1, InstanceTyped
  <2> HIDE DEF inst
  <2>3. CASE Lacks(f)
    <3>1. s = <<NewObject, inst>>
      BY <2>3
    <3>2. Fresh(s, Len(heap)) /\ Len(s) = 2 /\ s[1] = NewObject /\ s[2] = inst
      BY <1>1, <2>2, <3>1, FreshTwo
    <3> HIDE DEF s
    <3>3. \A k \in 1..2 : k = 1 \/ k = 2
      OBVIOUS
    <3>. QED BY <2>1, <2>2, <3>2, <3>3
  <2>4. CASE ~ Lacks(f)
    <3>1. s = <<inst>>
      BY <2>4
    <3>2. Fresh(s, Len(heap)) /\ Len(s) = 1 /\ s[1] = inst
      BY <1>1, <2>2, <3>1, FreshOne
    <3> HIDE DEF s
    <3>3. \A k \in 1..1 : k = 1
      OBVIOUS
    <3>. QED BY <2>1, <2>2, <2>4, <3>2, <3>3
  <2>. QED BY <2>3, <2>4
<1>6. DOMAIN s = 1..Len(s)
  BY <1>5 DEF Fresh
<1> DEFINE mine == [by |-> f, epoch |-> epoch[f]]
<1>7. mine \in Origins /\ mine.by = f /\ mine.epoch = epoch[f]
  BY <1>1 DEF Origins
<1>8. /\ origins \in [1..Len(s) -> Origins \cup {Missing}]
      /\ \A k \in 1..Len(s) : origins[k] = IF k = Len(s) THEN mine ELSE Missing
  <2> HIDE DEF s, mine
  <2>1. origins = [k \in 1..Len(s) |-> IF k = Len(s) THEN mine ELSE Missing]
    BY <1>6 DEF mine
  <2>. QED BY <1>7, <2>1
<1>9. inst.proto = q
  BY NewRecords
<1> HIDE DEF s, origins, mine, inst
<1>10. ViewsOver(s, heap \o s)
  BY <1>5 DEF ViewsOver
<1>11. Len(heap') = Len(heap) + Len(s)
  <2>1. Len(heap \o s) = Len(heap) + Len(s)
    BY <1>5, <1>10, Addresses, ObjectsAdded DEF TypeInv
  <2>. QED BY <1>3, <2>1
<1>12. Len(heap') \in Nat /\ Len(heap) <= Len(heap') /\ Next1 <= Len(heap')
  BY <1>1, <1>5, <1>11
<1>13. /\ FunctionsStep
       /\ \A g \in Functions : fprops'[g]["prototype"] # fprops[g]["prototype"] => Lacks(g)
       /\ fprops'[f]["prototype"] = p /\ p # Missing /\ p \in Prims \cup Objects \cup {Next1}
  BY <1>3, <1>12, PrototypeMade
<1>14. q = IF p \in 1..Len(heap') THEN p ELSE ObjectPrototype
  <2>1. Objects \cup {Next1} \subseteq 1..Len(heap')
    BY <1>1, <1>12
  <2>2. p \in 1..Len(heap') => p \in Objects \cup {Next1}
    BY <1>13, DispatchAssumption
  <2> HIDE DEF p
  <2>. QED BY <2>1, <2>2
<1>15. ASSUME NEW k \in 1..Len(s), origins[k] # Missing
       PROVE  LET r == fprops'[origins[k].by]["prototype"]
              IN /\ origins[k].epoch = epoch[origins[k].by] /\ r # Missing
                 /\ s[k].proto = IF r \in 1..Len(heap') THEN r ELSE ObjectPrototype
  <2>1. k = Len(s) /\ origins[k] = mine
    BY <1>8, <1>15
  <2>2. s[k].proto = q
    BY <1>5, <1>9, <2>1
  <2> HIDE DEF q, p
  <2>. QED BY <1>7, <1>13, <1>14, <2>1, <2>2
<1>16. ObjectsStep
  BY <1>3, <1>5, <1>8, <1>10, <1>13, <1>15, AllocationStep
<1>. QED BY <1>4, <1>13, <1>16 DEF StepSound

(* v instanceof f. *)
LEMMA InstanceofSound ==
  ASSUME TypeInv, NEW f \in Functions, NEW v, OpInstanceof(v, f)
  PROVE  StepSound
<1>1. Reads
  BY DEF OpInstanceof
<1>2. \/ fprops[f]["hasInstance"] \in Functions /\ \E of, args : Call(of, fprops[f]["hasInstance"], f, args)
      \/ \E of, w : Answers(of, w)
  BY Zenon DEF OpInstanceof, Hangs
<1>3. CallsStep
  BY <1>2, AnswersStep, CallStep
<1>. QED BY <1>1, <1>3, ReadsStep DEF StepSound

-----------------------------------------------------------------------------
(* Instances and prototypes. *)

(* What f gives its instances for a prototype. *)
Given(f) == IF fprops[f]["prototype"] \in Objects THEN fprops[f]["prototype"] ELSE ObjectPrototype

(* o was constructed in an epoch there was, and has what its function gives
   since; in one epoch all instances got the same. *)
Instance(o) ==
  /\ born[o].epoch <= epoch[born[o].by]
  /\ born[o].epoch = epoch[born[o].by] => ~ Lacks(born[o].by) /\ heap[o].proto = Given(born[o].by)
Alike(o, p) == born[p] = born[o] => heap[p].proto = heap[o].proto
Instances == \A o \in Objects : born[o] # Missing => Instance(o) /\ \A p \in Objects : Alike(o, p)

ObjectsInv == TypeInv /\ Instances

(* An origin names a function, and an epoch. *)
LEMMA OriginTyped ==
  ASSUME TypeInv, NEW o \in Objects, born[o] # Missing
  PROVE  born[o].by \in Functions /\ born[o].epoch \in Nat
BY DEF TypeInv, TypeOK, Origins

(* Steps that keep prototypes and origins keep instances what they are. *)
LEMMA InstancesKept ==
  ASSUME ObjectsInv, TypeInv', ObjectsStep, FunctionsStep
  PROVE  Instances'
<1>1. /\ Objects = 1..Len(heap) /\ Objects' = 1..Len(heap') /\ Objects \subseteq Objects'
      /\ Len(heap) \in Nat /\ Len(heap') \in Nat
  <2>1. Objects = 1..Len(heap) /\ Len(heap) \in Nat
    BY Addresses DEF ObjectsInv, TypeInv
  <2>2. TypeOK'
    BY DEF TypeInv
  <2>3. Objects' = DOMAIN heap' /\ HeapTyped(heap') /\ Len(heap') \in Nat /\ Len(heap) <= Len(heap')
    BY <2>1, DispatchAssumption DEF Objects, ObjectsStep
  <2>4. 1 \in 1..Len(heap')
    BY <2>1, DispatchAssumption DEF ObjectsStep
  <2>5. Objects' = 1..Len(heap')
    BY <2>3, <2>4, HeapObject
  <2>. QED BY <2>1, <2>3, <2>5
<1>2. ASSUME NEW o \in Objects', born'[o] # Missing
      PROVE  Instance(o)' /\ born'[o].by \in Functions
  <2>0. PICK f : f = born'[o].by
    OBVIOUS
  <2>1. CASE o \in Objects
    <3>1. born'[o] = born[o] /\ heap'[o].proto = heap[o].proto /\ epoch' = epoch
      BY <1>1, <2>1 DEF ObjectsStep
    <3>2. f \in Functions /\ Instance(o) /\ f = born[o].by
      BY <1>2, <2>0, <2>1, <3>1, OriginTyped DEF ObjectsInv, Instances
    <3>3. CASE born[o].epoch = epoch[f]
      <4>1. fprops'[f]["prototype"] = fprops[f]["prototype"] /\ ~ Lacks(f) /\ heap[o].proto = Given(f)
        BY <3>2, <3>3 DEF ObjectsStep, Instance
      <4>2. fprops[f]["prototype"] \in Prims \cup Objects
        BY <3>2, <4>1 DEF ObjectsInv, TypeInv, TypeOK, Lacks
      <4>3. fprops[f]["prototype"] \in Objects' <=> fprops[f]["prototype"] \in Objects
        BY <1>1, <4>2, DispatchAssumption
      <4>4. Given(f)' = IF fprops'[f]["prototype"] \in Objects' THEN fprops'[f]["prototype"]
                        ELSE ObjectPrototype
        BY DEF Given, ObjectPrototype
      <4>5. Given(f)' = Given(f)
        BY <4>1, <4>3, <4>4 DEF Given
      <4>6. ~ Lacks(f)'
        BY <4>1 DEF Lacks
      <4>. QED BY <2>0, <3>1, <3>2, <4>1, <4>5, <4>6 DEF Instance
    <3>4. CASE born[o].epoch # epoch[f]
      BY <2>0, <3>1, <3>2, <3>4 DEF Instance
    <3>. QED BY <2>0, <3>2, <3>3, <3>4
  <2>2. CASE o \notin Objects
    <3>1. o \in 1..Len(heap') /\ o > Len(heap)
      BY <1>1, <2>2
    <3> DEFINE p == fprops'[f]["prototype"]
    <3>2. /\ born'[o].epoch = epoch[f] /\ p # Missing /\ epoch' = epoch
          /\ heap'[o].proto = IF p \in 1..Len(heap') THEN p ELSE ObjectPrototype
      BY <1>2, <2>0, <3>1 DEF ObjectsStep
    <3>3. f \in Functions /\ epoch[f] \in Nat
      <4>1. born'[o] \in Origins
        BY <1>2, <3>1 DEF ObjectsStep
      <4>2. f \in Functions
        BY <2>0, <4>1 DEF Origins
      <4>. QED BY <4>2 DEF ObjectsInv, TypeInv, TypeOK
    <3>4. Given(f)' = IF p \in Objects' THEN p ELSE ObjectPrototype
      BY DEF Given, ObjectPrototype
    <3>5. ~ Lacks(f)'
      BY <3>2 DEF Lacks
    <3>. QED BY <1>1, <2>0, <3>2, <3>3, <3>4, <3>5 DEF Instance
  <2>. QED BY <2>1, <2>2
<1>3. ASSUME NEW o \in Objects', born'[o] # Missing, NEW p \in Objects', born'[p] = born'[o]
      PROVE  heap'[p].proto = heap'[o].proto
  <2> DEFINE f == born'[o].by
  <2>1. Instance(o)' /\ Instance(p)' /\ f = born'[p].by
    BY <1>2, <1>3
  <2>2. CASE born'[o].epoch = epoch'[f]
    BY <1>3, <2>1, <2>2 DEF Instance
  <2>3. CASE born'[o].epoch # epoch'[f]
    <3>1. \A q \in Objects' : q \notin Objects => q \in 1..Len(heap') /\ q > Len(heap)
      BY <1>1
    <3>2. o \in Objects /\ p \in Objects
      BY <1>3, <2>3, <3>1 DEF ObjectsStep
    <3>3. /\ born'[o] = born[o] /\ heap'[o].proto = heap[o].proto
          /\ born'[p] = born[p] /\ heap'[p].proto = heap[p].proto
      BY <1>1, <3>2 DEF ObjectsStep
    <3>. QED BY <1>3, <3>2, <3>3 DEF ObjectsInv, Instances, Alike
  <2>. QED BY <2>2, <2>3
<1>. QED BY <1>2, <1>3 DEF Instances, Alike

(* The prototype of one object changes. *)
LEMMA SetPrototypeInv ==
  ASSUME ObjectsInv, script' = script, NEW o \in Objects, NEW p \in Objects \cup {Nil}, SetPrototypeOf(o, p)
  PROVE  ObjectsInv'
<1>1. /\ TypeInv /\ TypeOK /\ HeapTyped(heap) /\ Objects = 1..Len(heap) /\ Len(heap) \in Nat
      /\ Len(heap) \in 1..MaxObjects /\ o \in 1..Len(heap) /\ p \in 0..Len(heap)
  BY Addresses DEF ObjectsInv, TypeInv, TypeOK, Nil
<1> DEFINE h == [heap EXCEPT ![o].proto = p]
<1>2. /\ HeapTyped(h) /\ Len(h) = Len(heap)
      /\ \A q \in 1..Len(heap) : h[q].proto = IF q = o THEN p ELSE heap[q].proto
  BY <1>1, ProtoReplaced
<1>3. heap' = h /\ born' = [born EXCEPT ![o] = Missing] /\ fprops' = fprops /\ epoch' = epoch /\ Step
  BY DEF SetPrototypeOf
<1>4. CallsStep
  BY AnswersStep DEF SetPrototypeOf
<1> HIDE DEF h
<1>5. /\ born' \in [1..Len(heap) -> Origins \cup {Missing}]
      /\ \A q \in 1..Len(heap) : born'[q] = IF q = o THEN Missing ELSE born[q]
  <2>1. born \in [1..Len(heap) -> Origins \cup {Missing}]
    BY <1>1 DEF TypeOK
  <2>. QED BY <1>3, <2>1
<1>6. FunctionsStep
  BY <1>1, <1>2, <1>3 DEF FunctionsStep, TypeOK
<1>7. TypeInv'
  <2>1. epoch' \in [Functions -> Nat] /\ steps' = steps + 1
    BY <1>1, <1>3 DEF TypeOK, Step
  <2>. QED BY <1>1, <1>2, <1>3, <1>4, <1>5, <1>6, <2>1, TypesAgain
<1>8. Objects' = Objects
  <2>1. DOMAIN heap' = 1..Len(heap')
    <3>1. 1 \in 1..Len(h)
      BY <1>1, <1>2
    <3>. QED BY <1>2, <1>3, <3>1, HeapObject
  <2>. QED BY <1>1, <1>2, <1>3, <2>1 DEF Objects
<1>9. ASSUME NEW q \in Objects', born'[q] # Missing
      PROVE  Instance(q)' /\ \A r \in Objects' : Alike(q, r)'
  <2>1. q # o /\ born'[q] = born[q] /\ heap'[q].proto = heap[q].proto /\ q \in Objects
    BY <1>1, <1>2, <1>3, <1>5, <1>8, <1>9
  <2>2. Instance(q) /\ \A r \in Objects : Alike(q, r)
    BY <1>9, <2>1 DEF ObjectsInv, Instances
  <2>3. Instance(q)'
    <3>1. \A f : Given(f)' = Given(f) /\ (Lacks(f)' <=> Lacks(f))
      BY <1>3, <1>8 DEF Given, Lacks, ObjectPrototype
    <3>. QED BY <1>3, <2>1, <2>2, <3>1 DEF Instance
  <2>4. ASSUME NEW r \in Objects', born'[r] = born'[q]
        PROVE  heap'[r].proto = heap'[q].proto
    <3>1. r # o /\ born'[r] = born[r] /\ heap'[r].proto = heap[r].proto /\ r \in Objects
      BY <1>1, <1>2, <1>3, <1>5, <1>8, <1>9, <2>4
    <3>. QED BY <2>1, <2>2, <2>4, <3>1 DEF Alike
  <2>. QED BY <2>3, <2>4 DEF Alike
<1>. QED BY <1>7, <1>9 DEF ObjectsInv, Instances

(* A property of a function changes: with its prototype an epoch begins. *)
LEMMA FunctionSetInv ==
  ASSUME ObjectsInv, script' = script, NEW f \in Functions, NEW n \in FNames, NEW v,
         \/ n = "prototype" /\ v \in Prims \cup Objects
         \/ n = "hasInstance" /\ v \in Functions,
         FunctionSetProp(f, n, v)
  PROVE  ObjectsInv'
<1>1. /\ TypeInv /\ TypeOK /\ HeapTyped(heap) /\ Objects = 1..Len(heap) /\ Len(heap) \in Nat
      /\ epoch \in [Functions -> Nat] /\ steps \in Nat
      /\ fprops \in [Functions -> [FNames -> Prims \cup Functions \cup Objects \cup {Missing}]]
      /\ \A g \in Functions : fprops[g]["prototype"] \in Prims \cup Objects \cup {Missing}
  BY Addresses DEF ObjectsInv, TypeInv, TypeOK
<1>2. /\ heap' = heap /\ born' = born /\ fprops' = [fprops EXCEPT ![f][n] = v]
      /\ epoch' = (IF n = "prototype" THEN [epoch EXCEPT ![f] = @ + 1] ELSE epoch) /\ Step
  BY DEF FunctionSetProp
<1>3. CallsStep
  BY AnswersStep DEF FunctionSetProp
<1>4. /\ epoch' \in [Functions -> Nat]
      /\ \A g \in Functions : \/ epoch'[g] = epoch[g] /\ fprops'[g]["prototype"] = fprops[g]["prototype"]
                              \/ epoch'[g] = epoch[g] + 1
  <2>1. CASE n = "prototype"
    <3>1. epoch' = [epoch EXCEPT ![f] = epoch[f] + 1]
      BY <1>2, <2>1
    <3>2. \A g \in Functions : g # f => fprops'[g] = fprops[g]
      BY <1>1, <1>2
    <3>. QED BY <1>1, <3>1, <3>2
  <2>2. CASE n = "hasInstance"
    <3>1. "prototype" # "hasInstance" /\ "prototype" \in FNames
      BY DEF FNames
    <3>2. epoch' = epoch
      BY <1>2, <2>2, <3>1
    <3>3. \A g \in Functions : fprops'[g]["prototype"] = fprops[g]["prototype"]
      BY <1>1, <1>2, <2>2, <3>1
    <3>. QED BY <1>1, <3>2, <3>3
  <2>. QED BY <2>1, <2>2 DEF FNames
<1>5. FunctionsStep
  <2> DEFINE S == Prims \cup Functions \cup Objects \cup {Missing}
  <2>1. v \in S
    OBVIOUS
  <2>2. fprops' \in [Functions -> [FNames -> S]]
    <3> HIDE DEF S
    <3>1. fprops \in [Functions -> [FNames -> S]]
      BY <1>1 DEF S
    <3>. QED BY <1>2, <2>1, <3>1
  <2>3. \A g \in Functions : fprops'[g]["prototype"] \in Prims \cup Objects \cup {Missing}
    <3>1. "prototype" # "hasInstance" /\ "prototype" \in FNames
      BY DEF FNames
    <3>. QED BY <1>1, <1>2, <3>1
  <2>. QED BY <1>1, <1>2, <2>2, <2>3 DEF FunctionsStep
<1>6. TypeInv'
  <2>1. /\ HeapTyped(heap') /\ Len(heap') \in 1..MaxObjects /\ steps' = steps + 1
        /\ born' \in [1..Len(heap') -> Origins \cup {Missing}]
    BY <1>1, <1>2 DEF TypeOK, Step
  <2>. QED BY <1>1, <1>3, <1>4, <1>5, <2>1, TypesAgain
<1>7. ASSUME NEW q \in Objects', born'[q] # Missing
      PROVE  Instance(q)' /\ \A r \in Objects' : Alike(q, r)'
  <2>0. PICK g : g = born[q].by
    OBVIOUS
  <2>1. Objects' = Objects
    BY <1>2 DEF Objects
  <2>2. g \in Functions /\ born[q].epoch \in Nat /\ Instance(q) /\ \A r \in Objects : Alike(q, r)
    BY <1>1, <1>2, <1>7, <2>0, <2>1, OriginTyped DEF ObjectsInv, Instances
  <2>3. Instance(q)'
    <3>1. CASE epoch'[g] = epoch[g] /\ fprops'[g]["prototype"] = fprops[g]["prototype"]
      <4>1. Given(g)' = Given(g) /\ (Lacks(g)' <=> Lacks(g))
        BY <2>1, <3>1 DEF Given, Lacks, ObjectPrototype
      <4>. QED BY <1>2, <2>0, <2>2, <3>1, <4>1 DEF Instance
    <3>2. CASE epoch'[g] = epoch[g] + 1
      <4>1. epoch[g] \in Nat /\ born[q].epoch <= epoch[g]
        BY <1>1, <2>0, <2>2 DEF Instance
      <4>2. born[q].epoch <= epoch'[g] /\ born[q].epoch # epoch'[g]
        BY <2>2, <3>2, <4>1
      <4>. QED BY <1>2, <2>0, <4>2 DEF Instance
    <3>. QED BY <1>4, <2>2, <3>1, <3>2
  <2>4. \A r \in Objects' : Alike(q, r)'
    BY <1>2, <2>1, <2>2 DEF Alike
  <2>. QED BY <2>3, <2>4
<1>. QED BY <1>6, <1>7 DEF ObjectsInv, Instances

(* The operations on the structure of objects. *)
LEMMA StructureInv ==
  ASSUME ObjectsInv, script' = script, Structure
  PROVE  \/ StepSound /\ steps' = steps + 1
         \/ ObjectsInv'
<1>1. TypeInv /\ TypeOK
  BY DEF ObjectsInv, TypeInv
<1>2. ASSUME NEW o \in Objects, ObjectEntries(o)
      PROVE  StepSound /\ steps' = steps + 1
  BY <1>1, <1>2, ReadsSound DEF ObjectEntries, Step
<1>3. ASSUME NEW o \in Objects, NEW s \in Objects, ObjectAssign(o, s)
      PROVE  StepSound /\ steps' = steps + 1
  <2> DEFINE h == [heap EXCEPT ![o].data = Copied(@, s)]
  <2>1. HeapTyped(h) /\ Len(h) = Len(heap) /\ \A p \in 1..Len(heap) : h[p].proto = heap[p].proto
    BY <1>1, AssignedTyped
  <2>2. Writes(h) /\ Answers(<<"assign", o, s>>, o) /\ steps' = steps + 1
    BY <1>3 DEF ObjectAssign, Step
  <2> HIDE DEF h
  <2>. QED BY <1>1, <2>1, <2>2, WritesSound
<1>4. ASSUME \/ \E p \in Objects \cup {Nil} : ObjectCreate(p)
             \/ \E t, h \in Objects : ProxyConstruct(t, h)
             \/ \E s \in Objects : OpObjectSpread(s)
      PROVE  StepSound /\ steps' = steps + 1
  <2>1. StepSound
    BY <1>1, <1>4, CreateSound
  <2>2. Step
    BY <1>4, Zenon DEF ObjectCreate, ProxyConstruct, OpObjectSpread
  <2>. QED BY <2>1, <2>2 DEF Step
<1>5. ASSUME NEW o \in Objects, NEW p \in Objects \cup {Nil}, SetPrototypeOf(o, p)
      PROVE  ObjectsInv'
  BY <1>5, SetPrototypeInv
<1>. QED BY <1>2, <1>3, <1>4, <1>5, Zenon DEF Structure

(* The operations on functions as constructors. *)
LEMMA ConstructionInv ==
  ASSUME ObjectsInv, script' = script, Construction
  PROVE  \/ StepSound /\ steps' = steps + 1
         \/ ObjectsInv'
<1>1. TypeInv
  BY DEF ObjectsInv
<1>2. PICK f \in Constructors :
        \/ FunctionGetProp(f) \/ OpNew(f) \/ ReflectConstruct(f)
        \/ \E v \in Prims \cup Objects : FunctionSetProp(f, "prototype", v) \/ OpInstanceof(v, f)
        \/ \E g \in Functions : FunctionSetProp(f, "hasInstance", g)
  BY Zenon DEF Construction
<1>3. f \in Functions
  BY DispatchAssumption
<1>4. CASE FunctionGetProp(f)
  <2>1. Step
    BY <1>4 DEF FunctionGetProp
  <2>. QED BY <1>1, <1>3, <1>4, <2>1, GetPrototypeSound DEF Step
<1>5. ASSUME NEW op, Constructs(op, f)
      PROVE  StepSound /\ steps' = steps + 1
  <2>1. Step
    BY <1>5, Zenon DEF Constructs
  <2>. QED BY <1>1, <1>3, <1>5, <2>1, ConstructsSound DEF Step
<1>6. CASE OpNew(f) \/ ReflectConstruct(f)
  BY <1>5, <1>6, Zenon DEF OpNew, ReflectConstruct
<1>7. ASSUME NEW v \in Prims \cup Objects, FunctionSetProp(f, "prototype", v)
      PROVE  ObjectsInv'
  BY <1>3, <1>7, FunctionSetInv DEF FNames
<1>8. ASSUME NEW v \in Prims \cup Objects, OpInstanceof(v, f)
      PROVE  StepSound /\ steps' = steps + 1
  <2>1. Step
    BY <1>8, Zenon DEF OpInstanceof
  <2>. QED BY <1>1, <1>3, <1>8, <2>1, InstanceofSound DEF Step
<1>9. ASSUME NEW g \in Functions, FunctionSetProp(f, "hasInstance", g)
      PROVE  ObjectsInv'
  BY <1>3, <1>9, FunctionSetInv DEF FNames
<1>. QED BY <1>2, <1>4, <1>6, <1>7, <1>8, <1>9, Zenon

(* Reads through brackets count as a step. *)
LEMMA GetByValStep ==
  ASSUME NEW o, NEW k, GetByVal(o, k)
  PROVE  Step
BY Zenon DEF GetByVal

(* So does every operation on properties, and on elements. *)
LEMMA OperationsStep ==
  ASSUME Access \/ Elements
  PROVE  steps' = steps + 1
<1>1. ASSUME Access
      PROVE  Step
  <2>1. PICK o \in Objects, n \in PlainNames :
          \/ OpGetProp(o, n) \/ OpDeleteProp(o, n) \/ OpIn(o, n) \/ GetByVal(o, n)
          \/ \E v \in Values : OpSetProp(o, n, v) \/ DefineDataProperty(o, n, v) \/ SetByVal(o, n, v)
          \/ \E f \in Getters : OpDefineGetter(o, n, f)
          \/ \E f \in Setters : OpDefineSetter(o, n, f)
          \/ \E p \in Getters \cup {NoFunction}, q \in Setters \cup {NoFunction} :
               DefineAccessorProperty(o, n, p, q)
    BY <1>1, Zenon DEF Access
  <2>2. OpGetProp(o, n) \/ OpDeleteProp(o, n) \/ OpIn(o, n) \/ GetByVal(o, n) => Step
    BY GetByValStep, Zenon DEF OpGetProp, OpDeleteProp, OpIn
  <2>3. ASSUME NEW v, OpSetProp(o, n, v) \/ DefineDataProperty(o, n, v) \/ SetByVal(o, n, v)
        PROVE  Step
    BY <2>3, Zenon DEF OpSetProp, DefineDataProperty, SetByVal
  <2>4. ASSUME NEW f, OpDefineGetter(o, n, f) \/ OpDefineSetter(o, n, f)
        PROVE  Step
    BY <2>4, Zenon DEF OpDefineGetter, OpDefineSetter
  <2>5. ASSUME NEW p, NEW q, DefineAccessorProperty(o, n, p, q)
        PROVE  Step
    BY <2>5, Zenon DEF DefineAccessorProperty
  <2>. QED BY <2>1, <2>2, <2>3, <2>4, <2>5, Zenon
<1>2. Elements => Step
  BY GetByValStep, Zenon
    DEF Elements, SetElement, TypedArraySet, TypedArraySlice, TypedArrayConstruct, ViewOfBuffer
<1>. QED BY <1>1, <1>2, Zenon DEF Step

(* Literals build typed objects, and nobody has constructed any yet. *)
LEMMA ObjectsInit == Init => ObjectsInv
<1> SUFFICES ASSUME Init PROVE ObjectsInv
  OBVIOUS
<1>1. /\ script \in Scripts /\ heap = script.heap /\ Len(heap) \in 1..MaxObjects /\ HeapTyped(heap)
  BY DispatchAssumption DEF Init
<1>2. Objects = 1..Len(heap)
  <2>1. 1 \in 1..Len(heap)
    BY <1>1, DispatchAssumption
  <2>. QED BY <1>1, <2>1, HeapObject DEF Objects
<1>3. /\ fprops \in [Functions -> [FNames -> Prims \cup Functions \cup Objects \cup {Missing}]]
      /\ \A f \in Functions : fprops[f]["prototype"] \in Prims \cup Objects \cup {Missing}
  BY DEF Init, FNames
<1>4. /\ calls = <<>> /\ calls \in Seq({}) /\ Len(calls) <= MaxCalls
      /\ \A k \in DOMAIN calls : calls[k].fn \in Functions
  BY DispatchAssumption DEF Init
<1>5. /\ born \in [Objects -> Origins \cup {Missing}] /\ \A o \in Objects : born[o] = Missing
      /\ epoch \in [Functions -> Nat] /\ steps \in Nat
  BY DEF Init, Objects
<1>6. TypeInv
  BY <1>1, <1>3, <1>4, <1>5 DEF TypeInv, TypeOK
<1>. QED BY <1>5, <1>6 DEF ObjectsInv, Instances

(* Every step keeps what is known of objects and their instances. *)
LEMMA ObjectsNext == ObjectsInv /\ [Next]_vars => ObjectsInv'
<1> SUFFICES ASSUME ObjectsInv, [Next]_vars PROVE ObjectsInv'
  OBVIOUS
<1>1. TypeInv
  BY DEF ObjectsInv
<1>2. ASSUME StepSound, script' = script, steps' = steps \/ steps' = steps + 1
      PROVE  ObjectsInv'
  <2>1. TypeInv'
    BY <1>1, <1>2, TypesKept DEF StepSound
  <2>. QED BY <1>2, <2>1, InstancesKept DEF StepSound, ObjectsInv
<1>3. CASE Next
  <2>1. /\ script' = script
        /\ \/ Access \/ Structure \/ Construction \/ Elements
           \/ (\E v : FunctionReturns(v)) \/ FunctionThrows
    BY <1>3, Zenon DEF Next
  <2>2. CASE Access
    BY <1>1, <1>2, <2>1, <2>2, AccessSound, OperationsStep
  <2>3. CASE Structure
    BY <1>2, <2>1, <2>3, StructureInv
  <2>4. CASE Construction
    BY <1>2, <2>1, <2>4, ConstructionInv
  <2>5. CASE Elements
    BY <1>1, <1>2, <2>1, <2>5, ElementsSound, OperationsStep
  <2>6. CASE (\E v : FunctionReturns(v)) \/ FunctionThrows
    <3>1. steps' = steps
      BY <2>6, Zenon DEF FunctionReturns, FunctionThrows
    <3>. QED BY <1>1, <1>2, <2>1, <2>6, <3>1, ReturnSound
  <2>. QED BY <2>1, <2>2, <2>3, <2>4, <2>5, <2>6
<1>4. CASE UNCHANGED vars
  BY <1>4 DEF vars, ObjectsInv, TypeInv, TypeOK, Instances, Instance, Alike, Given, Lacks, Objects
<1>. QED BY <1>3, <1>4

(* Instances have the prototype of their function on their walk. *)
LEMMA InstancesAre == ObjectsInv => ObjectsSound
<1> SUFFICES ASSUME ObjectsInv PROVE ObjectsSound
  OBVIOUS
<1>1. TypeInv /\ TypeOK /\ Objects = 1..Len(heap) /\ Len(heap) \in Nat /\ Len(heap) >= 1
  BY Addresses DEF ObjectsInv, TypeInv
<1>2. ASSUME NEW o \in Objects, born[o] # Missing
      PROVE  /\ (/\ born[o].epoch = epoch[born[o].by]
                 /\ fprops[born[o].by]["prototype"] \in Objects \cup {Missing})
                  => JsInstanceof(o, born[o].by)
             /\ \A p \in Objects : born[p] = born[o] => heap[p].proto = heap[o].proto
  <2> DEFINE f == born[o].by
  <2>1. Instance(o) /\ \A p \in Objects : Alike(o, p)
    BY <1>2 DEF ObjectsInv, Instances
  <2>2. ASSUME born[o].epoch = epoch[f], fprops[f]["prototype"] \in Objects \cup {Missing}
        PROVE  JsInstanceof(o, f)
    <3>1. fprops[f]["prototype"] \in Objects /\ heap[o].proto = fprops[f]["prototype"]
      BY <2>1, <2>2 DEF Instance, Lacks, Given
    <3>2. 1 \in 1..Len(heap) /\ o # Nil
      BY <1>1 DEF Nil
    <3>3. Walk(o)[1] = heap[o].proto
      <4>1. /\ Walk(o)[0] = o
            /\ \A k \in 1..Len(heap) :
                 Walk(o)[k] = IF Walk(o)[k - 1] = Nil THEN Nil ELSE heap[Walk(o)[k - 1]].proto
        BY <1>1, WalkIs
      <4>2. Walk(o)[1] = IF Walk(o)[0] = Nil THEN Nil ELSE heap[Walk(o)[0]].proto
        BY <3>2, <4>1
      <4>. QED BY <3>2, <4>1, <4>2
    <3>. QED BY <3>1, <3>2, <3>3 DEF JsInstanceof
  <2>. QED BY <2>1, <2>2 DEF Alike
<1>. QED BY <1>1, <1>2 DEF ObjectsSound, InstancesRecognised

(* Objects keep their types whatever scripts do, views lie over buffers, and
   while nobody interferes the objects that one function constructs share a
   prototype and are instances of it: for all programs of the operations. *)
THEOREM ObjectsHold == Spec => []ObjectsSound
BY ObjectsInit, ObjectsNext, InstancesAre, PTL DEF Spec

-----------------------------------------------------------------------------
(* The refinement: objects as OrdinaryObjects sees them. *)

(* The property n of the object with the record r. *)
RecordProperty(r, n) ==
  IF n \in DOMAIN r.accessors
    THEN [kind |-> "accessor", get |-> r.accessors[n].Get, set |-> r.accessors[n].Set]
  ELSE IF n \in DOMAIN r.data THEN [kind |-> "data", val |-> r.data[n]]
  ELSE Missing

(* The accessors of an object are pairs, and not what stands for none. *)
LEMMA RecordAccessors ==
  ASSUME NEW r, NEW k, Fields(r, k), NEW n, n \in DOMAIN r.accessors
  PROVE  r.accessors[n] \in Pairs /\ r.accessors[n] # Missing
BY DispatchAssumption DEF Fields

(* PropertyOf looks at the record of its object. *)
LEMMA PropertyIs ==
  ASSUME TypeOK, NEW o \in Objects, NEW n
  PROVE  /\ PropertyOf(o, n) = RecordProperty(heap[o], n)
         /\ Accessor(o, n) # Missing <=> n \in DOMAIN heap[o].accessors
BY Addresses, RecordAccessors, SMTT(20) DEF PropertyOf, RecordProperty, Accessor, Owns

(* So it does after a step. *)
LEMMA PropertyBecomes ==
  ASSUME NEW o, NEW k, Fields(heap'[o], k), NEW n
  PROVE  PropertyOf(o, n)' = RecordProperty(heap'[o], n)
BY RecordAccessors, SMTT(20) DEF PropertyOf, RecordProperty, Accessor, Owns

(* What the kinds of properties are to OrdinaryObjects. *)
LEMMA PropertyKinds ==
  ASSUME TypeOK, NEW o \in Objects, NEW n
  PROVE  /\ Accessor(o, n) # Missing =>
              /\ PropertyOf(o, n) # Missing /\ ~ O!IsData(PropertyOf(o, n))
              /\ PropertyOf(o, n).get = Accessor(o, n).Get /\ PropertyOf(o, n).set = Accessor(o, n).Set
         /\ Accessor(o, n) = Missing /\ Owns(o, n) =>
              /\ PropertyOf(o, n) # Missing /\ O!IsData(PropertyOf(o, n))
              /\ PropertyOf(o, n).val = heap[o].data[n]
         /\ Accessor(o, n) = Missing /\ ~ Owns(o, n) =>
              PropertyOf(o, n) = Missing /\ ~ O!IsData(PropertyOf(o, n))
<1>1. Fields(heap[o], Len(heap))
  BY Addresses
<1>2. ASSUME Accessor(o, n) # Missing
      PROVE  /\ PropertyOf(o, n) # Missing /\ ~ O!IsData(PropertyOf(o, n))
             /\ PropertyOf(o, n).get = Accessor(o, n).Get /\ PropertyOf(o, n).set = Accessor(o, n).Set
  <2> DEFINE x == [kind |-> "accessor", get |-> Accessor(o, n).Get, set |-> Accessor(o, n).Set]
  <2>1. PropertyOf(o, n) = x
    BY <1>2 DEF PropertyOf
  <2>2. x \in [kind : {"accessor"}, get : Functions \cup {NoFunction}, set : Functions \cup {NoFunction}]
    <3>1. n \in DOMAIN heap[o].accessors /\ Accessor(o, n) = heap[o].accessors[n]
      BY <1>2 DEF Accessor
    <3>2. Accessor(o, n) \in Pairs
      BY <1>1, <3>1, RecordAccessors
    <3>. QED BY <3>2 DEF Pairs
  <2>3. x # Missing
    BY <2>2, DispatchAssumption
  <2>4. x.kind # "data"
    OBVIOUS
  <2>. QED BY <2>1, <2>3, <2>4 DEF O!IsData
<1>3. ASSUME Accessor(o, n) = Missing, Owns(o, n)
      PROVE  /\ PropertyOf(o, n) # Missing /\ O!IsData(PropertyOf(o, n))
             /\ PropertyOf(o, n).val = heap[o].data[n]
  <2> DEFINE x == [kind |-> "data", val |-> heap[o].data[n]]
  <2>1. PropertyOf(o, n) = x
    BY <1>3 DEF PropertyOf
  <2>2. x \in [kind : {"data"}, val : Held]
    <3>1. heap[o].data[n] \in Held
      BY <1>1, <1>3 DEF Fields, Owns
    <3>. QED BY <3>1
  <2>3. x # Missing
    BY <2>2, DispatchAssumption
  <2>. QED BY <2>1, <2>3 DEF O!IsData
<1>4. ASSUME Accessor(o, n) = Missing, ~ Owns(o, n)
      PROVE  PropertyOf(o, n) = Missing /\ ~ O!IsData(PropertyOf(o, n))
  BY <1>4 DEF PropertyOf, O!IsData
<1>. QED BY <1>2, <1>3, <1>4

(* Prototypes and proxies stay. *)
SameStructure ==
  /\ Objects' = Objects
  /\ \A o \in Objects : heap'[o].proto = heap[o].proto /\ heap'[o].proxy = heap[o].proxy

(* Objects that keep their records keep their properties. *)
LEMMA KeepsIs ==
  ASSUME SameStructure, \A o \in Objects, n \in Names : PropertyOf(o, n)' = PropertyOf(o, n)
  PROVE  O!Keeps
BY DEF O!Keeps, SameStructure, Protos

(* All properties stay when the heap does. *)
LEMMA SameHeap ==
  ASSUME heap' = heap
  PROVE  O!Keeps
<1>1. SameStructure
  BY DEF SameStructure, Objects
<1>2. \A o, n : PropertyOf(o, n)' = PropertyOf(o, n)
  BY DEF PropertyOf, Accessor, Owns
<1>. QED BY <1>1, <1>2, KeepsIs

(* A step of which one property changes is Becomes of OrdinaryObjects. *)
LEMMA BecomesIs ==
  ASSUME SameStructure, NEW o \in Objects, NEW n \in Names, NEW x,
         \A p \in Objects, m \in Names :
           PropertyOf(p, m)' = IF p = o /\ m = n THEN x ELSE PropertyOf(p, m)
  PROVE  O!Becomes(o, n, x)
BY DEF O!Becomes, SameStructure, Protos

(* props[o][n], of the objects and names there are. *)
LEMMA PropertyAt ==
  ASSUME NEW o \in Objects, NEW n \in Names
  PROVE  /\ O!Has(o, n) <=> PropertyOf(o, n) # Missing
         /\ O!TargetOf(o) = Behind(o)
BY DEF O!Has, O!TargetOf, Behind

-----------------------------------------------------------------------------
(* Lookups. *)

(* Who has the name n: as a data property, as an accessor, as either. *)
Owners(n) == {p \in DOMAIN heap : Owns(p, n)}
Accessing(n) == {p \in DOMAIN heap : Accessor(p, n) # Missing}
Holders(n) == {p \in DOMAIN heap : Owns(p, n) \/ Accessor(p, n) # Missing}

(* FirstOf only depends on what of the set is on the walk. *)
LEMMA FirstSame ==
  ASSUME TypeOK, NEW o \in Objects, NEW S, NEW T,
         \A k \in 0..Len(heap) : Walk(o)[k] # Nil => (Walk(o)[k] \in S <=> Walk(o)[k] \in T)
  PROVE  FirstOf(o, S) = FirstOf(o, T)
<1> DEFINE w == Walk(o)
           hits(X) == {k \in DOMAIN w : w[k] # Nil /\ w[k] \in X}
           first(H) == IF H = {} THEN Nil ELSE w[CHOOSE k \in H : \A j \in H : k <= j]
<1>1. DOMAIN w = 0..Len(heap)
  BY WalkIs
<1>2. FirstOf(o, S) = first(hits(S)) /\ FirstOf(o, T) = first(hits(T))
  BY DEF FirstOf
<1>3. hits(S) = hits(T)
  BY <1>1
<1> HIDE DEF hits, first
<1>. QED BY <1>2, <1>3

(* The object itself is the first, if it is in the set. *)
LEMMA FirstHere ==
  ASSUME TypeOK, NEW o \in Objects, NEW S, o \in S
  PROVE  FirstOf(o, S) = o
<1>1. Walk(o)[0] = o /\ Len(heap) \in Nat /\ o # Nil /\ 0 \in 0..Len(heap)
  BY WalkIs, Addresses DEF Nil
<1>2. ~ NoneOf(o, S)
  BY <1>1 DEF NoneOf
<1>3. PICK k : FirstAt(o, S, FirstOf(o, S), k)
  BY <1>2, FirstOfIs
<1>4. k \in Nat /\ k <= 0 /\ FirstOf(o, S) = Walk(o)[k]
  BY <1>1, <1>3 DEF FirstAt
<1>5. k = 0
  BY <1>4
<1>. QED BY <1>1, <1>4, <1>5

(* Of two sets, if the first of each on the walk is in the other, they are one. *)
LEMMA FirstOfBoth ==
  ASSUME TypeOK, NEW o \in Objects, NEW S, NEW T,
         FirstOf(o, S) # Nil, FirstOf(o, T) # Nil, FirstOf(o, S) \in T, FirstOf(o, T) \in S
  PROVE  FirstOf(o, S) = FirstOf(o, T)
<1>1. PICK k : FirstAt(o, S, FirstOf(o, S), k)
  BY FirstOfIs
<1>2. PICK j : FirstAt(o, T, FirstOf(o, T), j)
  BY FirstOfIs
<1>3. /\ k \in 0..Len(heap) /\ FirstOf(o, S) = Walk(o)[k]
      /\ j \in 0..Len(heap) /\ FirstOf(o, T) = Walk(o)[j]
  BY <1>1, <1>2 DEF FirstAt
<1>4. k <= j /\ j <= k
  BY <1>1, <1>2, <1>3 DEF FirstAt
<1>5. k = j
  <2>1. k \in Int /\ j \in Int
    BY <1>3, Addresses
  <2>. QED BY <1>4, <2>1
<1>. QED BY <1>3, <1>5

(* Whoever is found is an object, in the set. *)
LEMMA FirstIn ==
  ASSUME TypeOK, NEW o \in Objects, NEW S, FirstOf(o, S) # Nil
  PROVE  FirstOf(o, S) \in S /\ FirstOf(o, S) \in Objects
BY FirstOfIs DEF FirstAt

(* More is found in a larger set. *)
LEMMA FirstInMore ==
  ASSUME TypeOK, NEW o \in Objects, NEW S, NEW T, S \subseteq T, FirstOf(o, T) = Nil
  PROVE  FirstOf(o, S) = Nil
<1>1. NoneOf(o, T)
  BY FirstOfIs, FirstIn DEF FirstAt
<1>2. NoneOf(o, S)
  BY <1>1 DEF NoneOf
<1>. QED BY <1>2, FirstOfIs, Addresses DEF NoneOf, FirstAt, Nil

(* The walk of an object on the walk goes on as that does. *)
LEMMA WalkOn ==
  ASSUME TypeOK, NEW o \in Objects, NEW k \in 0..Len(heap), NEW p \in Objects, p = Walk(o)[k]
  PROVE  \A j \in 0..(Len(heap) - k) : Walk(p)[j] = Walk(o)[k + j]
<1> DEFINE n == Len(heap)
           m == n - k
           w == Walk(o)
           v == Walk(p)
           P == {j \in 0..m : v[j] = w[k + j]}
<1>1. n \in Nat /\ m \in Nat /\ k \in 0..n
  BY Addresses
<1>2. /\ v[0] = p /\ \A j \in 1..n : v[j] = IF v[j - 1] = Nil THEN Nil ELSE heap[v[j - 1]].proto
      /\ \A j \in 1..n : w[j] = IF w[j - 1] = Nil THEN Nil ELSE heap[w[j - 1]].proto
  BY WalkIs
<1>3. p = w[k]
  OBVIOUS
<1> HIDE DEF w, v
<1>4. 0 \in P
  BY <1>1, <1>2, <1>3
<1>5. ASSUME NEW j \in 1..m, j - 1 \in P
      PROVE  j \in P
  <2>1. j \in 1..n /\ k + j \in 1..n /\ k + j - 1 = k + (j - 1) /\ j \in 0..m
    BY <1>1
  <2>2. v[j - 1] = w[k + (j - 1)]
    BY <1>5
  <2> HIDE DEF m, n
  <2>3. v[j] = w[k + j]
    BY <1>2, <2>1, <2>2
  <2>. QED BY <2>1, <2>3
<1>6. \A j \in 0..m : j \in P
  <2> HIDE DEF P, m
  <2>. QED BY <1>1, <1>4, <1>5, Rounds
<1>. QED BY <1>6 DEF w, v

(* OrdinaryObjects walks the same chain. *)
LEMMA NearestIs ==
  ASSUME TypeOK, NEW o \in Objects, NEW n \in Names
  PROVE  O!Nearest(o, n) =
           IF FirstOf(o, Holders(n)) = Nil THEN Missing ELSE PropertyOf(FirstOf(o, Holders(n)), n)
<1> DEFINE w == Walk(o)
           hits == {k \in DOMAIN w : w[k] # Nil /\ w[k] \in Holders(n)}
           holding == {k \in DOMAIN w : w[k] # Nil /\ O!Has(w[k], n)}
           c == CHOOSE k \in hits : \A j \in hits : k <= j
           d == CHOOSE k \in holding : \A j \in holding : k <= j
           props == [p \in Objects |-> [m \in Names |-> PropertyOf(p, m)]]
<1>1. DOMAIN w = 0..Len(heap) /\ \A k \in 0..Len(heap) : w[k] \in Objects \cup {Nil}
  BY WalkIs
<1>2. \A p \in Objects : p \in Holders(n) <=> PropertyOf(p, n) # Missing
  BY PropertyKinds DEF Holders, Objects
<1>3. hits = holding
  BY <1>1, <1>2, PropertyAt
<1>4. FirstOf(o, Holders(n)) = IF hits = {} THEN Nil ELSE w[c]
  BY DEF FirstOf
<1>5. O!Nearest(o, n) = IF holding = {} THEN Missing ELSE props[w[d]][n]
  <2>1. O!Chain(o) = w
    BY DEF O!Chain, Walk
  <2>. QED BY <2>1 DEF O!Nearest
<1>6. c = d
  BY <1>3
<1>7. FirstOf(o, Holders(n)) # Nil => FirstOf(o, Holders(n)) \in Objects
  BY FirstIn
<1>8. CASE hits = {}
  <2> HIDE DEF hits, holding
  <2>. QED BY <1>3, <1>4, <1>5, <1>8
<1>9. CASE hits # {}
  <2>1. FirstOf(o, Holders(n)) = w[c]
    BY <1>4, <1>9
  <2>2. O!Nearest(o, n) = props[w[d]][n]
    BY <1>3, <1>5, <1>9
  <2>3. FirstOf(o, Holders(n)) # Nil
    <3>1. NoneOf(o, Holders(n)) => hits = {}
      BY <1>1 DEF NoneOf
    <3>. QED BY <1>9, <3>1, FirstOfIs
  <2> HIDE DEF c, d, w
  <2>. QED BY <1>6, <1>7, <2>1, <2>2, <2>3
<1>. QED BY <1>8, <1>9

(* What OpGetProp and GetByVal find among data properties. *)
LEMMA LookedUpIs ==
  ASSUME TypeOK, NEW o \in Objects, NEW n
  PROVE  LookedUp(o, n) =
           IF FirstOf(o, Owners(n)) = Nil THEN Undefined ELSE heap[FirstOf(o, Owners(n))].data[n]
<1>1. CASE Owns(o, n)
  <2>1. o \in Owners(n)
    BY <1>1 DEF Owners, Objects
  <2>2. FirstOf(o, Owners(n)) = o /\ o # Nil
    BY <2>1, FirstHere, Addresses DEF Nil
  <2>. QED BY <1>1, <2>2 DEF LookedUp
<1>2. CASE ~ Owns(o, n)
  <2>1. {p \in DOMAIN heap \ {o} : Owns(p, n)} = Owners(n)
    BY <1>2 DEF Owners
  <2>. QED BY <1>2, <2>1 DEF LookedUp, GetInherited
<1>. QED BY <1>1, <1>2

(* An accessor that nothing masks is the nearest property. *)
LEMMA NearestAccessor ==
  ASSUME TypeOK, NEW o \in Objects, NEW n \in Names, LookupAccessor(o, n) # Missing,
         Accessor(o, n) # Missing \/ ~ Masked(o, n)
  PROVE  /\ O!Nearest(o, n) # Missing /\ ~ O!IsData(O!Nearest(o, n))
         /\ O!Nearest(o, n).get = LookupAccessor(o, n).Get
         /\ O!Nearest(o, n).set = LookupAccessor(o, n).Set
<1> DEFINE a == FirstOf(o, Accessing(n))
           h == FirstOf(o, Holders(n))
<1>1. LookupAccessor(o, n) = IF a = Nil THEN Missing ELSE Accessor(a, n)
  BY DEF LookupAccessor, Accessing
<1>2. a # Nil /\ a \in Accessing(n) /\ a \in Objects
  BY <1>1, FirstIn
<1>3. Accessing(n) \subseteq Holders(n)
  BY DEF Accessing, Holders
<1>4. h # Nil /\ h \in Holders(n) /\ h \in Objects
  BY <1>2, <1>3, FirstInMore, FirstIn
<1>5. h \in Accessing(n)
  <2>1. CASE Accessor(o, n) # Missing
    <3>1. o \in Accessing(n)
      BY <2>1 DEF Accessing, Objects
    <3>. QED BY <1>3, <3>1, FirstHere
  <2>2. CASE ~ Masked(o, n)
    <3>1. ASSUME Owns(h, n)
          PROVE  FALSE
      <4>1. Masked(o, n) <=> h # Nil /\ Owns(h, n) /\ LookupAccessor(h, n) # Missing
        BY Zenon DEF Masked, Holders
      <4>2. LookupAccessor(h, n) = Missing
        BY <1>4, <2>2, <3>1, <4>1
      <4>3. LookupAccessor(h, n) =
              IF FirstOf(h, Accessing(n)) = Nil THEN Missing ELSE Accessor(FirstOf(h, Accessing(n)), n)
        BY DEF LookupAccessor, Accessing
      <4>4. NoneOf(h, Accessing(n))
        <5>1. FirstOf(h, Accessing(n)) = Nil
          BY <1>4, <4>2, <4>3, FirstIn DEF Accessing
        <5>. QED BY <1>4, <5>1, FirstOfIs
      <4>5. PICK i : FirstAt(o, Holders(n), h, i)
        BY <1>4, FirstOfIs
      <4>6. PICK k : FirstAt(o, Accessing(n), a, k)
        BY <1>2, FirstOfIs
      <4>7. /\ i \in 0..Len(heap) /\ h = Walk(o)[i] /\ k \in 0..Len(heap) /\ a = Walk(o)[k]
            /\ i <= k /\ Len(heap) \in Nat
        BY <1>2, <1>3, <4>5, <4>6, Addresses DEF FirstAt
      <4> HIDE DEF a, h
      <4>8. k - i \in 0..(Len(heap) - i) /\ k - i \in 0..Len(heap) /\ i + (k - i) = k
        BY <4>7
      <4>9. Walk(h)[k - i] = a
        BY <1>4, <4>7, <4>8, WalkOn
      <4>. QED BY <1>2, <4>4, <4>8, <4>9 DEF NoneOf
    <3>. QED BY <1>4, <3>1 DEF Holders, Accessing
  <2>. QED BY <2>1, <2>2
<1> HIDE DEF a, h
<1>6. h = a
  <2>1. a \in Holders(n)
    BY <1>2, <1>3
  <2>. QED BY <1>2, <1>4, <1>5, <2>1, FirstOfBoth DEF a, h
<1>7. O!Nearest(o, n) = PropertyOf(a, n)
  BY <1>4, <1>6, NearestIs DEF h
<1>8. Accessor(a, n) # Missing
  BY <1>2 DEF Accessing
<1>. QED BY <1>1, <1>2, <1>7, <1>8, PropertyKinds

(* No object has both a data property and an accessor of one name. *)
Apart == \A o \in Objects, n \in Names : ~ (Owns(o, n) /\ Accessor(o, n) # Missing)

(* Where no accessor is found, the nearest property is data, or nothing. *)
LEMMA NearestData ==
  ASSUME TypeOK, NEW o \in Objects, NEW n \in Names, LookupAccessor(o, n) = Missing
  PROVE  \/ O!Nearest(o, n) = Missing /\ LookedUp(o, n) = Undefined
         \/ /\ O!Nearest(o, n) # Missing /\ O!IsData(O!Nearest(o, n))
            /\ O!Nearest(o, n).val = LookedUp(o, n)
<1> DEFINE a == FirstOf(o, Accessing(n))
           h == FirstOf(o, Holders(n))
<1>1. LookupAccessor(o, n) = IF a = Nil THEN Missing ELSE Accessor(a, n)
  BY DEF LookupAccessor, Accessing
<1>2. NoneOf(o, Accessing(n))
  <2>1. a = Nil
    BY <1>1, FirstIn DEF Accessing
  <2>. QED BY <2>1, FirstOfIs
<1>3. \A k \in 0..Len(heap) : Walk(o)[k] # Nil =>
        /\ Walk(o)[k] \in Holders(n) <=> Walk(o)[k] \in Owners(n)
        /\ Accessor(Walk(o)[k], n) = Missing
  <2>1. \A k \in 0..Len(heap) : Walk(o)[k] \in Objects \cup {Nil}
    BY WalkIs
  <2>. QED BY <1>2, <2>1 DEF NoneOf, Holders, Owners, Accessing, Objects
<1>4. h = FirstOf(o, Owners(n))
  BY <1>3, FirstSame
<1> HIDE DEF a, h
<1>5. CASE h = Nil
  BY <1>4, <1>5, NearestIs, LookedUpIs DEF h
<1>6. CASE h # Nil
  <2>1. h \in Owners(n) /\ h \in Objects
    BY <1>4, <1>6, FirstIn
  <2>2. Accessor(h, n) = Missing
    <3>1. PICK k : FirstAt(o, Holders(n), h, k)
      BY <1>6, FirstOfIs DEF h
    <3>. QED BY <1>3, <1>6, <3>1 DEF FirstAt
  <2>3. O!Nearest(o, n) = PropertyOf(h, n) /\ LookedUp(o, n) = heap[h].data[n]
    BY <1>4, <1>6, NearestIs, LookedUpIs DEF h
  <2>. QED BY <2>1, <2>2, <2>3, PropertyKinds DEF Owners
<1>. QED BY <1>5, <1>6

(* An own data property is the nearest. *)
LEMMA NearestOwn ==
  ASSUME TypeOK, NEW o \in Objects, NEW n \in Names, Owns(o, n), Accessor(o, n) = Missing
  PROVE  /\ O!Nearest(o, n) # Missing /\ O!IsData(O!Nearest(o, n))
         /\ O!Nearest(o, n).val = heap[o].data[n]
<1>1. o \in Holders(n) /\ o # Nil
  BY Addresses DEF Holders, Objects, Nil
<1>2. O!Nearest(o, n) = PropertyOf(o, n)
  BY <1>1, FirstHere, NearestIs
<1>. QED BY <1>2, PropertyKinds

(* What brackets find is the nearest property, where that is data or nothing. *)
LEMMA NearestInBrackets ==
  ASSUME TypeOK, NEW o \in Objects, NEW n \in Names
  PROVE  /\ O!Nearest(o, n) = Missing => LookedUp(o, n) = Undefined
         /\ O!IsData(O!Nearest(o, n)) => LookedUp(o, n) = O!Nearest(o, n).val
<1> DEFINE h == FirstOf(o, Holders(n))
           d == FirstOf(o, Owners(n))
<1>1. O!Nearest(o, n) = IF h = Nil THEN Missing ELSE PropertyOf(h, n)
  BY NearestIs
<1>2. LookedUp(o, n) = IF d = Nil THEN Undefined ELSE heap[d].data[n]
  BY LookedUpIs
<1>3. Owners(n) \subseteq Holders(n)
  BY DEF Owners, Holders
<1>4. CASE h = Nil
  <2>1. d = Nil
    BY <1>3, <1>4, FirstInMore
  <2>2. ~ O!IsData(Missing)
    BY DEF O!IsData
  <2> HIDE DEF h, d
  <2>. QED BY <1>1, <1>2, <1>4, <2>1, <2>2
<1>5. CASE h # Nil
  <2>1. h \in Objects /\ h \in Holders(n)
    BY <1>5, FirstIn
  <2>2. PropertyOf(h, n) # Missing
    BY <2>1, PropertyKinds DEF Holders
  <2>3. ASSUME O!IsData(PropertyOf(h, n))
        PROVE  LookedUp(o, n) = PropertyOf(h, n).val
    <3>1. Owns(h, n) /\ Accessor(h, n) = Missing
      BY <2>1, <2>3, PropertyKinds
    <3>2. h \in Owners(n)
      BY <2>1, <3>1 DEF Owners, Objects
    <3>3. d # Nil
      <4>1. ~ NoneOf(o, Owners(n))
        <5>1. PICK k : FirstAt(o, Holders(n), h, k)
          BY <1>5, FirstOfIs
        <5>. QED BY <1>5, <3>2, <5>1 DEF NoneOf, FirstAt
      <4>. QED BY <4>1, FirstOfIs
    <3>4. d = h
      BY <1>3, <1>5, <3>2, <3>3, FirstIn, FirstOfBoth
    <3>. QED BY <1>2, <2>1, <3>1, <3>3, <3>4, PropertyKinds
  <2>. QED BY <1>1, <1>5, <2>2, <2>3
<1>. QED BY <1>4, <1>5

-----------------------------------------------------------------------------
(* Reads and writes through dots are those of OrdinaryObjects. *)

(* What holds where a step conforms. *)
LEMMA ConformingIs ==
  ASSUME NEW of, Conforming(of)
  PROVE  Apart /\ \A o \in Objects : ~ Endless(o) /\ heap[Behind(o)].proxy = NoProxy
BY DEF Conforming, Apart

(* What Conforming says of a read. *)
LEMMA ConformingGet ==
  ASSUME NEW o, NEW n, Conforming(<<"get", o, n>>)
  PROVE  Owns(Behind(o), n) \/ ~ Masked(Behind(o), n)
<1> DEFINE of == <<"get", o, n>>
<1>1. of[1] = "get" /\ of[2] = o /\ of[3] = n
  OBVIOUS
<1>2. Conforming(of)
  OBVIOUS
<1> HIDE DEF of
<1>. QED BY <1>1, <1>2 DEF Conforming

(* What it says of a write. *)
LEMMA ConformingSet ==
  ASSUME NEW o, NEW n, NEW v, Conforming(<<"set", o, n, v>>)
  PROVE  ~ Masked(Behind(o), n)
<1> DEFINE of == <<"set", o, n, v>>
<1>1. of[1] = "set" /\ of[2] = o /\ of[3] = n
  OBVIOUS
<1>2. Conforming(of)
  OBVIOUS
<1> HIDE DEF of
<1>. QED BY <1>1, <1>2 DEF Conforming

(* What it says of a list of entries. *)
LEMMA ConformingEntries ==
  ASSUME NEW o, Conforming(<<"entries", o>>)
  PROVE  DOMAIN heap[o].data \subseteq Names
<1> DEFINE of == <<"entries", o>>
<1>1. of[1] = "entries" /\ of[2] = o
  OBVIOUS
<1>2. Conforming(of)
  OBVIOUS
<1> HIDE DEF of
<1>. QED BY <1>1, <1>2 DEF Conforming

(* Answers are what OrdinaryObjects takes them for. *)
LEMMA AnswersIs ==
  ASSUME NEW of, NEW v, Answers(of, v)
  PROVE  O!Answers(of, v) /\ answer'.of = of
BY DEF Answers, O!Answers, O!Asked

(* So are calls. *)
LEMMA CallIs ==
  ASSUME NEW of, NEW fn, NEW this, NEW args, Call(of, fn, this, args)
  PROVE  O!Calls(of, fn, this, args) /\ answer'.of = of
BY DEF Call, O!Calls, O!Asked

(* Reads change nothing that OrdinaryObjects sees. *)
LEMMA ReadsIs ==
  ASSUME Reads
  PROVE  O!Keeps
BY SameHeap DEF Reads

(* Behind a proxy is its target, an object, and traps are looked up as data. *)
LEMMA TrapIs ==
  ASSUME TypeOK, Apart, NEW o \in Objects, NEW name \in {get, set}
  PROVE  O!Trap(o, name) = Trap(o, name)
<1> DEFINE x == heap[o].proxy
           props == [p \in Objects |-> [m \in Names |-> PropertyOf(p, m)]]
<1>1. O!Trap(o, name) =
        IF x = NoProxy THEN NoFunction
        ELSE IF O!IsData(props[x.handler][name]) /\ props[x.handler][name].val \in Functions
               THEN props[x.handler][name].val ELSE NoFunction
  BY DEF O!Trap
<1>2. name \in Names
  BY DEF Names
<1>3. CASE x = NoProxy
  <2> HIDE DEF props, x
  <2>1. O!Trap(o, name) = NoFunction
    BY <1>1, <1>3
  <2>. QED BY <1>3, <2>1 DEF Trap, x
<1>4. CASE x # NoProxy
  <2>1. x.handler \in Objects
    BY <1>4, Addresses DEF Fields
  <2>2. props[x.handler][name] = PropertyOf(x.handler, name)
    BY <1>2, <2>1
  <2>3. Owns(x.handler, name) => Accessor(x.handler, name) = Missing
    BY <1>2, <2>1 DEF Apart
  <2> HIDE DEF props
  <2>4. O!Trap(o, name) =
          IF O!IsData(PropertyOf(x.handler, name)) /\ PropertyOf(x.handler, name).val \in Functions
            THEN PropertyOf(x.handler, name).val ELSE NoFunction
    BY <1>1, <1>4, <2>2
  <2>5. Trap(o, name) =
          IF Owns(x.handler, name) /\ heap[x.handler].data[name] \in Functions
            THEN heap[x.handler].data[name] ELSE NoFunction
    BY <1>4 DEF Trap
  <2> HIDE DEF x
  <2>. QED BY <2>1, <2>3, <2>4, <2>5, PropertyKinds
<1>. QED BY <1>3, <1>4

(* OpGetProp, behind the proxy. *)
LEMMA ResolveIs ==
  ASSUME TypeOK, Apart, NEW o \in Objects, ~ Endless(o), NEW n \in Names, Owns(o, n) \/ ~ Masked(o, n),
         NEW of, Resolve(of, o, n)
  PROVE  LET p == O!Nearest(o, n)
         IN \/ p = Missing /\ O!Answers(of, Undefined)
            \/ O!IsData(p) /\ O!Answers(of, p.val)
            \/ /\ p # Missing /\ ~ O!IsData(p)
               /\ IF p.get = NoFunction THEN O!Answers(of, Undefined) ELSE O!Calls(of, p.get, o, <<>>)
<1> DEFINE acc == IF Accessor(o, n) # Missing THEN Accessor(o, n) ELSE LookupAccessor(o, n)
           p == O!Nearest(o, n)
<1>1. CASE Accessor(o, n) = Missing /\ Owns(o, n)
  <2>1. Answers(of, heap[o].data[n])
    BY <1>1, Zenon DEF Resolve
  <2>2. O!IsData(p) /\ p.val = heap[o].data[n]
    BY <1>1, NearestOwn
  <2>. QED BY <2>1, <2>2, AnswersIs
<1>2. CASE ~ (Accessor(o, n) = Missing /\ Owns(o, n)) /\ acc # Missing
  <2>1. IF acc.Get = NoFunction THEN Answers(of, Undefined) ELSE Call(of, acc.Get, o, <<>>)
    BY <1>2, Zenon DEF Resolve
  <2>2. acc = LookupAccessor(o, n)
    <3>1. CASE Accessor(o, n) # Missing
      <4>1. o \in Accessing(n) /\ o # Nil
        BY <3>1, Addresses DEF Accessing, Objects, Nil
      <4>2. FirstOf(o, Accessing(n)) = o
        BY <4>1, FirstHere
      <4>. QED BY <3>1, <4>1, <4>2 DEF LookupAccessor, Accessing
    <3>. QED BY <3>1
  <2>3. Accessor(o, n) # Missing \/ ~ Masked(o, n)
    BY <1>2 DEF Apart
  <2> HIDE DEF acc
  <2>4. p # Missing /\ ~ O!IsData(p) /\ p.get = acc.Get
    BY <1>2, <2>2, <2>3, NearestAccessor
  <2> HIDE DEF p
  <2>. QED BY <2>1, <2>4, AnswersIs, CallIs DEF p
<1>3. CASE ~ (Accessor(o, n) = Missing /\ Owns(o, n)) /\ acc = Missing
  <2>1. Answers(of, GetInherited(o, n))
    BY <1>3, Zenon DEF Resolve
  <2>2. LookupAccessor(o, n) = Missing /\ LookedUp(o, n) = GetInherited(o, n)
    BY <1>3 DEF LookedUp
  <2> HIDE DEF acc
  <2>3. \/ p = Missing /\ GetInherited(o, n) = Undefined
        \/ O!IsData(p) /\ p.val = GetInherited(o, n)
    BY <2>2, NearestData
  <2> HIDE DEF p
  <2>. QED BY <2>1, <2>3, AnswersIs DEF p
<1>. QED BY <1>1, <1>2, <1>3

(* A read through dots is a Get of OrdinaryObjects. *)
LEMMA GetIs ==
  ASSUME TypeInv, NEW o \in Objects, NEW n \in Names, OpGetProp(o, n), Conforming(answer'.of)
  PROVE  O!Get(o, n)
<1> DEFINE of == <<"get", o, n>>
           obj == Behind(o)
           t == Trap(o, get)
<1>1. TypeOK /\ obj \in Objects /\ O!Keeps
  BY BehindTyped, ReadsIs DEF TypeInv, OpGetProp
<1>2. IF t # NoFunction THEN Call(of, t, heap[o].proxy.handler, <<obj, n, o>>) ELSE Resolve(of, obj, n)
  BY DEF OpGetProp
<1>3. answer'.of = of
  <2> HIDE DEF of, obj, t
  <2>1. \/ \E fn, this, args : Call(of, fn, this, args)
        \/ \E v : Answers(of, v)
    BY <1>2, Zenon DEF Resolve, Hangs
  <2>. QED BY <2>1, AnswersIs, CallIs
<1>4. Conforming(of) /\ Apart /\ ~ Endless(obj) /\ (Owns(obj, n) \/ ~ Masked(obj, n))
  <2>1. Conforming(of)
    BY <1>3
  <2>. QED BY <1>1, <2>1, ConformingIs, ConformingGet
<1>5. O!Trap(o, get) = t /\ O!TargetOf(o) = obj
  BY <1>1, <1>4, TrapIs, PropertyAt DEF Names
<1>6. O!Asked(of)
  BY <1>3 DEF O!Asked
<1>7. CASE t # NoFunction
  <2>1. O!Calls(of, t, heap[o].proxy.handler, <<obj, n, o>>)
    BY <1>2, <1>7, CallIs
  <2>2. obj = heap[o].proxy.target
    BY <1>7 DEF Trap, Behind
  <2>3. O!Calls(of, t, heap[o].proxy.handler, <<heap[o].proxy.target, n, o>>)
    BY <2>1, <2>2
  <2> HIDE DEF t, obj
  <2>. QED BY <1>1, <1>5, <1>6, <1>7, <2>3 DEF O!Get
<1>8. CASE t = NoFunction
  <2>1. Resolve(of, obj, n)
    BY <1>2, <1>8
  <2> HIDE DEF t, obj, of
  <2> DEFINE p == O!Nearest(obj, n)
  <2>2. \/ p = Missing /\ O!Answers(of, Undefined)
        \/ O!IsData(p) /\ O!Answers(of, p.val)
        \/ /\ p # Missing /\ ~ O!IsData(p)
           /\ IF p.get = NoFunction THEN O!Answers(of, Undefined) ELSE O!Calls(of, p.get, obj, <<>>)
    BY <1>1, <1>4, <2>1, ResolveIs
  <2> HIDE DEF p
  <2>. QED BY <1>1, <1>5, <1>6, <1>8, <2>2 DEF O!Get, of, p
<1>. QED BY <1>7, <1>8

-----------------------------------------------------------------------------
(* Writes. *)

(* A property only depends on the accessors and the data of its object. *)
LEMMA PropertyStays ==
  ASSUME NEW p, heap'[p].accessors = heap[p].accessors, heap'[p].data = heap[p].data, NEW n
  PROVE  PropertyOf(p, n)' = PropertyOf(p, n) /\ Accessor(p, n)' = Accessor(p, n)
BY DEF PropertyOf, Accessor, Owns

(* The data of one object are replaced, and with them its data properties. *)
WritesData(o, d) == heap' = [heap EXCEPT ![o].data = d]
PropertiesOfData(o, d) ==
  \A p \in Objects, m \in Names :
    PropertyOf(p, m)' =
      IF p # o \/ Accessor(o, m) # Missing THEN PropertyOf(p, m)
      ELSE IF m \in DOMAIN d THEN [kind |-> "data", val |-> d[m]] ELSE Missing

(* Writing the data of one object is a change of the properties in them. *)
LEMMA DataWritten ==
  ASSUME TypeOK, NEW o \in Objects, NEW d, WritesData(o, d)
  PROVE  SameStructure /\ PropertiesOfData(o, d)
<1>1. Objects = DOMAIN heap /\ Fields(heap[o], Len(heap))
  BY Addresses DEF Objects
<1>2. [heap[o] EXCEPT !.data = d] =
        [data |-> d, accessors |-> heap[o].accessors, proto |-> heap[o].proto,
         proxy |-> heap[o].proxy, view |-> heap[o].view, bytes |-> heap[o].bytes]
  BY <1>1 DEF Fields
<1>3. /\ DOMAIN heap' = DOMAIN heap
      /\ \A p \in Objects : p # o => heap'[p] = heap[p]
      /\ heap'[o] = [data |-> d, accessors |-> heap[o].accessors, proto |-> heap[o].proto,
                     proxy |-> heap[o].proxy, view |-> heap[o].view, bytes |-> heap[o].bytes]
  BY <1>1, <1>2 DEF WritesData
<1>4. /\ heap'[o].data = d /\ heap'[o].accessors = heap[o].accessors
      /\ heap'[o].proto = heap[o].proto /\ heap'[o].proxy = heap[o].proxy
  BY <1>3
<1>5. SameStructure
  BY <1>1, <1>3, <1>4 DEF SameStructure, Objects
<1>6. \A m : Accessor(o, m)' = Accessor(o, m) /\ (Owns(o, m)' <=> m \in DOMAIN d)
  BY <1>4 DEF Accessor, Owns
<1>7. \A m : PropertyOf(o, m)' = IF Accessor(o, m) # Missing THEN PropertyOf(o, m)
                                 ELSE IF m \in DOMAIN d THEN [kind |-> "data", val |-> d[m]] ELSE Missing
  BY <1>4, <1>6 DEF PropertyOf
<1>8. \A p \in Objects, m \in Names : p # o => PropertyOf(p, m)' = PropertyOf(p, m)
  BY <1>3, PropertyStays
<1>. QED BY <1>5, <1>7, <1>8 DEF PropertiesOfData

(* Object.Set writes one property. *)
LEMMA StoredIs ==
  ASSUME TypeOK, NEW o \in Objects, NEW n \in Names, NEW v, heap' = Stored(o, n, v)
  PROVE  IF Accessor(o, n) # Missing THEN O!Keeps ELSE O!Becomes(o, n, O!Data(v))
<1> DEFINE r == heap[o].data
           d == [m \in DOMAIN r \cup {n} |-> IF m = n THEN v ELSE r[m]]
           x == [kind |-> "data", val |-> v]
<1>1. heap' = [heap EXCEPT ![o].data = d]
  BY DEF Stored
<1>2. /\ n \in DOMAIN d /\ d[n] = v
      /\ \A m : m # n => (m \in DOMAIN d <=> Owns(o, m)) /\ (Owns(o, m) => d[m] = r[m])
  BY DEF Owns
<1> HIDE DEF d
<1>3. /\ SameStructure
      /\ \A p \in Objects, m \in Names :
           PropertyOf(p, m)' =
             IF p # o \/ Accessor(o, m) # Missing THEN PropertyOf(p, m)
             ELSE IF m \in DOMAIN d THEN [kind |-> "data", val |-> d[m]] ELSE Missing
  <2>1. WritesData(o, d)
    BY <1>1 DEF WritesData
  <2>2. SameStructure /\ PropertiesOfData(o, d)
    BY <2>1, DataWritten
  <2>. QED BY <2>2, Zenon DEF PropertiesOfData
<1>4. \A m \in Names : Accessor(o, m) = Missing /\ m # n => PropertyOf(o, m)' = PropertyOf(o, m)
  BY <1>2, <1>3 DEF PropertyOf
<1>5. PropertyOf(o, n)' = IF Accessor(o, n) # Missing THEN PropertyOf(o, n) ELSE x
  BY <1>2, <1>3
<1>6. CASE Accessor(o, n) # Missing
  <2>1. \A p \in Objects, m \in Names : PropertyOf(p, m)' = PropertyOf(p, m)
    BY <1>3, <1>4, <1>5, <1>6
  <2>. QED BY <1>3, <1>6, <2>1, KeepsIs
<1>7. CASE Accessor(o, n) = Missing
  <2> HIDE DEF x
  <2>1. \A p \in Objects, m \in Names : PropertyOf(p, m)' = IF p = o /\ m = n THEN x ELSE PropertyOf(p, m)
    BY <1>3, <1>4, <1>5, <1>7
  <2>2. O!Becomes(o, n, x)
    BY <1>3, <2>1, BecomesIs
  <2>. QED BY <1>7, <2>2 DEF O!Data, x
<1>. QED BY <1>6, <1>7

(* Which is how OrdinaryObjects defines a data property. *)
LEMMA DefinesIs ==
  ASSUME TypeOK, NEW o \in Objects, NEW n \in Names, NEW v, Writes(Stored(o, n, v))
  PROVE  O!Defines(o, n, v)
<1>1. IF Accessor(o, n) # Missing THEN O!Keeps ELSE O!Becomes(o, n, O!Data(v))
  BY StoredIs DEF Writes
<1> DEFINE props == [p \in Objects |-> [m \in Names |-> PropertyOf(p, m)]]
<1>2. props[o][n] = PropertyOf(o, n)
  OBVIOUS
<1>3. O!Has(o, n) /\ ~ O!IsData(props[o][n]) <=> Accessor(o, n) # Missing
  BY <1>2, PropertyAt, PropertyKinds
<1>4. O!Defines(o, n, v) <=>
        IF O!Has(o, n) /\ ~ O!IsData(props[o][n]) THEN O!Keeps ELSE O!Becomes(o, n, O!Data(v))
  BY Zenon DEF O!Defines
<1> HIDE DEF props
<1>. QED BY <1>1, <1>3, <1>4

(* An accessor of the object itself is found first. *)
LEMMA LookupOwn ==
  ASSUME TypeOK, NEW o \in Objects, NEW n, Accessor(o, n) # Missing
  PROVE  LookupAccessor(o, n) = Accessor(o, n)
<1>1. o \in Accessing(n) /\ o # Nil
  BY Addresses DEF Accessing, Objects, Nil
<1>2. FirstOf(o, Accessing(n)) = o
  BY <1>1, FirstHere
<1>. QED BY <1>1, <1>2 DEF LookupAccessor, Accessing

(* A write through dots is a Set of OrdinaryObjects. *)
LEMMA SetIs ==
  ASSUME TypeInv, NEW o \in Objects, NEW n \in Names, NEW v, OpSetProp(o, n, v), Conforming(answer'.of)
  PROVE  O!Set(o, n, v) /\ answer'.of = <<"set", o, n, v>>
<1> DEFINE of == <<"set", o, n, v>>
           obj == Behind(o)
           acc == LookupAccessor(obj, n)
           t == Trap(o, set)
           p == O!Nearest(obj, n)
<1>1. TypeOK /\ obj \in Objects
  BY BehindTyped DEF TypeInv
<1>2. \/ /\ t # NoFunction /\ Reads /\ Call(of, t, heap[o].proxy.handler, <<obj, n, v, o>>)
      \/ /\ t = NoFunction /\ acc # Missing /\ Reads
         /\ IF acc.Set = NoFunction THEN Answers(of, v) ELSE Call(of, acc.Set, obj, <<v>>)
      \/ /\ t = NoFunction /\ acc = Missing
         /\ IF Endless(obj) THEN Reads /\ Hangs(of) ELSE Writes(Stored(obj, n, v)) /\ Answers(of, v)
  BY Zenon DEF OpSetProp
<1>3. answer'.of = of
  <2> HIDE DEF of, obj, acc, t
  <2>1. \/ \E fn, this, args : Call(of, fn, this, args)
        \/ \E w : Answers(of, w)
    BY <1>2, Zenon DEF Hangs
  <2>. QED BY <2>1, AnswersIs, CallIs
<1>4. Conforming(of) /\ Apart /\ ~ Endless(obj) /\ ~ Masked(obj, n)
  <2>1. Conforming(of)
    BY <1>3
  <2>. QED BY <1>1, <2>1, ConformingIs, ConformingSet
<1>5. O!Trap(o, set) = t /\ O!TargetOf(o) = obj
  BY <1>1, <1>4, TrapIs, PropertyAt DEF Names
<1>6. O!Asked(of)
  BY <1>3 DEF O!Asked
<1>7. ASSUME t # NoFunction, Reads, Call(of, t, heap[o].proxy.handler, <<obj, n, v, o>>)
      PROVE  O!Set(o, n, v)
  <2>1. O!Calls(of, t, heap[o].proxy.handler, <<obj, n, v, o>>) /\ O!Keeps
    BY <1>7, CallIs, ReadsIs
  <2>2. obj = heap[o].proxy.target
    BY <1>7 DEF Trap, Behind
  <2>3. O!Calls(of, t, heap[o].proxy.handler, <<heap[o].proxy.target, n, v, o>>)
    BY <2>1, <2>2
  <2> HIDE DEF t, obj
  <2>. QED BY <1>5, <1>6, <1>7, <2>1, <2>3 DEF O!Set
<1>8. ASSUME t = NoFunction, acc # Missing, Reads,
             IF acc.Set = NoFunction THEN Answers(of, v) ELSE Call(of, acc.Set, obj, <<v>>)
      PROVE  O!Set(o, n, v)
  <2>1. p # Missing /\ ~ O!IsData(p) /\ p.set = acc.Set
    BY <1>1, <1>4, <1>8, NearestAccessor
  <2>2. O!Keeps
    BY <1>8, ReadsIs
  <2> HIDE DEF t, acc, p, obj, of
  <2>3. IF p.set = NoFunction THEN O!Answers(of, v) ELSE O!Calls(of, p.set, obj, <<v>>)
    BY <1>8, <2>1, AnswersIs, CallIs
  <2>. QED BY <1>5, <1>6, <1>8, <2>1, <2>2, <2>3 DEF O!Set, of, p
<1>9. ASSUME t = NoFunction, acc = Missing, Writes(Stored(obj, n, v)), Answers(of, v)
      PROVE  O!Set(o, n, v)
  <2>1. Accessor(obj, n) = Missing
    BY <1>1, <1>9, LookupOwn
  <2>2. O!Becomes(obj, n, O!Data(v))
    BY <1>1, <1>9, <2>1, StoredIs DEF Writes
  <2>3. p = Missing \/ O!IsData(p)
    BY <1>1, <1>9, NearestData
  <2> HIDE DEF t, acc, p, obj, of
  <2>4. O!Answers(of, v)
    BY <1>9, AnswersIs
  <2>. QED BY <1>5, <1>6, <1>9, <2>2, <2>3, <2>4 DEF O!Set, of, p
<1> HIDE DEF t, acc, p, obj
<1>. QED BY <1>2, <1>3, <1>4, <1>7, <1>8, <1>9

(* Accessors of one object are replaced. *)
LEMMA AccessorsWritten ==
  ASSUME TypeOK, NEW o \in Objects, NEW n \in Names,
         NEW g \in Functions \cup {NoFunction}, NEW s \in Functions \cup {NoFunction},
         Writes(WithAccessor(o, n, g, s))
  PROVE  O!Becomes(o, n, O!Accessor(g, s))
<1> DEFINE r == heap[o].accessors
           x == [Get |-> g, Set |-> s]
           d == [m \in DOMAIN r \cup {n} |-> IF m = n THEN x ELSE r[m]]
           y == [kind |-> "accessor", get |-> g, set |-> s]
<1>1. heap' = [heap EXCEPT ![o].accessors = d]
  BY DEF WithAccessor, Writes
<1>2. x \in Pairs /\ x # Missing /\ x.Get = g /\ x.Set = s
  <2>1. x \in Pairs
    BY DEF Pairs
  <2>. QED BY <2>1, DispatchAssumption
<1> HIDE DEF x
<1>3. /\ n \in DOMAIN d /\ d[n] = x
      /\ \A m : m # n => (m \in DOMAIN d <=> m \in DOMAIN r) /\ (m \in DOMAIN r => d[m] = r[m])
  OBVIOUS
<1> HIDE DEF d
<1>4. Objects = DOMAIN heap /\ Fields(heap[o], Len(heap))
  BY Addresses DEF Objects
<1>5. [heap[o] EXCEPT !.accessors = d] =
        [data |-> heap[o].data, accessors |-> d, proto |-> heap[o].proto,
         proxy |-> heap[o].proxy, view |-> heap[o].view, bytes |-> heap[o].bytes]
  BY <1>4 DEF Fields
<1>6. /\ DOMAIN heap' = DOMAIN heap
      /\ \A p \in Objects : p # o => heap'[p] = heap[p]
      /\ heap'[o] = [data |-> heap[o].data, accessors |-> d, proto |-> heap[o].proto,
                     proxy |-> heap[o].proxy, view |-> heap[o].view, bytes |-> heap[o].bytes]
  BY <1>1, <1>4, <1>5
<1>7. /\ heap'[o].data = heap[o].data /\ heap'[o].accessors = d
      /\ heap'[o].proto = heap[o].proto /\ heap'[o].proxy = heap[o].proxy
  BY <1>6
<1>8. SameStructure
  BY <1>4, <1>6, <1>7 DEF SameStructure, Objects
<1>9. /\ Accessor(o, n)' = x
      /\ \A m : m # n => Accessor(o, m)' = Accessor(o, m)
      /\ \A m : Owns(o, m)' <=> Owns(o, m)
  BY <1>3, <1>7 DEF Accessor, Owns
<1>10. PropertyOf(o, n)' = y
  BY <1>2, <1>9 DEF PropertyOf
<1>11. \A m : m # n => PropertyOf(o, m)' = PropertyOf(o, m)
  BY <1>7, <1>9 DEF PropertyOf
<1>12. \A p \in Objects, m \in Names : p # o => PropertyOf(p, m)' = PropertyOf(p, m)
  BY <1>6, PropertyStays
<1> HIDE DEF y
<1>13. \A p \in Objects, m \in Names : PropertyOf(p, m)' = IF p = o /\ m = n THEN y ELSE PropertyOf(p, m)
  BY <1>10, <1>11, <1>12
<1>14. O!Becomes(o, n, y)
  BY <1>8, <1>13, BecomesIs
<1>. QED BY <1>14 DEF O!Accessor, y

(* The half that is there already. *)
LEMMA HalfIs ==
  ASSUME TypeOK, NEW o \in Objects, NEW n \in Names
  PROVE  O!Half(o, n, "get") = Half(o, n, "Get") /\ O!Half(o, n, "set") = Half(o, n, "Set")
<1> DEFINE props == [p \in Objects |-> [m \in Names |-> PropertyOf(p, m)]]
<1>1. props[o][n] = PropertyOf(o, n)
  OBVIOUS
<1>2. O!Has(o, n) /\ ~ O!IsData(PropertyOf(o, n)) <=> Accessor(o, n) # Missing
  BY PropertyAt, PropertyKinds
<1>3. \A half : O!Half(o, n, half) =
        IF O!Has(o, n) /\ ~ O!IsData(props[o][n]) THEN props[o][n][half] ELSE NoFunction
  BY DEF O!Half
<1> HIDE DEF props
<1>4. \A half : O!Half(o, n, half) = IF Accessor(o, n) # Missing THEN PropertyOf(o, n)[half] ELSE NoFunction
  BY <1>1, <1>2, <1>3
<1>. QED BY <1>4, PropertyKinds DEF Half

(* The data properties of OrdinaryObjects are those an object owns. *)
LEMMA OwnData ==
  ASSUME TypeOK, Apart, NEW o \in Objects, NEW n \in Names
  PROVE  O!IsData(PropertyOf(o, n)) = Owns(o, n)
<1>1. O!IsData(PropertyOf(o, n)) <=> Owns(o, n)
  BY PropertyKinds DEF Apart
<1>2. O!IsData(PropertyOf(o, n)) \in BOOLEAN /\ Owns(o, n) \in BOOLEAN
  BY DEF O!IsData, Owns
<1>. QED BY <1>1, <1>2

(* delete removes what OrdinaryObjects removes, and answers whether it did. *)
LEMMA DeleteIs ==
  ASSUME TypeOK, Apart, NEW o \in Objects, NEW n \in Names, OpDeleteProp(o, n)
  PROVE  O!Delete(o, n)
<1> DEFINE r == heap[o].data
           d == [m \in DOMAIN r \ {n} |-> r[m]]
           props == [p \in Objects |-> [m \in Names |-> PropertyOf(p, m)]]
<1>1. heap' = [heap EXCEPT ![o].data = d] /\ Answers(<<"delete", o, n>>, Owns(o, n))
  BY DEF OpDeleteProp, Writes
<1>2. /\ n \notin DOMAIN d
      /\ \A m : m # n => (m \in DOMAIN d <=> Owns(o, m)) /\ (Owns(o, m) => d[m] = r[m])
  BY DEF Owns
<1> HIDE DEF d
<1>3. /\ SameStructure
      /\ \A p \in Objects, m \in Names :
           PropertyOf(p, m)' =
             IF p # o \/ Accessor(o, m) # Missing THEN PropertyOf(p, m)
             ELSE IF m \in DOMAIN d THEN [kind |-> "data", val |-> d[m]] ELSE Missing
  <2>1. WritesData(o, d)
    BY <1>1 DEF WritesData
  <2>2. SameStructure /\ PropertiesOfData(o, d)
    BY <2>1, DataWritten
  <2>. QED BY <2>2, Zenon DEF PropertiesOfData
<1>4. \A m \in Names : Accessor(o, m) = Missing /\ m # n => PropertyOf(o, m)' = PropertyOf(o, m)
  BY <1>2, <1>3 DEF PropertyOf
<1>5. PropertyOf(o, n)' = IF Accessor(o, n) # Missing THEN PropertyOf(o, n) ELSE Missing
  BY <1>2, <1>3
<1>6. O!Answers(<<"delete", o, n>>, O!IsData(PropertyOf(o, n)))
  <2>1. O!Answers(<<"delete", o, n>>, Owns(o, n))
    BY <1>1, AnswersIs
  <2>2. O!IsData(PropertyOf(o, n)) = Owns(o, n)
    BY OwnData
  <2>. QED BY <2>1, <2>2
<1>7. props[o][n] = PropertyOf(o, n)
  OBVIOUS
<1>8. O!Delete(o, n) <=> /\ O!Answers(<<"delete", o, n>>, O!IsData(props[o][n]))
                         /\ IF O!IsData(props[o][n]) THEN O!Becomes(o, n, Missing) ELSE O!Keeps
  BY Zenon DEF O!Delete
<1> HIDE DEF props
<1>9. CASE O!IsData(PropertyOf(o, n))
  <2>1. Accessor(o, n) = Missing
    BY <1>9, PropertyKinds
  <2>2. \A p \in Objects, m \in Names :
        PropertyOf(p, m)' = IF p = o /\ m = n THEN Missing ELSE PropertyOf(p, m)
    BY <1>3, <1>4, <1>5, <2>1
  <2>3. O!Becomes(o, n, Missing)
    BY <1>3, <2>2, BecomesIs
  <2>. QED BY <1>6, <1>7, <1>8, <1>9, <2>3
<1>10. CASE ~ O!IsData(PropertyOf(o, n))
  <2>1. Accessor(o, n) # Missing \/ PropertyOf(o, n) = Missing
    BY <1>10, PropertyKinds
  <2>2. \A p \in Objects, m \in Names : PropertyOf(p, m)' = PropertyOf(p, m)
    BY <1>3, <1>4, <1>5, <2>1
  <2>3. O!Keeps
    BY <1>3, <2>2, KeepsIs
  <2>. QED BY <1>6, <1>7, <1>8, <1>10, <2>3
<1>. QED BY <1>9, <1>10

-----------------------------------------------------------------------------
(* The other operations. *)

(* in sees what OrdinaryObjects sees. *)
LEMMA InIs ==
  ASSUME TypeOK, Apart, NEW o \in Objects, NEW n \in Names, OpIn(o, n)
  PROVE  O!In(o, n)
<1> DEFINE props == [p \in Objects |-> [m \in Names |-> PropertyOf(p, m)]]
<1>1. props[o][n] = PropertyOf(o, n)
  OBVIOUS
<1>2. O!IsData(PropertyOf(o, n)) = Owns(o, n)
  BY OwnData
<1>3. O!Answers(<<"in", o, n>>, Owns(o, n)) /\ O!Keeps
  BY AnswersIs, ReadsIs DEF OpIn
<1>4. O!In(o, n) <=> O!Answers(<<"in", o, n>>, O!IsData(props[o][n])) /\ O!Keeps
  BY Zenon DEF O!In
<1> HIDE DEF props
<1>. QED BY <1>1, <1>2, <1>3, <1>4

(* Object.keys, values and entries list the data properties. *)
LEMMA EntriesIs ==
  ASSUME TypeOK, NEW o \in Objects, ObjectEntries(o), Conforming(answer'.of)
  PROVE  O!Entries(o)
<1> DEFINE props == [p \in Objects |-> [m \in Names |-> PropertyOf(p, m)]]
           d == heap[o].data
<1>1. O!Answers(<<"entries", o>>, d) /\ O!Keeps /\ answer'.of = <<"entries", o>>
  BY AnswersIs, ReadsIs DEF ObjectEntries
<1>2. Apart /\ DOMAIN d \subseteq Names
  BY <1>1, ConformingIs, ConformingEntries
<1>3. d = [n \in DOMAIN d |-> d[n]]
  <2>1. d \in [DOMAIN d -> Held]
    BY Addresses DEF Fields
  <2> HIDE DEF d
  <2>. QED BY <2>1
<1>4. \A n \in Names : props[o][n] = PropertyOf(o, n)
  OBVIOUS
<1>5. \A n \in Names : /\ O!IsData(PropertyOf(o, n)) <=> n \in DOMAIN d
                       /\ n \in DOMAIN d => PropertyOf(o, n).val = d[n]
  BY <1>2, PropertyKinds DEF Apart, Owns
<1>6. O!Entries(o) <=>
        /\ O!Answers(<<"entries", o>>, [n \in {m \in Names : O!IsData(props[o][m])} |-> props[o][n].val])
        /\ O!Keeps
  BY Zenon DEF O!Entries
<1> HIDE DEF props, d
<1>7. {m \in Names : O!IsData(props[o][m])} = DOMAIN d
  BY <1>2, <1>4, <1>5
<1>8. [n \in {m \in Names : O!IsData(props[o][m])} |-> props[o][n].val] = d
  <2>1. \A n \in DOMAIN d : props[o][n].val = d[n]
    BY <1>2, <1>4, <1>5
  <2>2. [n \in DOMAIN d |-> props[o][n].val] = [n \in DOMAIN d |-> d[n]]
    BY <2>1
  <2>. QED BY <1>3, <1>7, <2>2
<1>. QED BY <1>1, <1>6, <1>8

(* A read through brackets, of a name. *)
LEMMA GetByValIs ==
  ASSUME TypeOK, NEW o \in Objects, ~ Endless(o), NEW n \in Names, GetByVal(o, n)
  PROVE  O!GetByVal(o, n)
<1>1. n \notin Indices
  BY DispatchAssumption
<1>2. Answers(<<"getByVal", o, n>>, LookedUp(o, n)) /\ Reads
  BY <1>1, Zenon DEF GetByVal
<1>3. O!Asked(<<"getByVal", o, n>>) /\ O!Keeps /\ UNCHANGED calls /\ answer'.is = LookedUp(o, n)
  BY <1>2, ReadsIs DEF Answers, O!Asked
<1>. QED BY <1>3, NearestInBrackets DEF O!GetByVal

(* Object.setPrototypeOf is that of OrdinaryObjects. *)
LEMMA SetPrototypeIs ==
  ASSUME TypeOK, NEW o \in Objects, NEW q, SetPrototypeOf(o, q)
  PROVE  O!SetPrototypeOf(o, q)
<1>1. Objects = DOMAIN heap /\ Fields(heap[o], Len(heap))
  BY Addresses DEF Objects
<1>2. heap' = [heap EXCEPT ![o].proto = q]
  BY DEF SetPrototypeOf
<1>3. [heap[o] EXCEPT !.proto = q] =
        [data |-> heap[o].data, accessors |-> heap[o].accessors, proto |-> q,
         proxy |-> heap[o].proxy, view |-> heap[o].view, bytes |-> heap[o].bytes]
  BY <1>1 DEF Fields
<1>4. /\ DOMAIN heap' = DOMAIN heap
      /\ \A p \in Objects : p # o => heap'[p] = heap[p]
      /\ heap'[o] = [data |-> heap[o].data, accessors |-> heap[o].accessors, proto |-> q,
                     proxy |-> heap[o].proxy, view |-> heap[o].view, bytes |-> heap[o].bytes]
  BY <1>1, <1>2, <1>3
<1>5. Objects' = Objects
  BY <1>4 DEF Objects
<1>6. \A p \in Objects : /\ heap'[p].data = heap[p].data /\ heap'[p].accessors = heap[p].accessors
                         /\ heap'[p].proxy = heap[p].proxy
                         /\ heap'[p].proto = IF p = o THEN q ELSE heap[p].proto
  BY <1>4
<1>7. \A p \in Objects : \A m : PropertyOf(p, m)' = PropertyOf(p, m)
  BY <1>6, PropertyStays
<1>8. O!Answers(<<"setProto", o, q>>, o)
  BY AnswersIs DEF SetPrototypeOf
<1>9. Protos' = [Protos EXCEPT ![o] = q]
  BY <1>5, <1>6 DEF Protos
<1>10. /\ [p \in Objects |-> [m \in Names |-> PropertyOf(p, m)]]' =
            [p \in Objects |-> [m \in Names |-> PropertyOf(p, m)]]
       /\ [p \in Objects |-> heap[p].proxy]' = [p \in Objects |-> heap[p].proxy]
  BY <1>5, <1>6, <1>7
<1>. QED BY <1>8, <1>9, <1>10 DEF O!SetPrototypeOf

(* Object.assign. *)
LEMMA AssignIs ==
  ASSUME TypeOK, Apart, NEW o \in Objects, NEW s \in Objects, ObjectAssign(o, s)
  PROVE  O!Assign(o, s)
<1> DEFINE r == heap[o].data
           d == Copied(r, s)
           props == [p \in Objects |-> [m \in Names |-> PropertyOf(p, m)]]
           new(n) == IF O!IsData(PropertyOf(s, n)) /\ (O!Has(o, n) => O!IsData(PropertyOf(o, n)))
                       THEN PropertyOf(s, n) ELSE PropertyOf(o, n)
<1>1. heap' = [heap EXCEPT ![o].data = d] /\ Answers(<<"assign", o, s>>, o)
  BY DEF ObjectAssign, Writes
<1>2. \A n : /\ n \in DOMAIN d <=> Owns(o, n) \/ Owns(s, n)
             /\ Owns(s, n) => d[n] = heap[s].data[n]
             /\ Owns(o, n) /\ ~ Owns(s, n) => d[n] = r[n]
  BY DEF Owns, Copied
<1> HIDE DEF d
<1>3. SameStructure /\ PropertiesOfData(o, d)
  <2>1. WritesData(o, d)
    BY <1>1 DEF WritesData
  <2>. QED BY <2>1, DataWritten
<1>4. \A n \in Names : PropertyOf(o, n)' = new(n)
  <2> TAKE n \in Names
  <2>1. PropertyOf(o, n)' =
          IF Accessor(o, n) # Missing THEN PropertyOf(o, n)
          ELSE IF n \in DOMAIN d THEN [kind |-> "data", val |-> d[n]] ELSE Missing
    BY <1>3 DEF PropertiesOfData
  <2>2. /\ O!IsData(PropertyOf(s, n)) <=> Owns(s, n)
        /\ O!Has(o, n) <=> Accessor(o, n) # Missing \/ Owns(o, n)
        /\ O!IsData(PropertyOf(o, n)) <=> Accessor(o, n) = Missing /\ Owns(o, n)
    BY PropertyKinds, PropertyAt DEF Apart
  <2>3. CASE Accessor(o, n) # Missing
    BY <2>1, <2>2, <2>3
  <2>4. CASE Accessor(o, n) = Missing /\ Owns(s, n)
    <3>1. Accessor(s, n) = Missing
      BY <2>4 DEF Apart
    <3>2. PropertyOf(s, n) = [kind |-> "data", val |-> heap[s].data[n]]
      BY <2>4, <3>1 DEF PropertyOf
    <3>3. PropertyOf(o, n)' = [kind |-> "data", val |-> heap[s].data[n]]
      BY <1>2, <2>1, <2>4
    <3>4. new(n) = PropertyOf(s, n)
      BY <2>2, <2>4
    <3>. QED BY <3>2, <3>3, <3>4
  <2>5. CASE Accessor(o, n) = Missing /\ ~ Owns(s, n)
    <3>1. new(n) = PropertyOf(o, n)
      BY <2>2, <2>5
    <3>2. PropertyOf(o, n) = IF Owns(o, n) THEN [kind |-> "data", val |-> r[n]] ELSE Missing
      BY <2>5 DEF PropertyOf
    <3>3. PropertyOf(o, n)' = IF Owns(o, n) THEN [kind |-> "data", val |-> r[n]] ELSE Missing
      BY <1>2, <2>1, <2>5
    <3>. QED BY <3>1, <3>2, <3>3
  <2>. QED BY <2>3, <2>4, <2>5
<1>5. \A p \in Objects, n \in Names : p # o => PropertyOf(p, n)' = PropertyOf(p, n)
  BY <1>3 DEF PropertiesOfData
<1>6. [p \in Objects |-> [m \in Names |-> PropertyOf(p, m)]]' = [props EXCEPT ![o] = [n \in Names |-> new(n)]]
  <2>1. Objects' = Objects
    BY <1>3 DEF SameStructure
  <2> HIDE DEF new
  <2>. QED BY <1>4, <1>5, <2>1
<1>7. [n \in Names |-> new(n)] =
        [n \in Names |-> IF O!IsData(props[s][n]) /\ (O!Has(o, n) => O!IsData(props[o][n]))
                           THEN props[s][n] ELSE props[o][n]]
  <2>1. \A n \in Names : props[s][n] = PropertyOf(s, n) /\ props[o][n] = PropertyOf(o, n)
    OBVIOUS
  <2> HIDE DEF props
  <2>. QED BY <2>1
<1>8. Protos' = Protos /\ [p \in Objects |-> heap[p].proxy]' = [p \in Objects |-> heap[p].proxy]
  BY <1>3 DEF SameStructure, Protos
<1>9. O!Answers(<<"assign", o, s>>, o)
  BY <1>1, AnswersIs
<1> HIDE DEF new
<1>. QED BY <1>6, <1>7, <1>8, <1>9, Zenon DEF O!Assign

-----------------------------------------------------------------------------
(* Births, elements, and returns. *)

(* A function g on 1..m that goes on f, which is on 1..n, has it for a prefix. *)
GoesOn(f, n, g, m) ==
  f = [i \in 1..n |-> f[i]] /\ g = [i \in 1..m |-> g[i]] /\ \A i \in 1..n : g[i] = f[i]
HasPrefix(f, n, g, m) == Len(f) = n /\ Len(g) = m /\ SubSeq(g, 1, Len(f)) = f

(* SubSeq finds the prefix. *)
LEMMA PrefixIs ==
  ASSUME NEW n \in Nat, NEW m \in Nat, n <= m, NEW f, NEW g, GoesOn(f, n, g, m)
  PROVE  HasPrefix(f, n, g, m)
<1> DEFINE S == {g[i] : i \in 1..m}
           h == SubSeq(g, 1, n)
<1>1. 1..n \subseteq 1..m /\ \A i \in 1..n : g[i] = f[i]
  BY DEF GoesOn
<1>2. f \in [1..n -> S] /\ g \in [1..m -> S]
  BY <1>1 DEF GoesOn
<1> HIDE DEF S
<1>3. f \in Seq(S) /\ Len(f) = n /\ g \in Seq(S) /\ Len(g) = m
  BY <1>2, FunctionSequence
<1>4. h \in Seq(S) /\ Len(h) = n /\ \A i \in 1..n : h[i] = g[i]
  BY <1>3, SubSeqProperties
<1> HIDE DEF h
<1>5. h = f
  <2>1. h = [i \in 1..n |-> h[i]]
    BY <1>4, SequenceFunction
  <2>. QED BY <1>1, <1>4, <2>1 DEF GoesOn
<1>. QED BY <1>3, <1>5 DEF h, HasPrefix

(* More objects, the old ones unchanged. *)
Grows ==
  /\ Objects' = 1..Len(heap') /\ Len(heap') \in Nat /\ Len(heap) < Len(heap')
  /\ \A o \in 1..Len(heap) : heap'[o] = heap[o]

(* Whatever is added to the heap makes it grow. *)
LEMMA HeapGrows ==
  ASSUME TypeOK, NEW T, NEW s \in Seq(T), Len(s) \in 1..2, heap' = heap \o s
  PROVE  Grows
<1> DEFINE S == {heap[o] : o \in 1..Len(heap)} \cup T
           n == Len(heap)
           m == Len(heap) + Len(s)
<1>1. heap \in Seq(S) /\ s \in Seq(S) /\ n \in Nat /\ m \in Nat /\ n < m
  <2>1. HeapTyped(heap) /\ n \in Nat
    BY Addresses
  <2>2. \A o \in 1..n : heap[o] \in S
    OBVIOUS
  <2>3. T \subseteq S
    OBVIOUS
  <2>6. m \in Nat /\ n < m
    <3>1. PICK k \in 1..2 : k = Len(s)
      OBVIOUS
    <3>2. m = n + k
      BY <3>1
    <3> HIDE DEF n, m
    <3>. QED BY <2>1, <3>2
  <2> HIDE DEF S, n
  <2>4. heap \in Seq(S)
    BY <2>1, <2>2, HeapSequence DEF n
  <2>5. s \in Seq(S)
    BY <2>3
  <2> HIDE DEF m
  <2>. QED BY <2>1, <2>4, <2>5, <2>6
<1> HIDE DEF S
<1>2. /\ heap' \in Seq(S) /\ Len(heap') = m
      /\ \A i \in 1..m : heap'[i] = IF i <= n THEN heap[i] ELSE s[i - n]
  BY <1>1, ConcatProperties
<1>3. DOMAIN heap' = 1..m
  BY <1>2
<1>4. \A o \in 1..n : heap'[o] = heap[o]
  <2> HIDE DEF n, m
  <2>. QED BY <1>1, <1>2
<1>. QED BY <1>1, <1>2, <1>3, <1>4 DEF Grows, Objects

(* To OrdinaryObjects objects are born. *)
LEMMA BirthIs ==
  ASSUME TypeOK, Grows,
         \/ answer'.of[1] \in {"create", "proxy", "spread", "view", "slice", "fget"} /\ UNCHANGED calls
         \/ answer'.of[1] \in {"new", "construct"} /\ Len(calls') = Len(calls) + 1
  PROVE  O!Birth
<1> DEFINE n == Len(heap)
           m == Len(heap')
           props == [p \in Objects |-> [k \in Names |-> PropertyOf(p, k)]]
           after == [p \in Objects |-> [k \in Names |-> PropertyOf(p, k)]]'
           proxies == [p \in Objects |-> heap[p].proxy]
           later == [p \in Objects |-> heap[p].proxy]'
<1>1. Objects = 1..n /\ Objects' = 1..m /\ n \in Nat /\ m \in Nat /\ n < m /\ n <= m
  BY Addresses DEF Grows
<1>2. \A o \in 1..n : heap'[o] = heap[o] /\ o \in 1..m
  BY <1>1 DEF Grows
<1>3. Len(props) = n /\ Len(after) = m /\ SubSeq(after, 1, Len(props)) = props
  <2>1. props = [i \in 1..n |-> props[i]] /\ after = [i \in 1..m |-> after[i]]
    BY <1>1
  <2>2. \A i \in 1..n : after[i] = props[i]
    <3>1. \A i \in 1..n : \A k : PropertyOf(i, k)' = PropertyOf(i, k)
      BY <1>2, PropertyStays
    <3>. QED BY <1>1, <1>2, <3>1
  <2> HIDE DEF props, after, n, m
  <2>3. GoesOn(props, n, after, m)
    BY <2>1, <2>2 DEF GoesOn
  <2>. QED BY <1>1, <2>3, PrefixIs DEF HasPrefix
<1>4. SubSeq(Protos', 1, n) = Protos
  <2>1. Protos = [i \in 1..n |-> Protos[i]] /\ Protos' = [i \in 1..m |-> Protos'[i]]
    BY <1>1 DEF Protos
  <2>2. \A i \in 1..n : Protos'[i] = Protos[i]
    BY <1>1, <1>2 DEF Protos
  <2> HIDE DEF n, m
  <2>3. GoesOn(Protos, n, Protos', m)
    BY <2>1, <2>2 DEF GoesOn
  <2>. QED BY <1>1, <2>3, PrefixIs DEF HasPrefix
<1>5. SubSeq(later, 1, n) = proxies
  <2>1. proxies = [i \in 1..n |-> proxies[i]] /\ later = [i \in 1..m |-> later[i]]
    BY <1>1
  <2>2. \A i \in 1..n : later[i] = proxies[i]
    BY <1>1, <1>2
  <2> HIDE DEF proxies, later, n, m
  <2>3. GoesOn(proxies, n, later, m)
    BY <2>1, <2>2 DEF GoesOn
  <2>. QED BY <1>1, <2>3, PrefixIs DEF HasPrefix
<1>6. /\ Len(after) > Len(props) /\ SubSeq(after, 1, Len(props)) = props
      /\ SubSeq(Protos', 1, Len(props)) = Protos /\ SubSeq(later, 1, Len(props)) = proxies
  <2> HIDE DEF props, after, proxies, later, n, m
  <2>. QED BY <1>1, <1>3, <1>4, <1>5
<1>. QED BY <1>6, Zenon DEF O!Birth

(* Allocates does. *)
LEMMA AllocatesGrows ==
  ASSUME TypeOK, NEW a, NEW b, Allocates(<<a>>) \/ Allocates(<<a, b>>)
  PROVE  Grows
<1>1. <<a>> \in Seq({a, b}) /\ Len(<<a>>) = 1 /\ <<a, b>> \in Seq({a, b}) /\ Len(<<a, b>>) = 2
  OBVIOUS
<1>2. 1 \in 1..2 /\ 2 \in 1..2
  OBVIOUS
<1>3. heap' = heap \o <<a>> \/ heap' = heap \o <<a, b>>
  BY Zenon DEF Allocates
<1>. QED BY <1>1, <1>2, <1>3, HeapGrows

(* The operations that make objects and answer. *)
LEMMA MakingIs ==
  ASSUME TypeOK, NEW a, NEW b, Allocates(<<a>>) \/ Allocates(<<a, b>>), NEW of, NEW v, Answers(of, v),
         of[1] \in {"create", "proxy", "spread", "view", "slice", "fget"}
  PROVE  O!Birth
<1>1. answer'.of = of /\ UNCHANGED calls
  BY AnswersIs DEF Answers
<1>. QED BY <1>1, AllocatesGrows, BirthIs

(* The operations that are nothing to OrdinaryObjects. *)
LEMMA ElsewhereIs ==
  ASSUME O!Keeps, answer'.of[1] \in {"fget", "fset", "instanceof", "element", "elements"}
  PROVE  O!Elsewhere
BY DEF O!Elsewhere

(* An element is written: bytes change, and what is mirrored has no name. *)
LEMMA BytesWritten ==
  ASSUME TypeOK, SameStructure,
         \A p \in Objects : heap'[p].accessors = heap[p].accessors,
         \A p \in Objects, n \in Names :
           /\ n \in DOMAIN heap'[p].data <=> n \in DOMAIN heap[p].data
           /\ n \in DOMAIN heap[p].data => heap'[p].data[n] = heap[p].data[n]
  PROVE  O!Keeps
<1>1. \A p \in Objects, n \in Names : PropertyOf(p, n)' = PropertyOf(p, n)
  BY DEF PropertyOf, Accessor, Owns
<1>. QED BY <1>1, KeepsIs

(* The bytes of a buffer are replaced, and data at indices of another object. *)
WritesBytes(b, bytes, o, d) == heap' = [heap EXCEPT ![b].bytes = bytes, ![o].data = d]
SameNames(d, c) == \A n \in Names : (n \in DOMAIN d <=> n \in DOMAIN c) /\ (n \in DOMAIN c => d[n] = c[n])

(* No property changes. *)
LEMMA BytesReplacedIs ==
  ASSUME TypeOK, NEW b \in Objects, NEW bytes, NEW o \in Objects, NEW d,
         SameNames(d, heap[o].data), WritesBytes(b, bytes, o, d)
  PROVE  O!Keeps
<1> DEFINE g == [heap EXCEPT ![b].bytes = bytes]
           r(p) == [data |-> heap[p].data, accessors |-> heap[p].accessors, proto |-> heap[p].proto,
                    proxy |-> heap[p].proxy, view |-> heap[p].view,
                    bytes |-> IF p = b THEN bytes ELSE heap[p].bytes]
           q(p) == [data |-> IF p = o THEN d ELSE heap[p].data, accessors |-> heap[p].accessors,
                    proto |-> heap[p].proto, proxy |-> heap[p].proxy, view |-> heap[p].view,
                    bytes |-> IF p = b THEN bytes ELSE heap[p].bytes]
<1>1. Objects = DOMAIN heap /\ \A p \in Objects : Fields(heap[p], Len(heap))
  BY Addresses DEF Objects
<1>2. heap' = [g EXCEPT ![o].data = d]
  BY DEF WritesBytes
<1>3. DOMAIN g = Objects /\ \A p \in Objects : g[p] = r(p)
  BY <1>1 DEF Fields
<1> HIDE DEF g
<1>4. DOMAIN heap' = Objects /\ \A p \in Objects : heap'[p] = q(p)
  BY <1>2, <1>3
<1>5. \A p \in Objects : /\ heap'[p].data = (IF p = o THEN d ELSE heap[p].data)
                         /\ heap'[p].accessors = heap[p].accessors
                         /\ heap'[p].proto = heap[p].proto /\ heap'[p].proxy = heap[p].proxy
  <2> TAKE p \in Objects
  <2>1. heap'[p] = q(p)
    BY <1>4
  <2>. QED BY <2>1
<1>6. SameStructure
  BY <1>4, <1>5 DEF SameStructure, Objects
<1>7. \A p \in Objects : SameNames(heap'[p].data, heap[p].data)
  BY <1>5 DEF SameNames
<1>. QED BY <1>5, <1>6, <1>7, BytesWritten DEF SameNames

(* One element is written. *)
LEMMA ElementIs ==
  ASSUME TypeOK, NEW o \in Objects, IsView(o), NEW i, NEW v, Writes(IndexedWrite(o, i, v))
  PROVE  O!Keeps
<1> DEFINE view == heap[o].view
           b == view.buffer
           bytes == WriteElem(heap[b].bytes, view.kind, Slot(view, i), v)
           d == heap[o].data
<1>1. b \in Objects
  BY ViewOver, Addresses
<1>2. CASE InView(view, i)
  <2>1. heap' = [heap EXCEPT ![b].bytes = bytes]
    BY <1>2 DEF IndexedWrite, Writes
  <2>2. heap' = [heap EXCEPT ![b].bytes = bytes, ![o].data = d]
    <3> DEFINE g == [heap EXCEPT ![b].bytes = bytes]
    <3>1. DOMAIN heap = Objects /\ Fields(heap[o], Len(heap)) /\ Fields(heap[b], Len(heap))
      BY <1>1, Addresses DEF Objects
    <3>2. DOMAIN g = Objects /\ g[o].data = d
      BY <1>1, <3>1 DEF Fields
    <3>3. g[o] = [g[o] EXCEPT !.data = g[o].data]
      BY <1>1, <3>1 DEF Fields
    <3>4. g = [g EXCEPT ![o] = g[o]]
      BY <1>1
    <3>5. g = [g EXCEPT ![o].data = d]
      <4> HIDE DEF g, d
      <4>. QED BY <3>2, <3>3, <3>4
    <3>. QED BY <2>1, <3>5
  <2>3. SameNames(d, heap[o].data)
    BY DEF SameNames
  <2>4. WritesBytes(b, bytes, o, d)
    BY <2>2 DEF WritesBytes
  <2> HIDE DEF b, bytes, d
  <2>. QED BY <1>1, <2>3, <2>4, BytesReplacedIs
<1>3. CASE ~ InView(view, i)
  <2>1. heap' = heap
    BY <1>3 DEF IndexedWrite, Writes
  <2>. QED BY <2>1, SameHeap
<1>. QED BY <1>2, <1>3

(* Several are set, and mirrored. *)
LEMMA ElementsIs ==
  ASSUME TypeOK, NEW o \in Objects, IsView(o), NEW s \in Seq(Int), NEW i \in Int, Writes(ElementsSet(o, s, i))
  PROVE  O!Keeps
<1> DEFINE b == heap[o].view.buffer
           bytes == Filled(heap[b].bytes, heap[o].view, s, i)
           c == heap[o].data
           d == Mirrored(heap[o].data, i, s)
<1>1. b \in Objects
  BY ViewOver, Addresses
<1>2. \A n \in Names : n \notin Int
  BY DispatchAssumption
<1>3. {i + k - 1 : k \in DOMAIN s} \subseteq Int
  OBVIOUS
<1>4. heap' = [heap EXCEPT ![b].bytes = bytes, ![o].data = d]
  <2> DEFINE g == [heap EXCEPT ![b].bytes = bytes]
  <2>1. heap' = [g EXCEPT ![o].data = Mirrored(g[o].data, i, s)]
    BY DEF ElementsSet, Writes
  <2>2. g[o].data = heap[o].data
    BY <1>1, Addresses DEF Fields, Objects
  <2> HIDE DEF g
  <2>3. heap' = [g EXCEPT ![o].data = d]
    BY <2>1, <2>2
  <2>. QED BY <2>3 DEF g
<1>5. SameNames(d, c)
  <2>1. \A n \in Names : n \in DOMAIN d <=> n \in DOMAIN c
    BY <1>2, <1>3 DEF Mirrored
  <2>2. \A n \in Names : n \in DOMAIN c => d[n] = c[n]
    BY <1>2 DEF Mirrored
  <2> HIDE DEF d, c
  <2>. QED BY <2>1, <2>2 DEF SameNames
<1>6. WritesBytes(b, bytes, o, d)
  BY <1>4 DEF WritesBytes
<1> HIDE DEF b, bytes, d
<1>. QED BY <1>1, <1>5, <1>6, BytesReplacedIs

-----------------------------------------------------------------------------
(* Every step is one of OrdinaryObjects. *)

(* A step on a name of an object. *)
LEMMA NamedNext ==
  ASSUME NEW o \in Objects, NEW n \in Names,
         \/ O!Get(o, n) \/ O!Delete(o, n) \/ O!In(o, n) \/ O!GetByVal(o, n)
         \/ \E f \in Functions : O!DefineGetter(o, n, f) \/ O!DefineSetter(o, n, f)
         \/ \E g, s \in Functions \cup {NoFunction} : O!DefineAccessor(o, n, g, s)
  PROVE  O!Next
<1>1. DOMAIN [p \in Objects |-> [m \in Names |-> PropertyOf(p, m)]] = Objects
  OBVIOUS
<1>. QED BY <1>1, Zenon DEF O!Next

(* A value that is written is the last thing asked. *)
LEMMA ValueNext ==
  ASSUME NEW o \in Objects, NEW n \in Names, NEW v, v = answer'.of[Len(answer'.of)],
         O!Set(o, n, v) \/ O!Define(o, n, v) \/ O!SetByVal(o, n, v)
  PROVE  O!Next
<1>1. DOMAIN [p \in Objects |-> [m \in Names |-> PropertyOf(p, m)]] = Objects
  OBVIOUS
<1>2. v \in {answer'.of[Len(answer'.of)]}
  OBVIOUS
<1>. QED BY <1>1, <1>2, Zenon DEF O!Next

(* A step on objects. *)
LEMMA ObjectNext ==
  ASSUME NEW o \in Objects,
         \/ \E s \in Objects : O!Assign(o, s) \/ O!SetPrototypeOf(o, s)
         \/ O!SetPrototypeOf(o, Nil) \/ O!Entries(o)
  PROVE  O!Next
<1>1. DOMAIN [p \in Objects |-> [m \in Names |-> PropertyOf(p, m)]] = Objects
  OBVIOUS
<1>. QED BY <1>1, Zenon DEF O!Next

(* A step of the other kinds. *)
LEMMA OtherNext ==
  ASSUME O!Birth \/ O!Elsewhere \/ O!Returns \/ O!Throws
  PROVE  O!Next
BY Zenon DEF O!Next

(* The last of four is the fourth. *)
LEMMA LastOfFour ==
  ASSUME NEW a, NEW b, NEW c, NEW d
  PROVE  <<a, b, c, d>>[Len(<<a, b, c, d>>)] = d
<1>1. Len(<<a, b, c, d>>) = 4 /\ <<a, b, c, d>>[4] = d
  OBVIOUS
<1>. QED BY <1>1

(* The operations on properties. *)
LEMMA AccessIs ==
  ASSUME TypeInv, Access, Conforming(answer'.of)
  PROVE  O!Next
<1>1. PICK o \in Objects, n \in PlainNames :
        \/ OpGetProp(o, n) \/ OpDeleteProp(o, n) \/ OpIn(o, n) \/ GetByVal(o, n)
        \/ \E v \in Values : OpSetProp(o, n, v) \/ DefineDataProperty(o, n, v) \/ SetByVal(o, n, v)
        \/ \E f \in Getters : OpDefineGetter(o, n, f)
        \/ \E f \in Setters : OpDefineSetter(o, n, f)
        \/ \E p \in Getters \cup {NoFunction}, q \in Setters \cup {NoFunction} :
             DefineAccessorProperty(o, n, p, q)
  BY Zenon DEF Access
<1>2. TypeOK /\ n \in Names /\ Apart /\ ~ Endless(o)
  BY ConformingIs DEF TypeInv, Names
<1>3. /\ \A f \in Getters : f \in Functions /\ f \in Functions \cup {NoFunction}
      /\ \A f \in Setters : f \in Functions /\ f \in Functions \cup {NoFunction}
  BY DispatchAssumption
<1>4. CASE OpGetProp(o, n)
  BY <1>2, <1>4, GetIs, NamedNext
<1>5. CASE OpDeleteProp(o, n)
  BY <1>2, <1>5, DeleteIs, NamedNext
<1>6. CASE OpIn(o, n)
  BY <1>2, <1>6, InIs, NamedNext
<1>7. CASE GetByVal(o, n)
  BY <1>2, <1>7, GetByValIs, NamedNext
<1>8. ASSUME NEW v, OpSetProp(o, n, v)
      PROVE  O!Next
  <2>1. O!Set(o, n, v) /\ answer'.of = <<"set", o, n, v>>
    BY <1>2, <1>8, SetIs
  <2>2. v = answer'.of[Len(answer'.of)]
    BY <2>1, LastOfFour
  <2>. QED BY <1>2, <2>1, <2>2, ValueNext
<1>9. ASSUME NEW v, DefineDataProperty(o, n, v)
      PROVE  O!Next
  <2>1. Writes(Stored(o, n, v)) /\ Answers(<<"define", o, n, v>>, o)
    BY <1>9, Zenon DEF DefineDataProperty
  <2>2. O!Define(o, n, v) /\ answer'.of = <<"define", o, n, v>>
    BY <1>2, <2>1, DefinesIs, AnswersIs DEF O!Define
  <2>3. v = answer'.of[Len(answer'.of)]
    BY <2>2, LastOfFour
  <2>. QED BY <1>2, <2>2, <2>3, ValueNext
<1>10. ASSUME NEW v, SetByVal(o, n, v)
       PROVE  O!Next
  <2>1. Writes(Stored(o, n, v)) /\ Answers(<<"setByVal", o, n, v>>, v)
    BY <1>10, Zenon DEF SetByVal
  <2>2. O!SetByVal(o, n, v) /\ answer'.of = <<"setByVal", o, n, v>>
    BY <1>2, <2>1, DefinesIs, AnswersIs DEF O!SetByVal
  <2>3. v = answer'.of[Len(answer'.of)]
    BY <2>2, LastOfFour
  <2>. QED BY <1>2, <2>2, <2>3, ValueNext
<1>11. ASSUME NEW f \in Getters, OpDefineGetter(o, n, f)
       PROVE  O!Next
  <2>1. Writes(WithAccessor(o, n, f, Half(o, n, "Set"))) /\ Answers(<<"getter", o, n, f>>, o)
    BY <1>11, Zenon DEF OpDefineGetter
  <2>2. /\ f \in Functions /\ f \in Functions \cup {NoFunction}
        /\ Half(o, n, "Set") \in Functions \cup {NoFunction}
    BY <1>2, <1>3, HalfTyped
  <2>3. O!Becomes(o, n, O!Accessor(f, O!Half(o, n, "set")))
    BY <1>2, <2>1, <2>2, AccessorsWritten, HalfIs
  <2>4. O!DefineGetter(o, n, f)
    BY <2>1, <2>3, AnswersIs DEF O!DefineGetter
  <2>. QED BY <1>2, <2>2, <2>4, NamedNext
<1>12. ASSUME NEW f \in Setters, OpDefineSetter(o, n, f)
       PROVE  O!Next
  <2>1. Writes(WithAccessor(o, n, Half(o, n, "Get"), f)) /\ Answers(<<"setter", o, n, f>>, o)
    BY <1>12, Zenon DEF OpDefineSetter
  <2>2. /\ f \in Functions /\ f \in Functions \cup {NoFunction}
        /\ Half(o, n, "Get") \in Functions \cup {NoFunction}
    BY <1>2, <1>3, HalfTyped
  <2>3. O!Becomes(o, n, O!Accessor(O!Half(o, n, "get"), f))
    BY <1>2, <2>1, <2>2, AccessorsWritten, HalfIs
  <2>4. O!DefineSetter(o, n, f)
    BY <2>1, <2>3, AnswersIs DEF O!DefineSetter
  <2>. QED BY <1>2, <2>2, <2>4, NamedNext
<1>13. ASSUME NEW p \in Getters \cup {NoFunction}, NEW q \in Setters \cup {NoFunction},
              DefineAccessorProperty(o, n, p, q)
       PROVE  O!Next
  <2>1. Writes(WithAccessor(o, n, p, q)) /\ Answers(<<"accessor", o, n, p, q>>, o)
    BY <1>13, Zenon DEF DefineAccessorProperty
  <2>2. p \in Functions \cup {NoFunction} /\ q \in Functions \cup {NoFunction}
    BY <1>3
  <2>3. O!DefineAccessor(o, n, p, q)
    BY <1>2, <2>1, <2>2, AccessorsWritten, AnswersIs DEF O!DefineAccessor
  <2>. QED BY <1>2, <2>2, <2>3, NamedNext
<1>. QED BY <1>1, <1>4, <1>5, <1>6, <1>7, <1>8, <1>9, <1>10, <1>11, <1>12, <1>13, Zenon

(* The operations on the structure of objects. *)
LEMMA StructureIs ==
  ASSUME TypeInv, Structure, Conforming(answer'.of)
  PROVE  O!Next
<1>1. TypeOK /\ Apart
  BY ConformingIs DEF TypeInv
<1>2. ASSUME NEW o \in Objects, ObjectEntries(o)
      PROVE  O!Next
  BY <1>1, <1>2, EntriesIs, ObjectNext
<1>3. ASSUME NEW o \in Objects, NEW s \in Objects, ObjectAssign(o, s)
      PROVE  O!Next
  BY <1>1, <1>3, AssignIs, ObjectNext
<1>4. ASSUME NEW o \in Objects, NEW p \in Objects \cup {Nil}, SetPrototypeOf(o, p)
      PROVE  O!Next
  <2>1. O!SetPrototypeOf(o, p)
    BY <1>1, <1>4, SetPrototypeIs
  <2>. QED BY <2>1, ObjectNext
<1>5. ASSUME NEW of, NEW a, NEW v, Allocates(<<a>>), Answers(of, v), of[1] \in {"create", "proxy", "spread"}
      PROVE  O!Next
  BY <1>1, <1>5, MakingIs, OtherNext
<1>6. ASSUME NEW p, ObjectCreate(p)
      PROVE  O!Next
  <2> DEFINE of == <<"create", p>>
  <2>1. of[1] = "create" /\ Answers(of, Next1) /\ \E a : Allocates(<<a>>)
    BY <1>6, Zenon DEF ObjectCreate
  <2> HIDE DEF of
  <2>. QED BY <1>5, <2>1
<1>7. ASSUME NEW t, NEW h, ProxyConstruct(t, h)
      PROVE  O!Next
  <2> DEFINE of == <<"proxy", t, h>>
  <2>1. of[1] = "proxy" /\ Answers(of, Next1) /\ \E a : Allocates(<<a>>)
    BY <1>7, Zenon DEF ProxyConstruct
  <2> HIDE DEF of
  <2>. QED BY <1>5, <2>1
<1>8. ASSUME NEW s, OpObjectSpread(s)
      PROVE  O!Next
  <2> DEFINE of == <<"spread", s>>
  <2>1. of[1] = "spread" /\ Answers(of, Next1) /\ \E a : Allocates(<<a>>)
    BY <1>8, Zenon DEF OpObjectSpread
  <2> HIDE DEF of
  <2>. QED BY <1>5, <2>1
<1>. QED BY <1>2, <1>3, <1>4, <1>6, <1>7, <1>8, Zenon DEF Structure

(* A call is one more. *)
LEMMA CallMore ==
  ASSUME TypeInv, NEW of, NEW fn, NEW this, NEW args, Call(of, fn, this, args)
  PROVE  Len(calls') = Len(calls) + 1
<1> DEFINE c == [of |-> of, fn |-> fn, this |-> this, args |-> args]
<1>1. calls' = Append(calls, c)
  BY DEF Call
<1> HIDE DEF c
<1>2. PICK S : calls \in Seq(S)
  BY DEF TypeInv
<1>3. calls \in Seq(S \cup {c}) /\ c \in S \cup {c}
  BY <1>2
<1>. QED BY <1>1, <1>3, AppendProperties

(* new f(), and Reflect.construct(f). *)
LEMMA ConstructsIs ==
  ASSUME TypeInv, NEW f, NEW op \in {"new", "construct"}, Constructs(op, f)
  PROVE  O!Next
<1> DEFINE of == <<op, f>>
<1>1. /\ \E a, b : heap' = heap \o <<a>> \/ heap' = heap \o <<a, b>>
      /\ \E fn, this, args : Call(of, fn, this, args)
  <2> DEFINE inst == [NewObject EXCEPT !.proto =
                      IF PrototypeOf(f) \in Objects \cup {Next1} THEN PrototypeOf(f) ELSE @]
             fresh == IF Lacks(f) THEN <<NewObject, inst>> ELSE <<inst>>
  <2>1. heap' = heap \o fresh /\ \E this : Call(of, f, this, <<>>)
    BY Zenon DEF Constructs
  <2> HIDE DEF inst
  <2>2. fresh = <<NewObject, inst>> \/ fresh = <<inst>>
    OBVIOUS
  <2> HIDE DEF fresh
  <2>3. heap' = heap \o <<inst>> \/ heap' = heap \o <<NewObject, inst>>
    BY <2>1, <2>2
  <2>. QED BY <2>1, <2>3, Zenon
<1>2. of[1] \in {"new", "construct"}
  OBVIOUS
<1> HIDE DEF of
<1>3. answer'.of = of /\ Len(calls') = Len(calls) + 1
  BY <1>1, CallIs, CallMore
<1>4. Grows
  <2>1. PICK a, b : heap' = heap \o <<a>> \/ heap' = heap \o <<a, b>>
    BY <1>1
  <2>2. <<a>> \in Seq({a, b}) /\ Len(<<a>>) = 1 /\ <<a, b>> \in Seq({a, b}) /\ Len(<<a, b>>) = 2
    OBVIOUS
  <2>3. 1 \in 1..2 /\ 2 \in 1..2
    OBVIOUS
  <2>. QED BY <2>1, <2>2, <2>3, HeapGrows DEF TypeInv
<1>. QED BY <1>2, <1>3, <1>4, BirthIs, OtherNext DEF TypeInv

(* The operations on functions as constructors. *)
LEMMA ConstructionIs ==
  ASSUME TypeInv, Construction
  PROVE  O!Next
<1>1. TypeOK
  BY DEF TypeInv
<1>2. PICK f \in Constructors :
        \/ FunctionGetProp(f) \/ OpNew(f) \/ ReflectConstruct(f)
        \/ \E v \in Prims \cup Objects : FunctionSetProp(f, "prototype", v) \/ OpInstanceof(v, f)
        \/ \E g \in Functions : FunctionSetProp(f, "hasInstance", g)
  BY Zenon DEF Construction
<1>3. CASE FunctionGetProp(f)
  <2> DEFINE of == <<"fget", f>>
  <2>1. of[1] = "fget" /\ Answers(of, PrototypeOf(f))
    BY <1>3, Zenon DEF FunctionGetProp
  <2> HIDE DEF of
  <2>2. CASE Lacks(f)
    <3>1. Allocates(<<NewObject>>)
      BY <1>3, <2>2, Zenon DEF FunctionGetProp
    <3>. QED BY <1>1, <2>1, <3>1, MakingIs, OtherNext
  <2>3. CASE ~ Lacks(f)
    <3>1. heap' = heap
      BY <1>3, <2>3 DEF FunctionGetProp
    <3>. QED BY <2>1, <3>1, SameHeap, AnswersIs, ElsewhereIs, OtherNext
  <2>. QED BY <2>2, <2>3
<1>4. CASE OpNew(f) \/ ReflectConstruct(f)
  BY <1>4, ConstructsIs DEF OpNew, ReflectConstruct
<1>5. ASSUME NEW n, NEW v, FunctionSetProp(f, n, v)
      PROVE  O!Next
  <2> DEFINE of == <<"fset", f, n, v>>
  <2>1. of[1] = "fset" /\ Answers(of, v) /\ heap' = heap
    BY <1>5 DEF FunctionSetProp
  <2> HIDE DEF of
  <2>. QED BY <2>1, SameHeap, AnswersIs, ElsewhereIs, OtherNext
<1>6. ASSUME NEW v, OpInstanceof(v, f)
      PROVE  O!Next
  <2> DEFINE of == <<"instanceof", v, f>>
  <2>1. of[1] = "instanceof"
    OBVIOUS
  <2>2. /\ Reads
        /\ \/ \E fn, this, args : Call(of, fn, this, args)
           \/ \E w : Answers(of, w)
    BY <1>6, Zenon DEF OpInstanceof, Hangs
  <2> HIDE DEF of
  <2>. QED BY <2>1, <2>2, ReadsIs, AnswersIs, CallIs, ElsewhereIs, OtherNext
<1>. QED BY <1>2, <1>3, <1>4, <1>5, <1>6, Zenon

(* The operations on elements. *)
LEMMA ElementOperationsIs ==
  ASSUME TypeInv, Elements
  PROVE  O!Next
<1>1. TypeOK /\ Indices \subseteq Int /\ Numbers \subseteq Int
  BY DispatchAssumption DEF TypeInv
<1>2. ASSUME NEW o \in Objects, NEW i \in Indices, GetByVal(o, i)
      PROVE  O!Next
  <2> DEFINE of == <<"element", o, i>>
  <2>1. of[1] = "element"
    OBVIOUS
  <2>2. Reads /\ \E v : Answers(of, v)
    BY <1>2, Zenon DEF GetByVal, Hangs
  <2> HIDE DEF of
  <2>. QED BY <2>1, <2>2, ReadsIs, AnswersIs, ElsewhereIs, OtherNext
<1>3. ASSUME NEW o \in Objects, NEW i \in Indices, NEW v \in Numbers, SetElement(o, i, v)
      PROVE  O!Next
  <2> DEFINE of == <<"element", o, i, v>>
  <2>1. of[1] = "element"
    OBVIOUS
  <2>2. IsView(o) /\ Writes(IndexedWrite(o, i, v)) /\ Answers(of, v)
    BY <1>3 DEF SetElement
  <2> HIDE DEF of
  <2>3. O!Keeps
    BY <1>1, <2>2, ElementIs
  <2>. QED BY <2>1, <2>2, <2>3, AnswersIs, ElsewhereIs, OtherNext
<1>4. ASSUME NEW o \in Objects, NEW i \in Indices, NEW v \in Numbers, TypedArraySet(o, <<v, 1>>, i)
      PROVE  O!Next
  <2> DEFINE s == <<v, 1>>
             of == <<"elements", o, i, s>>
  <2>1. of[1] = "elements" /\ s \in Seq(Int) /\ i \in Int
    BY <1>1
  <2>2. /\ IsView(o) /\ \E v1 : Answers(of, v1)
        /\ Reads \/ Writes(ElementsSet(o, s, i))
    BY <1>4, Zenon DEF TypedArraySet, ElementsSet, Hangs
  <2> HIDE DEF of, s
  <2>3. O!Keeps
    BY <1>1, <2>1, <2>2, ReadsIs, ElementsIs
  <2>. QED BY <2>1, <2>2, <2>3, AnswersIs, ElsewhereIs, OtherNext
<1>5. ASSUME NEW of, NEW a, NEW b, NEW v, Allocates(<<a>>) \/ Allocates(<<a, b>>), Answers(of, v),
             of[1] \in {"view", "slice"}
      PROVE  O!Next
  BY <1>1, <1>5, MakingIs, OtherNext
<1>6. ASSUME NEW o, NEW i, NEW e, TypedArraySlice(o, i, e)
      PROVE  O!Next
  <2> DEFINE of == <<"slice", o, i, e>>
  <2>1. of[1] = "slice"
    OBVIOUS
  <2>2. (\E a, b : Allocates(<<a, b>>)) /\ \E v : Answers(of, v)
    BY <1>6, Zenon DEF TypedArraySlice
  <2> HIDE DEF of
  <2>. QED BY <1>5, <2>1, <2>2
<1>7. ASSUME NEW kind, NEW m, TypedArrayConstruct(kind, m)
      PROVE  O!Next
  <2> DEFINE of == <<"view", kind, m>>
  <2>1. of[1] = "view"
    OBVIOUS
  <2>2. (\E a, b : Allocates(<<a, b>>)) /\ \E v : Answers(of, v)
    BY <1>7, Zenon DEF TypedArrayConstruct
  <2> HIDE DEF of
  <2>. QED BY <1>5, <2>1, <2>2
<1>8. ASSUME NEW kind, NEW b, NEW offset, ViewOfBuffer(kind, b, offset)
      PROVE  O!Next
  <2> DEFINE of == <<"view", kind, b, offset>>
  <2>1. of[1] = "view"
    OBVIOUS
  <2>2. (\E a : Allocates(<<a>>)) /\ \E v : Answers(of, v)
    BY <1>8, Zenon DEF ViewOfBuffer
  <2> HIDE DEF of
  <2>. QED BY <1>5, <2>1, <2>2
<1>. QED BY <1>2, <1>3, <1>4, <1>6, <1>7, <1>8, Zenon DEF Elements

(* What a call gives an assignment is what was assigned. *)
LEMMA GivesSet ==
  ASSUME NEW c, NEW v, c.of[1] = "set"
  PROVE  Gives(c, v) = c.of[4]
BY DEF Gives

(* Returns, and exceptions. *)
LEMMA ReturnIs ==
  ASSUME (\E v : FunctionReturns(v)) \/ FunctionThrows
  PROVE  O!Next
<1>1. ASSUME NEW v, FunctionReturns(v)
      PROVE  O!Next
  <2>1. /\ calls # <<>> /\ calls' = SubSeq(calls, 1, Len(calls) - 1)
        /\ answer'.of = Top.of /\ answer'.is = Gives(Top, v)
    BY <1>1 DEF FunctionReturns
  <2>2. O!Keeps
    BY <1>1, ReadsIs DEF FunctionReturns
  <2>3. Top.of[1] = "set" => answer'.is = Top.of[4]
    BY <2>1, GivesSet
  <2>4. O!Returns
    BY <2>1, <2>2, <2>3, Zenon DEF O!Returns, Top
  <2>. QED BY <2>4, OtherNext
<1>2. ASSUME FunctionThrows
      PROVE  O!Next
  <2>1. calls # <<>> /\ answer'.of = <<"throw">>
    BY <1>2 DEF FunctionThrows
  <2>2. O!Keeps /\ \E k \in 0..(Len(calls) - 1) : calls' = SubSeq(calls, 1, k)
    BY <1>2, ReadsIs, Zenon DEF FunctionThrows
  <2>3. O!Throws
    BY <2>1, <2>2, Zenon DEF O!Throws
  <2>. QED BY <2>3, OtherNext
<1>. QED BY <1>1, <1>2

(* A step that conforms is one of OrdinaryObjects. *)
LEMMA StepIs ==
  ASSUME TypeInv, Next, Conforming(answer'.of)
  PROVE  O!Next
<1>1. \/ Access \/ Structure \/ Construction \/ Elements
      \/ (\E v : FunctionReturns(v)) \/ FunctionThrows
  BY Zenon DEF Next
<1>. QED BY <1>1, AccessIs, StructureIs, ConstructionIs, ElementOperationsIs, ReturnIs

(* What operations on objects answer, change and call is what OrdinaryObjects
   says, wherever it promises something: for every heap that literals build and
   every program of the operations. *)
THEOREM OrdinaryHolds == Spec => ImplementsOrdinary
<1>1. ObjectsInv /\ [Next]_vars => [Conforming(answer'.of) => O!Next]_vars
  BY StepIs, Zenon DEF ObjectsInv
<1>2. Spec => []ObjectsInv
  BY ObjectsInit, ObjectsNext, PTL DEF Spec
<1>3. Spec => [][Conforming(answer'.of) => O!Next]_vars
  BY <1>1, <1>2, PTL DEF Spec
<1>. QED BY <1>3 DEF ImplementsOrdinary

-----------------------------------------------------------------------------
(* Elements: numbers and their bytes. *)

(* Division with a remainder. *)
LEMMA Division ==
  ASSUME NEW a \in Int, NEW b \in Nat, b >= 1
  PROVE  a = b * (a \div b) + (a % b) /\ a % b \in 0..(b - 1) /\ a \div b \in Int
OBVIOUS

(* A multiple of b that is not zero is at least b away from it. *)
LEMMA Multiples ==
  ASSUME NEW b \in Nat, b >= 1, NEW q \in Int
  PROVE  /\ b * q \in Int
         /\ q >= 1 => b * q >= b
         /\ q <= -1 => b * q <= -b
<1>1. b * q \in Int
  OBVIOUS
<1>2. ASSUME q >= 1 PROVE b * q >= b
  <2>1. PICK k \in Nat : q = k + 1
    BY <1>2
  <2>2. b * k \in Nat /\ b * q = b * k + b
    BY <2>1
  <2>. QED BY <2>2
<1>3. ASSUME q <= -1 PROVE b * q <= -b
  <2>1. PICK k \in Nat : q = -k - 1
    BY <1>3
  <2>2. b * k \in Nat /\ b * q = -(b * k) - b
    BY <2>1
  <2>. QED BY <2>2
<1>. QED BY <1>1, <1>2, <1>3

(* The quotient and the remainder are the only ones. *)
LEMMA DivisionUnique ==
  ASSUME NEW b \in Nat, b >= 1, NEW q \in Int, NEW r \in 0..(b - 1), NEW a, a = b * q + r
  PROVE  a % b = r /\ a \div b = q
<1> DEFINE s == a \div b
           t == a % b
<1>1. a \in Int /\ b * q \in Int
  OBVIOUS
<1>2. a = b * s + t /\ t \in 0..(b - 1) /\ s \in Int
  BY <1>1, Division
<1> HIDE DEF s, t
<1> DEFINE d == q - s
<1>3. d \in Int /\ b * d = t - r
  BY <1>1, <1>2
<1>4. d = 0
  <2>1. ~ (d >= 1) /\ ~ (d <= -1)
    <3>1. d >= 1 => b * d >= b
      BY <1>3, Multiples
    <3>2. d <= -1 => b * d <= -b
      BY <1>3, Multiples
    <3> HIDE DEF d
    <3>. QED BY <1>2, <1>3, <3>1, <3>2
  <2> HIDE DEF d
  <2>. QED BY <1>3, <2>1
<1>5. q = s
  BY <1>2, <1>4
<1>6. t = r
  BY <1>2, <1>5
<1>. QED BY <1>5, <1>6 DEF s, t

(* A multiple leaves no remainder. *)
LEMMA NoRemainder ==
  ASSUME NEW b \in Nat, b >= 1, NEW q \in Int, NEW a, a = b * q
  PROVE  a % b = 0
<1>1. a = b * q + 0 /\ 0 \in 0..(b - 1)
  OBVIOUS
<1>. QED BY <1>1, DivisionUnique

(* A number below the divisor leaves itself. *)
LEMMA OwnRemainder ==
  ASSUME NEW b \in Nat, b >= 1, NEW a \in 0..(b - 1)
  PROVE  a % b = a
<1>1. a = b * 0 + a
  OBVIOUS
<1>. QED BY <1>1, DivisionUnique

(* Multiplication keeps the order. *)
LEMMA Monotone ==
  ASSUME NEW b \in Nat, b >= 1, NEW x \in Int, NEW y \in Int, x >= y
  PROVE  b * x >= b * y /\ b * x \in Int /\ b * y \in Int
<1> DEFINE d == x - y
<1>1. d \in Int /\ d >= 0 /\ b * x = b * y + b * d /\ b * y \in Int /\ b * d \in Int
  OBVIOUS
<1> HIDE DEF d
<1>2. b * d >= 0
  BY <1>1, Multiples
<1>. QED BY <1>1, <1>2

(* What is left of a number below b * c after a division by b is below c. *)
LEMMA QuotientBelow ==
  ASSUME NEW b \in Nat, b >= 1, NEW c \in Nat, NEW a \in Nat, a < b * c
  PROVE  a \div b \in 0..(c - 1)
<1> DEFINE q == a \div b
           r == a % b
<1>1. a = b * q + r /\ r \in 0..(b - 1) /\ q \in Int
  BY Division
<1> HIDE DEF q, r
<1>2. b * q \in Int /\ b * c \in Int
  BY <1>1
<1>3. ~ (q >= c)
  <2>1. q >= c => b * q >= b * c
    BY <1>1, Monotone
  <2>. QED BY <1>1, <1>2, <2>1
<1>4. ~ (q <= -1)
  <2>1. q <= -1 => b * q <= -b
    BY <1>1, Multiples
  <2>. QED BY <1>1, <1>2, <2>1
<1>5. q \in 0..(c - 1)
  BY <1>1, <1>3, <1>4
<1>. QED BY <1>5 DEF q

(* A word is a power of the base, and even. *)
LEMMA WordsAre ==
  /\ Base \in Nat /\ Base >= 2 /\ Words \in Nat /\ Words >= 2
  /\ Words = Base * (Base * (Base * Base))
  /\ Words \div 2 \in Nat /\ Words = 2 * (Words \div 2)
<1>1. Base \in Nat /\ Base >= 2 /\ Base % 2 = 0
  BY BaseAssumption
<1> DEFINE h == Base \div 2
           p == Base * (Base * (Base * h))
           s == Base * Base
           t == Base * s
           w == Base * t
<1>2. h \in Int /\ Base = 2 * h
  BY <1>1, Division
<1>3. h \in Nat /\ h >= 1
  <2> HIDE DEF h
  <2>. QED BY <1>1, <1>2
<1>4. Words = w
  <2>1. \A a, b, c \in Int : (a * b) * c = a * (b * c)
    OBVIOUS
  <2>2. s \in Int /\ t \in Int /\ Base \in Int
    BY <1>1
  <2>3. (Base * Base) * Base = t /\ t * Base = w
    BY <2>1, <2>2
  <2>. QED BY <2>3 DEF Words
<1>5. s \in Nat /\ s >= Base /\ t \in Nat /\ t >= s /\ w \in Nat /\ w >= t
  <2>1. s >= Base * 1 /\ s \in Int
    BY <1>1, Monotone
  <2>2. s \in Nat /\ s >= Base
    BY <1>1, <2>1
  <2> HIDE DEF s
  <2>3. t >= Base * Base /\ t \in Int
    BY <1>1, <2>2, Monotone
  <2>4. t >= s
    BY <2>3 DEF s
  <2>5. t \in Nat /\ t >= s /\ t >= Base
    BY <1>1, <2>2, <2>3, <2>4
  <2> HIDE DEF t
  <2>6. w >= Base * s /\ w \in Int
    BY <1>1, <2>2, <2>5, Monotone
  <2>. QED BY <2>2, <2>5, <2>6 DEF t
<1>6. p \in Int /\ w = 2 * p
  <2>1. \A a, b \in Int : a * b \in Int /\ a * (2 * b) = 2 * (a * b)
    OBVIOUS
  <2>2. Base * Base = 2 * (Base * h) /\ Base * h \in Int
    BY <1>1, <1>2, <2>1
  <2>3. t = 2 * (Base * (Base * h)) /\ Base * (Base * h) \in Int
    BY <1>1, <2>1, <2>2
  <2>. QED BY <1>1, <2>1, <2>3
<1> HIDE DEF h, p, s, t, w
<1>7. w % 2 = 0 /\ w \div 2 = p
  <2>1. w = 2 * p + 0 /\ 0 \in 0..(2 - 1)
    BY <1>6
  <2>. QED BY <1>6, <2>1, DivisionUnique
<1>8. w = Base * (Base * (Base * Base))
  BY DEF s, t, w
<1>. QED BY <1>1, <1>4, <1>5, <1>6, <1>7, <1>8

(* The bytes of a word make it up again. *)
LEMMA OctetsValue ==
  ASSUME NEW u \in 0..(Words - 1)
  PROVE  /\ u = Octets(u)[1] + Base * (Octets(u)[2] + Base * (Octets(u)[3] + Base * Octets(u)[4]))
         /\ Octets(u)[1] = u % Base
<1> DEFINE u1 == u \div Base
           u2 == u1 \div Base
           u3 == u2 \div Base
           b2 == Base * Base
           b3 == Base * b2
<1>1. Base \in Nat /\ Base >= 1 /\ b2 \in Nat /\ b3 \in Nat /\ Words = Base * b3 /\ u \in Nat /\ u < Base * b3
  BY WordsAre
<1>2. Octets(u) = <<u % Base, u1 % Base, u2 % Base, u3 % Base>>
  BY DEF Octets
<1>3. u1 \in 0..(b3 - 1) /\ u = Base * u1 + (u % Base) /\ u % Base \in Int
  <2> HIDE DEF b3
  <2>1. u \div Base \in 0..(b3 - 1)
    BY <1>1, QuotientBelow, Zenon
  <2>2. u \in Int
    BY <1>1
  <2>3. u = Base * (u \div Base) + (u % Base) /\ u % Base \in 0..(Base - 1)
    BY <1>1, <2>2, Division, Zenon
  <2>4. u % Base \in Int
    BY <1>1, <2>3
  <2>. QED BY <2>1, <2>3, <2>4
<1> HIDE DEF u1
<1>4. u1 \in Nat /\ u1 < Base * b2
  <2> HIDE DEF b2
  <2>. QED BY <1>1, <1>3
<1>5. u2 \in 0..(b2 - 1) /\ u1 = Base * u2 + (u1 % Base) /\ u1 % Base \in Int
  <2> HIDE DEF b2, b3
  <2>1. u1 \div Base \in 0..(b2 - 1)
    BY <1>1, <1>4, QuotientBelow, Zenon
  <2>2. u1 \in Int
    BY <1>4
  <2>3. u1 = Base * (u1 \div Base) + (u1 % Base) /\ u1 % Base \in 0..(Base - 1)
    BY <1>1, <2>2, Division, Zenon
  <2>4. u1 % Base \in Int
    BY <1>1, <2>3
  <2>. QED BY <2>1, <2>3, <2>4
<1> HIDE DEF u2
<1>6. u2 \in Nat /\ u2 < Base * Base
  BY <1>1, <1>5
<1>7. u3 \in 0..(Base - 1) /\ u2 = Base * u3 + (u2 % Base) /\ u2 % Base \in Int
  <2>1. u2 \div Base \in 0..(Base - 1)
    BY <1>1, <1>6, QuotientBelow, Zenon
  <2>2. u2 \in Int
    BY <1>6
  <2>3. u2 = Base * (u2 \div Base) + (u2 % Base) /\ u2 % Base \in 0..(Base - 1)
    BY <1>1, <2>2, Division, Zenon
  <2>4. u2 % Base \in Int
    BY <1>1, <2>3
  <2>. QED BY <2>1, <2>3, <2>4
<1> HIDE DEF u3
<1>8. u3 % Base = u3
  BY <1>1, <1>7, OwnRemainder, Zenon
<1> HIDE DEF b2, b3
<1> DEFINE d0 == u % Base
           d1 == u1 % Base
           d2 == u2 % Base
<1>9. Octets(u) = <<d0, d1, d2, u3>>
  BY <1>2, <1>8
<1>10. /\ u = Base * u1 + d0 /\ u1 = Base * u2 + d1 /\ u2 = Base * u3 + d2
       /\ d0 \in Int /\ d1 \in Int /\ d2 \in Int
  BY <1>3, <1>5, <1>7
<1>11. d0 = u % Base
  OBVIOUS
<1> HIDE DEF d0, d1, d2
<1>12. Octets(u)[1] = d0 /\ Octets(u)[2] = d1 /\ Octets(u)[3] = d2 /\ Octets(u)[4] = u3
  BY <1>9
<1>13. u2 = d2 + Base * u3 /\ u1 = d1 + Base * u2 /\ u = d0 + Base * u1
  BY <1>1, <1>3, <1>5, <1>7, <1>10
<1>. QED BY <1>11, <1>12, <1>13

(* A congruent number in the range of words with a sign is the only one. *)
LEMMA SignedUnique ==
  ASSUME NEW y \in (-(Words \div 2))..(Words \div 2 - 1), NEW z \in (-(Words \div 2))..(Words \div 2 - 1),
         NEW v \in Int, (v - y) % Words = 0, (v - z) % Words = 0
  PROVE  y = z
<1> DEFINE w == Words
           h == Words \div 2
           p == (v - y) \div w
           q == (v - z) \div w
           d == q - p
<1>1. w \in Nat /\ w >= 1 /\ h \in Nat /\ w = 2 * h /\ y \in (-h)..(h - 1) /\ z \in (-h)..(h - 1)
  BY WordsAre
<1>2. (v - y) % w = 0 /\ (v - z) % w = 0
  OBVIOUS
<1> HIDE DEF w, h
<1>3. v - y = w * p /\ p \in Int
  <2>1. v - y \in Int
    BY <1>1
  <2>2. v - y = w * p + ((v - y) % w) /\ p \in Int
    BY <1>1, <2>1, Division, Zenon
  <2> HIDE DEF p
  <2>. QED BY <1>1, <1>2, <2>2
<1>4. v - z = w * q /\ q \in Int
  <2>1. v - z \in Int
    BY <1>1
  <2>2. v - z = w * q + ((v - z) % w) /\ q \in Int
    BY <1>1, <2>1, Division, Zenon
  <2> HIDE DEF q
  <2>. QED BY <1>1, <1>2, <2>2
<1> HIDE DEF p, q
<1>5. d \in Int /\ w * d = y - z /\ w * d \in Int
  BY <1>1, <1>3, <1>4
<1>6. ~ (d >= 1) /\ ~ (d <= -1)
  <2>1. (d >= 1 => w * d >= w) /\ (d <= -1 => w * d <= -w)
    BY <1>1, <1>5, Multiples
  <2> HIDE DEF d
  <2>. QED BY <1>1, <1>5, <2>1
<1>7. d = 0
  <2> HIDE DEF d
  <2>. QED BY <1>5, <1>6
<1>8. w * d = 0
  BY <1>1, <1>7
<1>. QED BY <1>1, <1>5, <1>8

(* int32(uint32(v)) is v wrapped to the width. *)
LEMMA Int32Wraps ==
  ASSUME NEW v \in Int
  PROVE  Int32(v % Words) = Wrapped("Int32", v)
<1> DEFINE w == Words
           h == Words \div 2
           u == v % w
           q == v \div w
           z == IF u >= h THEN u - w ELSE u
<1>1. w \in Nat /\ w >= 1 /\ h \in Nat /\ w = 2 * h
  BY WordsAre
<1>2. Int32(v % Words) = z
  BY DEF Int32
<1> HIDE DEF w, h
<1>3. v = w * q + u /\ u \in 0..(w - 1) /\ q \in Int /\ w * q \in Int
  <2>1. v = w * q + u /\ u \in 0..(w - 1) /\ q \in Int
    BY <1>1, Division, Zenon
  <2> HIDE DEF u, q
  <2>. QED BY <1>1, <2>1
<1> HIDE DEF u, q
<1>4. z \in (-h)..(h - 1)
  BY <1>1, <1>3
<1>5. (v - z) % w = 0
  <2>1. CASE u >= h
    <3>1. v - z = w * (q + 1) /\ q + 1 \in Int
      BY <1>1, <1>3, <2>1
    <3> HIDE DEF z
    <3>. QED BY <1>1, <3>1, NoRemainder, Zenon
  <2>2. CASE ~ (u >= h)
    <3>1. v - z = w * q
      BY <1>1, <1>3, <2>2
    <3> HIDE DEF z
    <3>. QED BY <1>1, <1>3, <3>1, NoRemainder, Zenon
  <2>. QED BY <2>1, <2>2
<1> HIDE DEF z
<1>6. z \in (-(Words \div 2))..(Words \div 2 - 1) /\ (v - z) % Words = 0
  BY <1>4, <1>5 DEF w, h
<1> DEFINE c == CHOOSE y \in (-(Words \div 2))..(Words \div 2 - 1) : (v - y) % Words = 0
<1>7. c \in (-(Words \div 2))..(Words \div 2 - 1) /\ (v - c) % Words = 0
  BY <1>6, Zenon
<1>8. Wrapped("Int32", v) = c
  BY DEF Wrapped
<1> HIDE DEF c
<1>9. c = z
  BY <1>6, <1>7, SignedUnique
<1>. QED BY <1>2, <1>8, <1>9

(* uint8(uint32(v)) is v modulo the base. *)
LEMMA Uint8Wraps ==
  ASSUME NEW v \in Int
  PROVE  (v % Words) % Base = v % Base
<1> DEFINE b3 == Base * (Base * Base)
           w == Base * b3
           u == v % w
           q == v \div w
           r == u % Base
           s == u \div Base
<1>1. w = Words /\ w \in Nat /\ w >= 1 /\ b3 \in Nat /\ Base \in Nat /\ Base >= 1
  BY WordsAre
<1> HIDE DEF b3
<1>2. v = w * q + u /\ u \in Int /\ q \in Int
  <2> HIDE DEF w
  <2>. QED BY <1>1, Division
<1> HIDE DEF u, q
<1>3. u = Base * s + r /\ r \in 0..(Base - 1) /\ s \in Int
  BY <1>1, <1>2, Division
<1> HIDE DEF s, r
<1>4. v = Base * (b3 * q + s) + r /\ b3 * q + s \in Int
  BY <1>1, <1>2, <1>3
<1>5. v % Base = r
  BY <1>1, <1>3, <1>4, DivisionUnique
<1>6. u = v % Words
  BY <1>1 DEF u
<1>. QED BY <1>5, <1>6 DEF r

(* A byte after a write: of the number in the element, what it was outside. *)
LEMMA ByteWritten ==
  ASSUME NEW bytes \in Seq(Bytes), NEW kind \in Kinds, NEW i \in Int, NEW v \in Int,
         Fits(bytes, kind, i), NEW b \in 1..Len(bytes)
  PROVE  WriteElem(bytes, kind, i, v)[b] =
           IF b - 1 - BytesPerElem(kind) * i \in 0..(BytesPerElem(kind) - 1)
             THEN Octets(ToUint32JS(v))[b - 1 - BytesPerElem(kind) * i + 1] ELSE bytes[b]
<1> DEFINE f == [c \in DOMAIN bytes |->
                   LET k == c - 1 - BytesPerElem(kind) * i
                   IN IF k \in 0..(BytesPerElem(kind) - 1) THEN Octets(ToUint32JS(v))[k + 1] ELSE bytes[c]]
<1>1. WriteElem(bytes, kind, i, v) = f
  BY DEF WriteElem
<1>2. b \in DOMAIN bytes
  OBVIOUS
<1>. QED BY <1>1, <1>2

(* What is written is read, wrapped to the width of the element. *)
LEMMA ReadsBack ==
  ASSUME NEW bytes \in Seq(Bytes), NEW kind \in Kinds, NEW i \in Int, NEW v \in Int,
         Fits(bytes, kind, i)
  PROVE  ReadElem(WriteElem(bytes, kind, i, v), kind, i) = Wrapped(kind, v)
<1> DEFINE new == WriteElem(bytes, kind, i, v)
           u == v % Words
           s == Octets(u)
           n == Len(bytes)
<1>1. Len(new) = n /\ n \in Nat
  BY WriteElemBytes
<1>2. Fits(new, kind, i)
  <2> HIDE DEF new
  <2>. QED BY <1>1 DEF Fits
<1>3. \A b \in 1..n : new[b] = IF b - 1 - BytesPerElem(kind) * i \in 0..(BytesPerElem(kind) - 1)
                                 THEN s[b - 1 - BytesPerElem(kind) * i + 1] ELSE bytes[b]
  BY ByteWritten DEF ToUint32JS
<1>4. u \in 0..(Words - 1)
  <2>1. Words \in Nat /\ Words >= 1
    BY WordsAre
  <2>. QED BY <2>1, Division, Zenon
<1>5. /\ u = s[1] + Base * (s[2] + Base * (s[3] + Base * s[4])) /\ s[1] = u % Base
  BY <1>4, OctetsValue
<1>6. Int32(u) = Wrapped("Int32", v) /\ u % Base = v % Base
  BY Int32Wraps, Uint8Wraps
<1> HIDE DEF new, s, u, n
<1>7. ASSUME kind = "Uint8"
      PROVE  ReadElem(new, kind, i) = Wrapped(kind, v)
  <2>1. BytesPerElem(kind) = 1
    BY <1>7 DEF BytesPerElem
  <2>2. i >= 0 /\ i + 1 <= n
    BY <2>1 DEF Fits, n
  <2>3. i + 1 \in 1..n /\ i + 1 - 1 - 1 * i = 0 /\ i + 1 - 1 - 1 * i + 1 = 1
    BY <1>1, <2>2
  <2>4. new[i + 1] = s[1]
    BY <1>3, <2>1, <2>3
  <2>5. ReadElem(new, kind, i) = new[i + 1]
    BY <1>2, <1>7 DEF ReadElem
  <2>6. Wrapped(kind, v) = v % Base
    BY <1>7 DEF Wrapped
  <2>. QED BY <1>5, <1>6, <2>4, <2>5, <2>6
<1>8. ASSUME kind = "Int32"
      PROVE  ReadElem(new, kind, i) = Wrapped(kind, v)
  <2>1. BytesPerElem(kind) = 4
    BY <1>8 DEF BytesPerElem
  <2>2. i >= 0 /\ 4 * i + 4 <= n
    BY <2>1 DEF Fits, n
  <2>3. ASSUME NEW k \in 1..4
        PROVE  new[4 * i + k] = s[k]
    <3>1. 4 * i + k \in 1..n /\ 4 * i + k - 1 - 4 * i \in 0..(4 - 1) /\ 4 * i + k - 1 - 4 * i + 1 = k
      BY <1>1, <2>2
    <3>. QED BY <1>3, <2>1, <3>1
  <2>4. new[4 * i + 1] = s[1] /\ new[4 * i + 2] = s[2] /\ new[4 * i + 3] = s[3] /\ new[4 * i + 4] = s[4]
    BY <2>3
  <2>5. ReadElem(new, kind, i) = Int32(new[4 * i + 1] + Base * (new[4 * i + 2]
                                   + Base * (new[4 * i + 3] + Base * new[4 * i + 4])))
    BY <1>2, <1>8 DEF ReadElem
  <2>6. ReadElem(new, kind, i) = Int32(u)
    BY <1>5, <2>4, <2>5
  <2>. QED BY <1>6, <1>8, <2>6
<1>9. kind = "Uint8" \/ kind = "Int32"
  BY DEF Kinds
<1>. QED BY <1>7, <1>8, <1>9 DEF new

(* The bytes of two elements of one buffer are not the same. *)
Disjoint(kind, i, other, j) ==
  \A k \in 0..(BytesPerElem(kind) - 1), m \in 0..(BytesPerElem(other) - 1) :
    BytesPerElem(kind) * i + k # BytesPerElem(other) * j + m

(* An element on other bytes reads what it did. *)
LEMMA ReadsElsewhere ==
  ASSUME NEW bytes \in Seq(Bytes), NEW kind \in Kinds, NEW i \in Int, NEW v \in Int,
         NEW other \in Kinds, NEW j \in Int, Disjoint(kind, i, other, j)
  PROVE  ReadElem(WriteElem(bytes, kind, i, v), other, j) = ReadElem(bytes, other, j)
<1> DEFINE new == WriteElem(bytes, kind, i, v)
           n == Len(bytes)
           w == BytesPerElem(kind)
           x == BytesPerElem(other)
<1>1. Len(new) = n /\ n \in Nat
  BY WriteElemBytes
<1>2. w \in {1, 4} /\ x \in {1, 4}
  BY Widths
<1>3. Fits(new, other, j) <=> Fits(bytes, other, j)
  <2> HIDE DEF new
  <2>. QED BY <1>1 DEF Fits
<1>4. CASE ~ Fits(bytes, kind, i)
  BY <1>4 DEF WriteElem
<1>5. CASE ~ Fits(bytes, other, j)
  BY <1>3, <1>5 DEF ReadElem
<1>6. CASE Fits(bytes, kind, i) /\ Fits(bytes, other, j)
  <2>1. \A b \in 1..n : ~ (b - 1 - w * i \in 0..(w - 1)) => new[b] = bytes[b]
    BY <1>6, ByteWritten
  <2>2. \A k \in 0..(w - 1), m \in 0..(x - 1) : w * i + k # x * j + m
    BY DEF Disjoint
  <2>3. j >= 0 /\ x * j + x <= n
    BY <1>6 DEF Fits
  <2>4. w * i \in Int /\ x * j \in Int /\ x * j >= 0
    BY <1>2, <2>3
  <2> HIDE DEF new, n, w, x
  <2>5. ASSUME NEW m \in 0..(x - 1)
        PROVE  new[x * j + m + 1] = bytes[x * j + m + 1]
    <3> DEFINE b == x * j + m + 1
    <3>1. b \in 1..n
      BY <1>1, <1>2, <2>3, <2>4
    <3>2. ~ (b - 1 - w * i \in 0..(w - 1))
      <4> SUFFICES ASSUME b - 1 - w * i \in 0..(w - 1)
                   PROVE  FALSE
        OBVIOUS
      <4>1. w * i + (b - 1 - w * i) = x * j + m
        BY <1>2, <2>4
      <4> HIDE DEF b
      <4>. QED BY <2>2, <4>1
    <3> HIDE DEF b
    <3>3. new[b] = bytes[b]
      BY <2>1, <3>1, <3>2
    <3>. QED BY <3>3 DEF b
  <2>6. CASE other = "Uint8"
    <3>1. x = 1
      BY <2>6 DEF x, BytesPerElem
    <3>2. 0 \in 0..(x - 1) /\ 1 * j + 0 + 1 = j + 1
      BY <3>1
    <3>3. new[j + 1] = bytes[j + 1]
      BY <2>5, <3>1, <3>2
    <3>. QED BY <1>3, <1>6, <2>6, <3>3 DEF ReadElem, new
  <2>7. CASE other = "Int32"
    <3>1. x = 4
      BY <2>7 DEF x, BytesPerElem
    <3>2. \A m \in 0..3 : new[4 * j + m + 1] = bytes[4 * j + m + 1]
      BY <2>5, <3>1
    <3>3. /\ 4 * j + 0 + 1 = 4 * j + 1 /\ 4 * j + 1 + 1 = 4 * j + 2
          /\ 4 * j + 2 + 1 = 4 * j + 3 /\ 4 * j + 3 + 1 = 4 * j + 4
      OBVIOUS
    <3>4. /\ new[4 * j + 1] = bytes[4 * j + 1] /\ new[4 * j + 2] = bytes[4 * j + 2]
          /\ new[4 * j + 3] = bytes[4 * j + 3] /\ new[4 * j + 4] = bytes[4 * j + 4]
      BY <3>2, <3>3
    <3>. QED BY <1>3, <1>6, <2>7, <3>4 DEF ReadElem, new
  <2>8. other = "Uint8" \/ other = "Int32"
    BY DEF Kinds
  <2>. QED BY <2>6, <2>7, <2>8
<1>. QED BY <1>4, <1>5, <1>6

-----------------------------------------------------------------------------
(* Elements: places in buffers, and the write of one. *)

(* A whole number of elements lies before those of an aligned view. *)
LEMMA SlotPlace ==
  ASSUME NEW view, IsViewRecord(view), Aligned(view), NEW i \in Int
  PROVE  /\ BytesPerElem(view.kind) * Slot(view, i) = view.offset + BytesPerElem(view.kind) * i
         /\ Slot(view, i) \in Int
<1> DEFINE w == BytesPerElem(view.kind)
           d == view.offset \div w
<1>1. w \in {1, 4} /\ view.offset \in Nat /\ view.offset % w = 0
  BY Widths DEF IsViewRecord, Aligned
<1>2. Slot(view, i) = i + d
  BY DEF Slot
<1> HIDE DEF w
<1>3. w \in Nat /\ w >= 1 /\ view.offset \in Int
  BY <1>1
<1>4. view.offset = w * d + (view.offset % w) /\ d \in Int
  BY <1>3, Division, Zenon
<1> HIDE DEF d
<1>5. w * (i + d) = view.offset + w * i /\ i + d \in Int
  BY <1>1, <1>4
<1>. QED BY <1>2, <1>5 DEF w

(* The elements in a view that lies in bytes, and is aligned, fit in them. *)
LEMMA InViewFits ==
  ASSUME NEW bytes \in Seq(Bytes), NEW view, IsViewRecord(view), Aligned(view), Lies(view, bytes),
         NEW i \in Int, InView(view, i)
  PROVE  Fits(bytes, view.kind, Slot(view, i))
<1> DEFINE w == BytesPerElem(view.kind)
           s == Slot(view, i)
           n == Len(bytes)
<1>1. /\ w \in {1, 4} /\ view.offset \in Nat /\ view.length \in Int /\ n \in Nat
      /\ view.offset + w * view.length <= n /\ i >= 0 /\ i < view.length
  BY Widths DEF IsViewRecord, Lies, InView
<1>2. w * s = view.offset + w * i /\ s \in Int
  BY SlotPlace
<1> HIDE DEF w, s, n
<1>3. w * s + w <= n
  BY <1>1, <1>2
<1>4. s >= 0
  BY <1>1, <1>2
<1>. QED BY <1>3, <1>4 DEF Fits, w, s, n

(* Elements that lie on other bytes of one buffer, by their places. *)
LEMMA PlacesDisjoint ==
  ASSUME TypeOK, NEW o \in Objects, IsView(o), Aligned(heap[o].view), NEW i \in Int,
         NEW p \in Objects, IsView(p), Aligned(heap[p].view), NEW j \in Int,
         heap[p].view.buffer = heap[o].view.buffer, BytesUnder(p, j) \cap BytesUnder(o, i) = {}
  PROVE  Disjoint(heap[o].view.kind, Slot(heap[o].view, i), heap[p].view.kind, Slot(heap[p].view, j))
<1> DEFINE a == heap[o].view
           b == heap[p].view
           w == BytesPerElem(a.kind)
           x == BytesPerElem(b.kind)
<1>1. IsViewRecord(a) /\ IsViewRecord(b)
  BY ViewOver
<1>2. w * Slot(a, i) = a.offset + w * i /\ x * Slot(b, j) = b.offset + x * j
  BY <1>1, SlotPlace
<1>3. ASSUME NEW k \in 0..(w - 1), NEW m \in 0..(x - 1), a.offset + w * i + k = b.offset + x * j + m
      PROVE  FALSE
  <2> DEFINE e == <<a.buffer, a.offset + w * i + k>>
  <2>1. e \in BytesUnder(o, i)
    BY DEF BytesUnder
  <2>2. e = <<b.buffer, b.offset + x * j + m>>
    BY <1>3
  <2> HIDE DEF e
  <2>3. e \in BytesUnder(p, j)
    BY <2>2 DEF BytesUnder
  <2>. QED BY <2>1, <2>3
<1> HIDE DEF a, b, w, x
<1>4. \A k \in 0..(w - 1), m \in 0..(x - 1) : w * Slot(a, i) + k # x * Slot(b, j) + m
  BY <1>2, <1>3
<1>. QED BY <1>4 DEF Disjoint, a, b, w, x

(* The bytes of one buffer are replaced, and nothing else. *)
LEMMA BuffersWritten ==
  ASSUME TypeOK, NEW b \in Objects, NEW bytes, heap' = [heap EXCEPT ![b].bytes = bytes]
  PROVE  /\ \A p \in Objects : heap'[p].view = heap[p].view
         /\ \A p \in Objects : heap'[p].bytes = IF p = b THEN bytes ELSE heap[p].bytes
<1>1. DOMAIN heap = Objects /\ \A p \in Objects : Fields(heap[p], Len(heap))
  BY Addresses DEF Objects
<1>2. \A p \in Objects : heap'[p] = IF p = b THEN [heap[p] EXCEPT !.bytes = bytes] ELSE heap[p]
  BY <1>1
<1>3. ASSUME NEW p \in Objects
      PROVE  /\ heap'[p].view = heap[p].view
             /\ heap'[p].bytes = IF p = b THEN bytes ELSE heap[p].bytes
  <2> DEFINE r == heap[p]
             q == [r EXCEPT !.bytes = bytes]
  <2>1. q.bytes = bytes /\ q.view = r.view
    BY <1>1 DEF Fields
  <2>2. heap'[p] = IF p = b THEN q ELSE r
    BY <1>2
  <2> HIDE DEF q
  <2>. QED BY <2>1, <2>2
<1>. QED BY <1>3

(* What is read where. *)
LEMMA ElementReads ==
  ASSUME NEW o, NEW i
  PROVE  /\ ElementOf(o, i) =
              ReadElem(heap[heap[o].view.buffer].bytes, heap[o].view.kind, Slot(heap[o].view, i))
         /\ ElementOf(o, i)' =
              ReadElem(heap'[heap'[o].view.buffer].bytes, heap'[o].view.kind, Slot(heap'[o].view, i))
BY DEF ElementOf, BytesOf

(* The number is there, and elements on other bytes are as they were. *)
ReadBack(o, i, v) ==
  /\ ElementOf(o, i)' = Wrapped(heap[o].view.kind, v)
  /\ \A p \in Objects, j \in Int :
       IsView(p) /\ BytesUnder(p, j) \cap BytesUnder(o, i) = {} /\ Aligned(heap[p].view)
         => ElementOf(p, j)' = ElementOf(p, j)

(* An element that is written reads back, and no element on other bytes changes. *)
LEMMA ElementWritten ==
  ASSUME TypeOK, NEW o \in Objects, IsView(o), NEW i \in Int, NEW v \in Int,
         Writes(IndexedWrite(o, i, v)), InView(heap[o].view, i), Aligned(heap[o].view)
  PROVE  ReadBack(o, i, v)
<1> DEFINE view == heap[o].view
           b == view.buffer
           old == heap[b].bytes
           s == Slot(view, i)
           new == WriteElem(old, view.kind, s, v)
<1>1. /\ IsViewRecord(view) /\ b \in Objects /\ old \in Seq(Bytes) /\ Lies(view, old)
      /\ view.kind \in Kinds
  BY ViewOver, Addresses DEF IsViewRecord
<1>2. heap' = [heap EXCEPT ![b].bytes = new]
  BY DEF Writes, IndexedWrite
<1>3. s \in Int /\ Fits(old, view.kind, s)
  BY <1>1, SlotPlace, InViewFits
<1>4. ReadElem(new, view.kind, s) = Wrapped(view.kind, v)
  <2> HIDE DEF view, old, s
  <2>. QED BY <1>1, <1>3, ReadsBack
<1>5. \A p \in Objects : heap'[p].view = heap[p].view
  <2> HIDE DEF b, new
  <2>. QED BY <1>1, <1>2, BuffersWritten
<1>6. \A p \in Objects : heap'[p].bytes = IF p = b THEN new ELSE heap[p].bytes
  <2> HIDE DEF b, new
  <2>. QED BY <1>1, <1>2, BuffersWritten
<1>7. ElementOf(o, i)' = Wrapped(view.kind, v)
  <2>1. ElementOf(o, i)' = ReadElem(heap'[b].bytes, view.kind, s)
    BY <1>5, ElementReads
  <2>2. heap'[b].bytes = new
    BY <1>1, <1>6
  <2>. QED BY <1>4, <2>1, <2>2
<1>8. ASSUME NEW p \in Objects, NEW j \in Int, IsView(p), BytesUnder(p, j) \cap BytesUnder(o, i) = {},
             Aligned(heap[p].view)
      PROVE  ElementOf(p, j)' = ElementOf(p, j)
  <2> DEFINE other == heap[p].view
             c == other.buffer
             t == Slot(other, j)
  <2>1. IsViewRecord(other) /\ c \in Objects /\ other.kind \in Kinds
    BY <1>8, ViewOver, Addresses DEF IsViewRecord
  <2>2. t \in Int
    BY <1>8, <2>1, SlotPlace
  <2>3. ElementOf(p, j) = ReadElem(heap[c].bytes, other.kind, t)
    BY ElementReads
  <2>4. ElementOf(p, j)' = ReadElem(heap'[c].bytes, other.kind, t)
    BY <1>5, <1>8, ElementReads
  <2>5. CASE c # b
    BY <1>6, <2>1, <2>3, <2>4, <2>5
  <2>6. CASE c = b
    <3>1. Disjoint(view.kind, s, other.kind, t)
      BY <1>8, <2>6, PlacesDisjoint
    <3>2. ReadElem(new, other.kind, t) = ReadElem(old, other.kind, t)
      <4> HIDE DEF view, old, s, other, t
      <4>. QED BY <1>1, <1>3, <2>1, <2>2, <3>1, ReadsElsewhere
    <3>3. heap'[c].bytes = new /\ heap[c].bytes = old
      BY <1>1, <1>6, <2>6
    <3>. QED BY <2>3, <2>4, <3>2, <3>3
  <2>. QED BY <2>5, <2>6
<1>. QED BY <1>7, <1>8 DEF ReadBack

(* An operation answers, or calls. *)
Says(of) == (\E v : Answers(of, v)) \/ \E fn, this, args : Call(of, fn, this, args)

(* A step that is not the write of an element. *)
NoElement == \A o, i, v : answer'.of # <<"element", o, i, v>>

(* It is the last one then. *)
LEMMA SaysIs ==
  ASSUME NEW of, Says(of)
  PROVE  answer'.of = of
BY AnswersIs, CallIs, Zenon DEF Says

(* Operations have different names. *)
LEMMA SaysOther ==
  ASSUME NEW of, Says(of), of[1] # "element"
  PROVE  NoElement
<1>1. answer'.of = of
  BY SaysIs
<1>2. \A o, i, v : <<"element", o, i, v>>[1] = "element"
  OBVIOUS
<1>. QED BY <1>1, <1>2, Zenon DEF NoElement

(* Reads in brackets. *)
LEMMA GetByValOther ==
  ASSUME NEW o, NEW k, GetByVal(o, k)
  PROVE  NoElement
<1> DEFINE of == IF k \in Indices THEN <<"element", o, k>> ELSE <<"getByVal", o, k>>
<1>1. Len(of) = 3 /\ \A p, i, v : Len(<<"element", p, i, v>>) = 4
  OBVIOUS
<1> DEFINE four(p, i, v) == <<"element", p, i, v>>
<1>2. \E v : Answers(of, v)
  <2> HIDE DEF four
  <2>. QED BY Zenon DEF GetByVal, Hangs
<1> HIDE DEF of
<1>3. answer'.of = of
  BY <1>2, AnswersIs, Zenon
<1>4. \A p, i, v : Len(four(p, i, v)) # Len(of)
  BY <1>1
<1> HIDE DEF four
<1>5. \A p, i, v : of # four(p, i, v)
  BY <1>4, Zenon
<1>. QED BY <1>3, <1>5, Zenon DEF NoElement, four

(* Operations on properties are none on elements. *)
LEMMA AccessOther ==
  ASSUME Access
  PROVE  NoElement
<1>1. PICK o \in Objects, n \in PlainNames :
        \/ OpGetProp(o, n) \/ OpDeleteProp(o, n) \/ OpIn(o, n) \/ GetByVal(o, n)
        \/ \E v \in Values : OpSetProp(o, n, v) \/ DefineDataProperty(o, n, v) \/ SetByVal(o, n, v)
        \/ \E f \in Getters : OpDefineGetter(o, n, f)
        \/ \E f \in Setters : OpDefineSetter(o, n, f)
        \/ \E p \in Getters \cup {NoFunction}, q \in Setters \cup {NoFunction} :
             DefineAccessorProperty(o, n, p, q)
  BY Zenon DEF Access
<1>2. ASSUME OpGetProp(o, n)
      PROVE  NoElement
  <2> DEFINE of == <<"get", o, n>>
  <2>1. of[1] # "element"
    OBVIOUS
  <2>2. Says(of)
    BY <1>2, Zenon DEF OpGetProp, Resolve, Hangs, Says
  <2> HIDE DEF of
  <2>. QED BY <2>1, <2>2, SaysOther
<1>3. ASSUME OpDeleteProp(o, n)
      PROVE  NoElement
  <2> DEFINE of == <<"delete", o, n>>
  <2>1. of[1] # "element"
    OBVIOUS
  <2>2. Says(of)
    BY <1>3, Zenon DEF OpDeleteProp, Says
  <2> HIDE DEF of
  <2>. QED BY <2>1, <2>2, SaysOther
<1>4. ASSUME OpIn(o, n)
      PROVE  NoElement
  <2> DEFINE of == <<"in", o, n>>
  <2>1. of[1] # "element"
    OBVIOUS
  <2>2. Says(of)
    BY <1>4, Zenon DEF OpIn, Says
  <2> HIDE DEF of
  <2>. QED BY <2>1, <2>2, SaysOther
<1>5. ASSUME NEW v, OpSetProp(o, n, v)
      PROVE  NoElement
  <2> DEFINE of == <<"set", o, n, v>>
  <2>1. of[1] # "element"
    OBVIOUS
  <2>2. Says(of)
    BY <1>5, Zenon DEF OpSetProp, Hangs, Says
  <2> HIDE DEF of
  <2>. QED BY <2>1, <2>2, SaysOther
<1>6. ASSUME NEW v, DefineDataProperty(o, n, v)
      PROVE  NoElement
  <2> DEFINE of == <<"define", o, n, v>>
  <2>1. of[1] # "element"
    OBVIOUS
  <2>2. Says(of)
    BY <1>6, Zenon DEF DefineDataProperty, Says
  <2> HIDE DEF of
  <2>. QED BY <2>1, <2>2, SaysOther
<1>7. ASSUME NEW v, SetByVal(o, n, v)
      PROVE  NoElement
  <2> DEFINE of == <<"setByVal", o, n, v>>
  <2>1. of[1] # "element"
    OBVIOUS
  <2>2. Says(of)
    BY <1>7, Zenon DEF SetByVal, Says
  <2> HIDE DEF of
  <2>. QED BY <2>1, <2>2, SaysOther
<1>8. ASSUME NEW f, OpDefineGetter(o, n, f)
      PROVE  NoElement
  <2> DEFINE of == <<"getter", o, n, f>>
  <2>1. of[1] # "element"
    OBVIOUS
  <2>2. Says(of)
    BY <1>8, Zenon DEF OpDefineGetter, Says
  <2> HIDE DEF of
  <2>. QED BY <2>1, <2>2, SaysOther
<1>9. ASSUME NEW f, OpDefineSetter(o, n, f)
      PROVE  NoElement
  <2> DEFINE of == <<"setter", o, n, f>>
  <2>1. of[1] # "element"
    OBVIOUS
  <2>2. Says(of)
    BY <1>9, Zenon DEF OpDefineSetter, Says
  <2> HIDE DEF of
  <2>. QED BY <2>1, <2>2, SaysOther
<1>10. ASSUME NEW p, NEW q, DefineAccessorProperty(o, n, p, q)
       PROVE  NoElement
  <2> DEFINE of == <<"accessor", o, n, p, q>>
  <2>1. of[1] # "element"
    OBVIOUS
  <2>2. Says(of)
    BY <1>10, Zenon DEF DefineAccessorProperty, Says
  <2> HIDE DEF of
  <2>. QED BY <2>1, <2>2, SaysOther
<1>. QED BY <1>1, <1>2, <1>3, <1>4, <1>5, <1>6, <1>7, <1>8, <1>9, <1>10, GetByValOther, Zenon

(* Nor those on the structure of objects. *)
LEMMA StructureOther ==
  ASSUME Structure
  PROVE  NoElement
<1>1. ASSUME NEW o, ObjectEntries(o)
      PROVE  NoElement
  <2> DEFINE of == <<"entries", o>>
  <2>1. of[1] # "element"
    OBVIOUS
  <2>2. Says(of)
    BY <1>1, Zenon DEF ObjectEntries, Says
  <2> HIDE DEF of
  <2>. QED BY <2>1, <2>2, SaysOther
<1>2. ASSUME NEW o, NEW s, ObjectAssign(o, s)
      PROVE  NoElement
  <2> DEFINE of == <<"assign", o, s>>
  <2>1. of[1] # "element"
    OBVIOUS
  <2>2. Says(of)
    BY <1>2, Zenon DEF ObjectAssign, Says
  <2> HIDE DEF of
  <2>. QED BY <2>1, <2>2, SaysOther
<1>3. ASSUME NEW o, NEW s, ProxyConstruct(o, s)
      PROVE  NoElement
  <2> DEFINE of == <<"proxy", o, s>>
  <2>1. of[1] # "element"
    OBVIOUS
  <2>2. Says(of)
    BY <1>3, Zenon DEF ProxyConstruct, Says
  <2> HIDE DEF of
  <2>. QED BY <2>1, <2>2, SaysOther
<1>4. ASSUME NEW o, NEW p, SetPrototypeOf(o, p)
      PROVE  NoElement
  <2> DEFINE of == <<"setProto", o, p>>
  <2>1. of[1] # "element"
    OBVIOUS
  <2>2. Says(of)
    BY <1>4, Zenon DEF SetPrototypeOf, Says
  <2> HIDE DEF of
  <2>. QED BY <2>1, <2>2, SaysOther
<1>5. ASSUME NEW p, ObjectCreate(p)
      PROVE  NoElement
  <2> DEFINE of == <<"create", p>>
  <2>1. of[1] # "element"
    OBVIOUS
  <2>2. Says(of)
    BY <1>5, Zenon DEF ObjectCreate, Says
  <2> HIDE DEF of
  <2>. QED BY <2>1, <2>2, SaysOther
<1>6. ASSUME NEW s, OpObjectSpread(s)
      PROVE  NoElement
  <2> DEFINE of == <<"spread", s>>
  <2>1. of[1] # "element"
    OBVIOUS
  <2>2. Says(of)
    BY <1>6, Zenon DEF OpObjectSpread, Says
  <2> HIDE DEF of
  <2>. QED BY <2>1, <2>2, SaysOther
<1>. QED BY <1>1, <1>2, <1>3, <1>4, <1>5, <1>6, Zenon DEF Structure

(* Nor constructions. *)
LEMMA ConstructionOther ==
  ASSUME Construction
  PROVE  NoElement
<1>1. ASSUME NEW f, FunctionGetProp(f)
      PROVE  NoElement
  <2> DEFINE of == <<"fget", f>>
  <2>1. of[1] # "element"
    OBVIOUS
  <2>2. Says(of)
    BY <1>1, Zenon DEF FunctionGetProp, Says
  <2> HIDE DEF of
  <2>. QED BY <2>1, <2>2, SaysOther
<1>2. ASSUME NEW op, op # "element", NEW f, Constructs(op, f)
      PROVE  NoElement
  <2> DEFINE of == <<op, f>>
  <2>1. of[1] # "element"
    BY <1>2
  <2>2. Says(of)
    BY <1>2, Zenon DEF Constructs, Says
  <2> HIDE DEF of
  <2>. QED BY <2>1, <2>2, SaysOther
<1>3. ASSUME NEW f, NEW n, NEW v, FunctionSetProp(f, n, v)
      PROVE  NoElement
  <2> DEFINE of == <<"fset", f, n, v>>
  <2>1. of[1] # "element"
    OBVIOUS
  <2>2. Says(of)
    BY <1>3, Zenon DEF FunctionSetProp, Says
  <2> HIDE DEF of
  <2>. QED BY <2>1, <2>2, SaysOther
<1>4. ASSUME NEW v, NEW f, OpInstanceof(v, f)
      PROVE  NoElement
  <2> DEFINE of == <<"instanceof", v, f>>
  <2>1. of[1] # "element"
    OBVIOUS
  <2>2. Says(of)
    BY <1>4, Zenon DEF OpInstanceof, Hangs, Says
  <2> HIDE DEF of
  <2>. QED BY <2>1, <2>2, SaysOther
<1>5. "new" # "element" /\ "construct" # "element"
  OBVIOUS
<1>. QED BY <1>1, <1>2, <1>3, <1>4, <1>5, Zenon DEF Construction, OpNew, ReflectConstruct

(* Of those on elements, only SetElement is. *)
LEMMA ElementsOther ==
  ASSUME Elements
  PROVE  NoElement \/ \E o \in Objects, i \in Indices, v \in Numbers : SetElement(o, i, v)
<1>1. ASSUME NEW o, NEW i, NEW s, TypedArraySet(o, s, i)
      PROVE  NoElement
  <2> DEFINE of == <<"elements", o, i, s>>
  <2>1. of[1] # "element"
    OBVIOUS
  <2>2. Says(of)
    BY <1>1, Zenon DEF TypedArraySet, Hangs, Says
  <2> HIDE DEF of
  <2>. QED BY <2>1, <2>2, SaysOther
<1>2. ASSUME NEW o, NEW i, NEW e, TypedArraySlice(o, i, e)
      PROVE  NoElement
  <2> DEFINE of == <<"slice", o, i, e>>
  <2>1. of[1] # "element"
    OBVIOUS
  <2>2. Says(of)
    BY <1>2, Zenon DEF TypedArraySlice, Says
  <2> HIDE DEF of
  <2>. QED BY <2>1, <2>2, SaysOther
<1>3. ASSUME NEW kind, NEW n, TypedArrayConstruct(kind, n)
      PROVE  NoElement
  <2> DEFINE of == <<"view", kind, n>>
  <2>1. of[1] # "element"
    OBVIOUS
  <2>2. Says(of)
    BY <1>3, Zenon DEF TypedArrayConstruct, Says
  <2> HIDE DEF of
  <2>. QED BY <2>1, <2>2, SaysOther
<1>4. ASSUME NEW kind, NEW b, NEW offset, ViewOfBuffer(kind, b, offset)
      PROVE  NoElement
  <2> DEFINE of == <<"view", kind, b, offset>>
  <2>1. of[1] # "element"
    OBVIOUS
  <2>2. Says(of)
    BY <1>4, Zenon DEF ViewOfBuffer, Says
  <2> HIDE DEF of
  <2>. QED BY <2>1, <2>2, SaysOther
<1>. QED BY <1>1, <1>2, <1>3, <1>4, GetByValOther, Zenon DEF Elements

(* A step of an operation that answers the write of an element is one. *)
LEMMA OnlySetElement ==
  ASSUME Next, steps' # steps, NEW o, NEW i, NEW v, answer'.of = <<"element", o, i, v>>
  PROVE  SetElement(o, i, v)
<1>1. ~ NoElement
  BY Zenon DEF NoElement
<1>2. ~ (\E x : FunctionReturns(x)) /\ ~ FunctionThrows
  BY Zenon DEF FunctionReturns, FunctionThrows
<1>3. PICK p \in Objects, j \in Indices, x \in Numbers : SetElement(p, j, x)
  <2>1. Access \/ Structure \/ Construction \/ Elements
    BY <1>2, Zenon DEF Next
  <2>. QED BY <1>1, <2>1, AccessOther, StructureOther, ConstructionOther, ElementsOther, Zenon
<1>4. answer'.of = <<"element", p, j, x>>
  BY <1>3, AnswersIs, Zenon DEF SetElement
<1>5. p = o /\ j = i /\ x = v
  BY <1>4
<1>. QED BY <1>3, <1>5

(* What is written to an element of a view, in range and aligned, reads back as
   the number wrapped to its width, whatever the base and wherever views lie, and
   no element of any view changes that does not lie on its bytes. *)
THEOREM ElementsHold == Spec => ElementsReadBack
<1> DEFINE Written ==
             \A o \in Objects, i \in Indices, v \in Numbers :
               /\ steps' # steps /\ answer'.of = <<"element", o, i, v>>
               /\ InView(heap[o].view, i) /\ Aligned(heap[o].view)
               => /\ ElementOf(o, i)' = Wrapped(heap[o].view.kind, v)
                  /\ \A p \in Objects, j \in Indices :
                       IsView(p) /\ BytesUnder(p, j) \cap BytesUnder(o, i) = {} /\ Aligned(heap[p].view)
                         => ElementOf(p, j)' = ElementOf(p, j)
<1>1. ASSUME ObjectsInv, Next
      PROVE  Written
  <2>1. TypeOK /\ \A j \in Indices : j \in Int
    BY <1>1, DispatchAssumption DEF ObjectsInv, TypeInv
  <2> SUFFICES ASSUME NEW o \in Objects, NEW i \in Indices, NEW v \in Numbers,
                      steps' # steps, answer'.of = <<"element", o, i, v>>,
                      InView(heap[o].view, i), Aligned(heap[o].view)
               PROVE  /\ ElementOf(o, i)' = Wrapped(heap[o].view.kind, v)
                      /\ \A p \in Objects, j \in Indices :
                           IsView(p) /\ BytesUnder(p, j) \cap BytesUnder(o, i) = {} /\ Aligned(heap[p].view)
                             => ElementOf(p, j)' = ElementOf(p, j)
    BY Zenon
  <2>2. IsView(o) /\ Writes(IndexedWrite(o, i, v))
    BY <1>1, OnlySetElement, Zenon DEF SetElement
  <2>3. i \in Int /\ v \in Int
    BY DispatchAssumption
  <2>4. ReadBack(o, i, v)
    BY <2>1, <2>2, <2>3, ElementWritten
  <2>. QED BY <2>1, <2>4, Zenon DEF ReadBack
<1>2. ObjectsInv /\ [Next]_vars => [Written]_vars
  BY <1>1
<1>3. Spec => []ObjectsInv
  BY ObjectsInit, ObjectsNext, PTL DEF Spec
<1>4. Spec => [][Written]_vars
  <2> HIDE DEF Written
  <2>. QED BY <1>2, <1>3, PTL DEF Spec
<1>. QED BY <1>4 DEF ElementsReadBack
==============================================================================
