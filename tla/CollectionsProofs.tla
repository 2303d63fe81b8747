--------------------------- MODULE CollectionsProofs ---------------------------
(***************************************************************************)
(* Machine-checked facts about Collections and ArrayMethods, for every set *)
(* of collections, keys, values and arrays, and scripts of any length.     *)
(***************************************************************************)
EXTENDS ArrayMethods, SequenceTheorems, WellFoundedInduction, TLAPS, FiniteSetTheorems, FunctionTheorems

-----------------------------------------------------------------------------
(* A flat array as rows: the keys, and what stands beside each. *)

RowVals(d, s) == IF d \in Maps THEN [j \in 1..(Len(s) \div 2) |-> s[2 * j]] ELSE s

Distinct(ks) == \A i, j \in DOMAIN ks : i # j /\ ks[i] \notin Opaque => ks[i] # ks[j]

Rows(d, s) ==
  /\ s \in Seq(Keys \cup Vals)
  /\ d \in Maps => Len(s) % 2 = 0
  /\ KeySeq(d, s) \in Seq(Keys) /\ RowVals(d, s) \in Seq(Vals \cup Keys)
  /\ Distinct(KeySeq(d, s))

(* The finite map that rows stand for. *)
KeysOf(ks) == {k \in Keys \ Opaque : \E j \in DOMAIN ks : ks[j] = k}
ContentOf(ks, vs) == [k \in KeysOf(ks) |-> vs[CHOOSE j \in DOMAIN ks : ks[j] = k]]

(* Relations between rows, and of an array with its rows. *)
AreRows(ks, vs) == ks \in Seq(Keys) /\ vs \in Seq(Vals \cup Keys) /\ Len(vs) = Len(ks) /\ Distinct(ks)

LaidOut(t, ks, vs) ==
  /\ t \in Seq(Keys \cup Vals) /\ Len(t) = 2 * Len(ks)
  /\ \A j \in 1..Len(ks) : t[2 * j - 1] = ks[j] /\ t[2 * j] = vs[j]

NotIn(ks, k) == \A j \in DOMAIN ks : ~ KeyMatch(ks[j], k)

(* The value of row j is written over; a row is put behind the others; row i
   is taken out. *)
Overwriting(ks, vs, vt, j, v) ==
  /\ ks \in Seq(Keys) /\ Distinct(ks) /\ j \in DOMAIN ks /\ ks[j] \notin Opaque
  /\ \A i \in DOMAIN ks : vt[i] = IF i = j THEN v ELSE vs[i]

Appending(ks, vs, kt, vt, k, v) ==
  /\ ks \in Seq(Keys) /\ Distinct(ks) /\ k \in Keys /\ NotIn(ks, k)
  /\ kt = Append(ks, k)
  /\ \A j \in 1..(Len(ks) + 1) : vt[j] = IF j = Len(ks) + 1 THEN v ELSE vs[j]

TakenOut(ks, kt, i) ==
  /\ kt \in Seq(Keys) /\ Len(kt) = Len(ks) - 1
  /\ \A j \in DOMAIN kt : kt[j] = IF j < i THEN ks[j] ELSE ks[j + 1]

Removing(ks, vs, kt, vt, i) ==
  /\ ks \in Seq(Keys) /\ Distinct(ks) /\ i \in DOMAIN ks /\ ks[i] \notin Opaque
  /\ TakenOut(ks, kt, i)
  /\ \A j \in DOMAIN kt : vt[j] = IF j < i THEN vs[j] ELSE vs[j + 1]

(* A forEach that waits for its callback. *)
WalkFields(m, ids) ==
  [m : {m}, id : ids, i : Nat, n : Nat, start : Seq(Keys \cup Vals),
   seen : Seq(Seq(Keys \cup Vals \cup {Undefined})), touched : BOOLEAN]

Leads(ks, kt) == \A j \in DOMAIN ks : j \in DOMAIN kt /\ kt[j] = ks[j]

(* While nothing is taken out, the keys the walk began with are still the
   first ones, and the index is at the row that was visited last. *)
WalkOn(c, s) ==
  /\ c \in WalkFields("Map.forEach", Maps) \cup WalkFields("Set.forEach", Sets)
  /\ s # Absent /\ Rows(c.id, c.start) /\ c.n = Len(c.start)
  /\ ~ c.touched =>
       /\ Leads(KeySeq(c.id, c.start), KeySeq(c.id, s))
       /\ InOrder(c)
       /\ c.i = (IF c.id \in Maps THEN 2 ELSE 1) * (Len(c.seen) - 1)

(* Between two callbacks: the index is at the row to visit next. *)
Between(c, s) ==
  /\ c \in WalkFields("Map.forEach", Maps) \cup WalkFields("Set.forEach", Sets)
  /\ Rows(c.id, s) /\ Rows(c.id, c.start) /\ c.n = Len(c.start)
  /\ ~ c.touched =>
       /\ Leads(KeySeq(c.id, c.start), KeySeq(c.id, s))
       /\ Len(c.seen) <= Len(KeySeq(c.id, c.start))
       /\ \A i \in DOMAIN c.seen : c.seen[i][1] = KeySeq(c.id, c.start)[i]
       /\ c.i = (IF c.id \in Maps THEN 2 ELSE 1) * Len(c.seen)

(* A method of an array that waits for its callback. *)
CallFields == {"m", "id", "i", "n", "item", "out", "acc", "init", "start", "seen", "touched"}

CallSound(c) ==
  /\ c = [f \in CallFields |-> c[f]]
  /\ c.m \in Up1 \cup Down1 \cup Folding \cup Sorting /\ c.id \in ArrayIds
  /\ c.i \in 0..MaxLen /\ c.n \in 0..MaxLen /\ c.item \in Elems
  /\ c.start \in Seq(Elems) /\ Len(c.start) <= MaxLen

CallFits(c, es) == IF Walking(c) THEN WalkOn(c, es[c.id]) ELSE CallSound(c)

CallsFit(cs, es) ==
  /\ cs \in Seq(Range(cs)) /\ Len(cs) <= MaxCalls
  /\ \A j \in DOMAIN cs : CallFits(cs[j], es)

CollInv ==
  /\ entries \in [Maps \cup Sets -> Seq(Keys \cup Vals) \cup {Absent}]
  /\ size \in [Maps \cup Sets -> Nat]
  /\ \A d \in Maps \cup Sets :
       Constructed(d) => Rows(d, entries[d]) /\ size[d] = Len(KeySeq(d, entries[d]))
  /\ weak \in [WeakMaps \cup WeakSets -> Stores \cup {Absent}]

CallsInv == CallsFit(calls, entries) /\ steps \in 0..MaxSteps

ArraysInv ==
  /\ arrays \in [ArrayIds -> Seq(Elems)]
  /\ \A a \in ArrayIds : Len(arrays[a]) <= MaxLen

(* The inductive invariant. *)
LibraryInv == CollInv /\ CallsInv /\ ArraysInv

-----------------------------------------------------------------------------
(* Flat arrays and rows. *)

(* A flat array of pairs has as many keys as values, and no half pair. *)
LEMMA MapRowsForm ==
  ASSUME NEW d \in Maps, NEW s, Rows(d, s)
  PROVE  /\ Len(KeySeq(d, s)) \in Nat /\ Len(s) = 2 * Len(KeySeq(d, s))
         /\ Len(KeySeq(d, s)) = Len(s) \div 2 /\ Len(RowVals(d, s)) = Len(KeySeq(d, s))
         /\ DOMAIN KeySeq(d, s) = 1..Len(KeySeq(d, s)) /\ DOMAIN RowVals(d, s) = DOMAIN KeySeq(d, s)
         /\ \A j \in DOMAIN KeySeq(d, s) : KeySeq(d, s)[j] = s[2 * j - 1] /\ RowVals(d, s)[j] = s[2 * j]
<1> DEFINE n == Len(s) \div 2
<1>1. Len(s) \in Nat /\ Len(s) % 2 = 0
  BY DEF Rows
<1>2. n \in Nat /\ Len(s) = 2 * n
  BY <1>1
<1> HIDE DEF n
<1>3. KeySeq(d, s) = [j \in 1..n |-> s[2 * j - 1]] /\ RowVals(d, s) = [j \in 1..n |-> s[2 * j]]
  BY DEF KeySeq, RowVals, n
<1>4. Len(KeySeq(d, s)) = n /\ Len(RowVals(d, s)) = n
  <2>1. KeySeq(d, s) \in Seq(Keys) /\ RowVals(d, s) \in Seq(Vals \cup Keys)
    BY DEF Rows
  <2>2. DOMAIN KeySeq(d, s) = 1..n /\ DOMAIN RowVals(d, s) = 1..n
    BY <1>3
  <2>. QED BY <1>2, <2>1, <2>2
<1>. QED BY <1>2, <1>3, <1>4 DEF n

(* Pairs written one behind the other are rows. *)
LEMMA MapRowsIntro ==
  ASSUME NEW d \in Maps, NEW ks, NEW vs, AreRows(ks, vs), NEW t, LaidOut(t, ks, vs)
  PROVE  Rows(d, t) /\ KeySeq(d, t) = ks /\ RowVals(d, t) = vs
<1> DEFINE n == Len(ks)
<1>0. /\ ks \in Seq(Keys) /\ vs \in Seq(Vals \cup Keys) /\ Len(vs) = n /\ Distinct(ks) /\ n \in Nat
      /\ t \in Seq(Keys \cup Vals) /\ Len(t) = 2 * n
      /\ \A j \in 1..n : t[2 * j - 1] = ks[j] /\ t[2 * j] = vs[j]
  BY DEF AreRows, LaidOut
<1>1. Len(t) \div 2 = n /\ Len(t) % 2 = 0
  BY <1>0
<1>2. KeySeq(d, t) = [j \in 1..n |-> t[2 * j - 1]] /\ RowVals(d, t) = [j \in 1..n |-> t[2 * j]]
  BY <1>1 DEF KeySeq, RowVals
<1>3. ks = [j \in 1..n |-> ks[j]] /\ vs = [j \in 1..n |-> vs[j]]
  BY <1>0
<1>4. KeySeq(d, t) = ks /\ RowVals(d, t) = vs
  BY <1>0, <1>2, <1>3
<1>. QED BY <1>0, <1>1, <1>4 DEF Rows

(* The rows of a Set are its array. *)
LEMMA SetRowsForm ==
  ASSUME NEW d \in Sets
  PROVE  /\ d \notin Maps /\ \A s : KeySeq(d, s) = s /\ RowVals(d, s) = s
         /\ \A s : Rows(d, s) <=> s \in Seq(Keys) /\ Distinct(s)
<1>1. d \notin Maps
  BY CollectionsAssumption
<1>2. \A s : KeySeq(d, s) = s /\ RowVals(d, s) = s
  BY <1>1 DEF KeySeq, RowVals
<1>3. \A s : s \in Seq(Keys) => s \in Seq(Keys \cup Vals) /\ s \in Seq(Vals \cup Keys)
  OBVIOUS
<1>. QED BY <1>1, <1>2, <1>3 DEF Rows

(* The least of a set of positions. *)
LEMMA LeastExists ==
  ASSUME NEW S \in SUBSET Nat, S # {}
  PROVE  Least(S) \in S /\ \A j \in S : Least(S) <= j
<1>1. PICK x \in S : \A y \in S : ~ (<<y, x>> \in OpToRel(<, Nat))
  BY NatLessThanWellFounded, WFMin
<1>2. \A y \in S : x <= y
  <2> TAKE y \in S
  <2>1. <<y, x>> \in Nat \X Nat /\ <<y, x>>[1] = y /\ <<y, x>>[2] = x
    OBVIOUS
  <2>2. y < x => <<y, x>> \in OpToRel(<, Nat)
    BY <2>1, Zenon DEF OpToRel
  <2>3. ~ (y < x)
    BY <1>1, <2>2, Zenon
  <2>. QED BY <2>3
<1>. QED BY <1>2 DEF Least

(* mapIndexOfKey() finds the row of a key, or says that there is none. *)
LEMMA MapFind ==
  ASSUME NEW d \in Maps, NEW s, Rows(d, s), NEW k
  PROVE  \/ /\ MapIndexOfKey(s, k) = -1
            /\ \A j \in DOMAIN KeySeq(d, s) : ~ KeyMatch(KeySeq(d, s)[j], k)
         \/ \E j \in DOMAIN KeySeq(d, s) :
              MapIndexOfKey(s, k) = 2 * j - 2 /\ KeySeq(d, s)[j] = k /\ k \notin Opaque
<1> DEFINE ks == KeySeq(d, s)
           found == {i \in 0..(Len(s) - 1) : i % 2 = 0 /\ KeyMatch(Get(s, i), k)}
<1>1. MapIndexOfKey(s, k) = IF found = {} THEN -1 ELSE Least(found)
  BY DEF MapIndexOfKey
<1>2. /\ Len(ks) \in Nat /\ Len(s) = 2 * Len(ks) /\ DOMAIN ks = 1..Len(ks)
      /\ \A j \in DOMAIN ks : ks[j] = s[2 * j - 1]
  BY MapRowsForm
<1>3. CASE found = {}
  <2>1. ASSUME NEW j \in DOMAIN ks, KeyMatch(ks[j], k)
        PROVE  FALSE
    <3>1. 2 * j - 2 \in 0..(Len(s) - 1) /\ (2 * j - 2) % 2 = 0 /\ (2 * j - 2) + 1 = 2 * j - 1
      BY <1>2
    <3>2. Get(s, 2 * j - 2) = ks[j]
      BY <1>2, <3>1 DEF Get
    <3>3. 2 * j - 2 \in found
      BY <2>1, <3>1, <3>2
    <3>. QED BY <1>3, <3>3
  <2>. QED BY <1>1, <1>3, <2>1
<1>4. CASE found # {}
  <2>1. found \in SUBSET Nat
    OBVIOUS
  <2>2. Least(found) \in found
    BY <1>4, <2>1, LeastExists
  <2>3. PICK i \in found : i = MapIndexOfKey(s, k)
    BY <1>1, <1>4, <2>2
  <2>4. i \in 0..(Len(s) - 1) /\ i % 2 = 0 /\ KeyMatch(Get(s, i), k)
    OBVIOUS
  <2>5. PICK j \in 1..Len(ks) : i = 2 * j - 2
    <3>1. i \in Nat /\ i = 2 * (i \div 2) /\ i \div 2 \in Nat
      BY <2>4, <1>2
    <3>2. (i \div 2) + 1 \in 1..Len(ks)
      BY <2>4, <3>1, <1>2
    <3>. QED BY <3>1, <3>2
  <2>6. Get(s, i) = ks[j]
    BY <1>2, <2>4, <2>5 DEF Get
  <2>. QED BY <1>2, <2>3, <2>4, <2>5, <2>6 DEF KeyMatch
<1>. QED BY <1>3, <1>4

(* setIndex() finds the row of a value, or says that there is none. *)
LEMMA SetFind ==
  ASSUME NEW s \in Seq(Keys), NEW k
  PROVE  \/ SetIndex(s, k) = -1 /\ \A j \in DOMAIN s : ~ KeyMatch(s[j], k)
         \/ \E j \in DOMAIN s : SetIndex(s, k) = j - 1 /\ s[j] = k /\ k \notin Opaque
<1> DEFINE found == {i \in 0..(Len(s) - 1) : SetSameValueZero(Get(s, i), k)}
<1>1. SetIndex(s, k) = IF found = {} THEN -1 ELSE Least(found)
  BY DEF SetIndex
<1>2. \A i \in 0..(Len(s) - 1) : i + 1 \in DOMAIN s /\ Get(s, i) = s[i + 1]
  BY DEF Get
<1>3. \A j \in DOMAIN s : j - 1 \in 0..(Len(s) - 1) /\ (j - 1) + 1 = j
  OBVIOUS
<1>4. CASE found = {}
  BY <1>1, <1>2, <1>3, <1>4 DEF SetSameValueZero, KeyMatch
<1>5. CASE found # {}
  <2>1. found \in SUBSET Nat
    OBVIOUS
  <2>2. Least(found) \in found
    BY <1>5, <2>1, LeastExists
  <2>3. PICK i \in found : i = SetIndex(s, k)
    BY <1>1, <1>5, <2>2
  <2>. QED BY <1>2, <2>3 DEF SetSameValueZero
<1>. QED BY <1>4, <1>5

-----------------------------------------------------------------------------
(* Rows and the finite map they stand for. *)

(* A function that has the keys of some rows, with their values, is what the
   rows stand for. *)
StandsFor(ks, vs, f) ==
  f = [k \in KeysOf(ks) |-> f[k]] /\ \A j \in DOMAIN ks : ks[j] \notin Opaque => f[ks[j]] = vs[j]

(* What ContentOf() computes is determined by that. *)
LEMMA ContentIs ==
  ASSUME NEW ks \in Seq(Keys), Distinct(ks), NEW vs, NEW f, StandsFor(ks, vs, f)
  PROVE  ContentOf(ks, vs) = f
<1>0. f = [k \in KeysOf(ks) |-> f[k]] /\ \A j \in DOMAIN ks : ks[j] \notin Opaque => f[ks[j]] = vs[j]
  BY DEF StandsFor
<1>1. ASSUME NEW k \in KeysOf(ks)
      PROVE  vs[CHOOSE j \in DOMAIN ks : ks[j] = k] = f[k]
  <2> DEFINE c == CHOOSE j \in DOMAIN ks : ks[j] = k
  <2>1. c \in DOMAIN ks /\ ks[c] = k
    BY DEF KeysOf
  <2>2. k \notin Opaque
    BY DEF KeysOf
  <2>. QED BY <1>0, <2>1, <2>2
<1>. QED BY <1>0, <1>1, Zenon DEF ContentOf

(* Its value at the key of a row is the value of that row. *)
LEMMA ContentAt ==
  ASSUME NEW ks \in Seq(Keys), Distinct(ks), NEW vs,
         NEW j \in DOMAIN ks, ks[j] \notin Opaque
  PROVE  ks[j] \in KeysOf(ks) /\ ContentOf(ks, vs)[ks[j]] = vs[j]
<1>1. ks[j] \in Keys
  OBVIOUS
<1>2. ks[j] \in KeysOf(ks)
  BY <1>1 DEF KeysOf
<1> DEFINE c == CHOOSE i \in DOMAIN ks : ks[i] = ks[j]
<1>3. c \in DOMAIN ks /\ ks[c] = ks[j]
  OBVIOUS
<1>4. c = j
  BY <1>3, Zenon DEF Distinct
<1>. QED BY <1>2, <1>4, Zenon DEF ContentOf

(* Every one of its keys is that of a row. *)
LEMMA ContentRow ==
  ASSUME NEW ks \in Seq(Keys), Distinct(ks), NEW vs, NEW k \in KeysOf(ks)
  PROVE  \E j \in DOMAIN ks : ks[j] = k /\ ContentOf(ks, vs)[k] = vs[j]
<1>1. PICK j \in DOMAIN ks : ks[j] = k
  BY DEF KeysOf
<1>2. k \notin Opaque
  BY DEF KeysOf
<1>. QED BY <1>1, <1>2, ContentAt

(* A value written over that of a row binds its key anew. *)
LEMMA RowOverwritten ==
  ASSUME NEW ks, NEW vs, NEW vt, NEW j, NEW v, Overwriting(ks, vs, vt, j, v)
  PROVE  ContentOf(ks, vt) = D!Bound(ContentOf(ks, vs), ks[j], v)
<1>0. ks \in Seq(Keys) /\ Distinct(ks) /\ j \in DOMAIN ks /\ ks[j] \notin Opaque
  BY DEF Overwriting
<1> DEFINE f == D!Bound(ContentOf(ks, vs), ks[j], v)
<1>1. DOMAIN ContentOf(ks, vs) = KeysOf(ks) /\ ks[j] \in KeysOf(ks)
  BY <1>0, ContentAt DEF ContentOf
<1>2. f = [x \in KeysOf(ks) |-> IF x = ks[j] THEN v ELSE ContentOf(ks, vs)[x]]
  <2>1. KeysOf(ks) \cup {ks[j]} = KeysOf(ks)
    BY <1>1
  <2>. QED BY <1>1, <2>1 DEF D!Bound
<1>3. ASSUME NEW i \in DOMAIN ks, ks[i] \notin Opaque
      PROVE  f[ks[i]] = vt[i]
  <2>1. ks[i] \in KeysOf(ks) /\ ContentOf(ks, vs)[ks[i]] = vs[i]
    BY <1>0, <1>3, ContentAt
  <2>2. i = j <=> ks[i] = ks[j]
    BY <1>0, <1>3 DEF Distinct
  <2>3. vt[i] = IF i = j THEN v ELSE vs[i]
    BY DEF Overwriting
  <2>. QED BY <1>2, <2>1, <2>2, <2>3
<1>4. StandsFor(ks, vt, f)
  BY <1>2, <1>3 DEF StandsFor
<1>. QED BY <1>0, <1>4, ContentIs, Zenon

(* A row put behind the others adds its key, if keys like it are found. *)
LEMMA RowAppended ==
  ASSUME NEW ks, NEW vs, NEW kt, NEW vt, NEW k, NEW v, Appending(ks, vs, kt, vt, k, v)
  PROVE  /\ kt \in Seq(Keys) /\ Distinct(kt)
         /\ k \in Opaque => ContentOf(kt, vt) = ContentOf(ks, vs)
         /\ k \notin Opaque => ContentOf(kt, vt) = D!Bound(ContentOf(ks, vs), k, v)
<1>0. /\ ks \in Seq(Keys) /\ Distinct(ks) /\ k \in Keys /\ NotIn(ks, k)
      /\ kt = Append(ks, k)
  BY DEF Appending
<1>1. /\ DOMAIN ks = 1..Len(ks) /\ DOMAIN kt = 1..(Len(ks) + 1) /\ Len(ks) \in Nat
      /\ \A j \in 1..Len(ks) : kt[j] = ks[j]
      /\ kt[Len(ks) + 1] = k /\ kt \in Seq(Keys)
  BY <1>0
<1>2. \A j \in 1..Len(ks) : ks[j] \notin Opaque => ks[j] # k
  BY <1>0, <1>1 DEF KeyMatch, NotIn
<1>3. k \notin Opaque => \A j \in 1..Len(ks) : ks[j] # k
  BY <1>0, <1>1 DEF KeyMatch, NotIn
<1>4. Distinct(kt)
  <2> SUFFICES ASSUME NEW i \in DOMAIN kt, NEW j \in DOMAIN kt, i # j, kt[i] \notin Opaque
               PROVE  kt[i] # kt[j]
    BY DEF Distinct
  <2>1. CASE i \in 1..Len(ks) /\ j \in 1..Len(ks)
    BY <1>0, <1>1, <2>1 DEF Distinct
  <2>2. CASE i = Len(ks) + 1 /\ j \in 1..Len(ks)
    BY <1>1, <1>3, <2>2
  <2>3. CASE i \in 1..Len(ks) /\ j = Len(ks) + 1
    BY <1>1, <1>2, <2>3
  <2>. QED BY <1>1, <2>1, <2>2, <2>3
<1>5. KeysOf(kt) = IF k \in Opaque THEN KeysOf(ks) ELSE KeysOf(ks) \cup {k}
  <2>1. \A x \in Keys : (\E j \in DOMAIN kt : kt[j] = x) <=> ((\E j \in DOMAIN ks : ks[j] = x) \/ x = k)
    BY <1>1
  <2>. QED BY <1>0, <2>1 DEF KeysOf
<1> DEFINE f == IF k \in Opaque THEN ContentOf(ks, vs) ELSE D!Bound(ContentOf(ks, vs), k, v)
<1>6. DOMAIN ContentOf(ks, vs) = KeysOf(ks)
  BY DEF ContentOf
<1>7. f = [x \in KeysOf(kt) |-> f[x]]
  <2>1. CASE k \in Opaque
    BY <1>5, <1>6, <2>1 DEF ContentOf
  <2>2. CASE k \notin Opaque
    <3>1. f = [x \in KeysOf(kt) |-> IF x = k THEN v ELSE ContentOf(ks, vs)[x]]
      BY <1>5, <1>6, <2>2 DEF D!Bound
    <3>. QED BY <3>1
  <2>. QED BY <2>1, <2>2
<1>8. ASSUME NEW j \in DOMAIN kt, kt[j] \notin Opaque
      PROVE  f[kt[j]] = vt[j]
  <2>1. CASE j \in 1..Len(ks)
    <3>1. ks[j] \in KeysOf(ks) /\ ContentOf(ks, vs)[ks[j]] = vs[j] /\ kt[j] = ks[j] /\ ks[j] # k
      BY <1>0, <1>1, <1>2, <1>8, <2>1, ContentAt
    <3>2. vt[j] = vs[j]
      BY <1>1, <2>1 DEF Appending
    <3>3. k \notin Opaque => f[ks[j]] = ContentOf(ks, vs)[ks[j]]
      BY <1>6, <3>1 DEF D!Bound
    <3>. QED BY <3>1, <3>2, <3>3
  <2>2. CASE j = Len(ks) + 1
    <3>1. kt[j] = k /\ vt[j] = v /\ k \notin Opaque
      BY <1>1, <1>8, <2>2 DEF Appending
    <3>2. f[k] = v
      BY <1>6, <3>1 DEF D!Bound
    <3>. QED BY <3>1, <3>2
  <2>. QED BY <1>1, <2>1, <2>2
<1>9. StandsFor(kt, vt, f)
  BY <1>7, <1>8 DEF StandsFor
<1>10. ContentOf(kt, vt) = f
  BY <1>1, <1>4, <1>9, ContentIs, Zenon
<1>. QED BY <1>1, <1>4, <1>10

(* A row taken out takes its key along. *)
LEMMA RowRemoved ==
  ASSUME NEW ks, NEW vs, NEW kt, NEW vt, NEW i, Removing(ks, vs, kt, vt, i)
  PROVE  /\ Distinct(kt)
         /\ ContentOf(kt, vt) = D!Without(ContentOf(ks, vs), ks[i])
<1>0. /\ ks \in Seq(Keys) /\ Distinct(ks) /\ i \in DOMAIN ks /\ ks[i] \notin Opaque
      /\ TakenOut(ks, kt, i)
      /\ \A j \in DOMAIN kt : vt[j] = IF j < i THEN vs[j] ELSE vs[j + 1]
  BY DEF Removing
<1>1. /\ DOMAIN ks = 1..Len(ks) /\ Len(ks) \in Nat
      /\ DOMAIN kt = 1..(Len(ks) - 1) /\ i \in 1..Len(ks) /\ kt \in Seq(Keys)
  BY <1>0 DEF TakenOut
<1> DEFINE from(j) == IF j < i THEN j ELSE j + 1
<1>2. \A j \in DOMAIN kt : from(j) \in DOMAIN ks /\ from(j) # i /\ kt[j] = ks[from(j)] /\ vt[j] = vs[from(j)]
  BY <1>0, <1>1 DEF TakenOut
<1>3. \A j \in DOMAIN ks : j # i => \E x \in DOMAIN kt : from(x) = j
  <2> SUFFICES ASSUME NEW j \in DOMAIN ks, j # i
               PROVE  \E x \in DOMAIN kt : from(x) = j
    OBVIOUS
  <2>1. CASE j < i
    <3>1. j \in DOMAIN kt /\ from(j) = j
      BY <1>1, <2>1
    <3>. QED BY <3>1
  <2>2. CASE j > i
    <3>1. j - 1 \in DOMAIN kt /\ from(j - 1) = j
      BY <1>1, <2>2
    <3>. QED BY <3>1
  <2>. QED BY <1>1, <2>1, <2>2
<1>4. \A x, y \in DOMAIN kt : x # y => from(x) # from(y)
  BY <1>1
<1> HIDE DEF from
<1>5. Distinct(kt)
  BY <1>0, <1>2, <1>4 DEF Distinct
<1>6. KeysOf(kt) = KeysOf(ks) \ {ks[i]}
  <2>1. \A j \in DOMAIN ks : j # i => ks[j] # ks[i]
    BY <1>0 DEF Distinct
  <2>2. \A x \in Keys : x # ks[i] => ((\E j \in DOMAIN kt : kt[j] = x) <=> (\E j \in DOMAIN ks : ks[j] = x))
    BY <1>2, <1>3
  <2>3. ~ \E j \in DOMAIN kt : kt[j] = ks[i]
    BY <1>2, <2>1
  <2>. QED BY <2>2, <2>3 DEF KeysOf
<1> DEFINE f == D!Without(ContentOf(ks, vs), ks[i])
<1>7. f = [x \in KeysOf(kt) |-> ContentOf(ks, vs)[x]]
  BY <1>6 DEF D!Without, ContentOf
<1>8. ASSUME NEW j \in DOMAIN kt, kt[j] \notin Opaque
      PROVE  f[kt[j]] = vt[j]
  <2>1. kt[j] \in KeysOf(kt)
    BY <1>1, <1>8, <1>5, ContentAt
  <2>2. ContentOf(ks, vs)[ks[from(j)]] = vs[from(j)]
    BY <1>0, <1>2, <1>8, ContentAt
  <2>. QED BY <1>2, <1>7, <2>1, <2>2
<1>9. StandsFor(kt, vt, f)
  BY <1>7, <1>8 DEF StandsFor
<1>10. ContentOf(kt, vt) = f
  BY <1>1, <1>5, <1>9, ContentIs, Zenon
<1>. QED BY <1>5, <1>10

-----------------------------------------------------------------------------
(* What the operations make of the rows. *)

FnOf(d, s) == ContentOf(KeySeq(d, s), RowVals(d, s))

(* Rows have keys and values of the right kind, as many of each. *)
LEMMA RowsForm ==
  ASSUME NEW d \in Maps \cup Sets, NEW s, Rows(d, s)
  PROVE  /\ KeySeq(d, s) \in Seq(Keys) /\ Distinct(KeySeq(d, s))
         /\ RowVals(d, s) \in Seq(Vals \cup Keys) /\ Len(RowVals(d, s)) = Len(KeySeq(d, s))
         /\ DOMAIN RowVals(d, s) = DOMAIN KeySeq(d, s)
<1>1. CASE d \in Maps
  BY <1>1, MapRowsForm DEF Rows
<1>2. CASE d \in Sets
  BY <1>2, SetRowsForm DEF Rows
<1>. QED BY <1>1, <1>2

(* A write inside an array. *)
LEMMA PutInside ==
  ASSUME NEW S, NEW s, NEW i, NEW v, s \in Seq(S), i \in 0..(Len(s) - 1), v \in S
  PROVE  /\ Put(s, i, v) \in Seq(S) /\ Len(Put(s, i, v)) = Len(s)
         /\ \A x \in 1..Len(s) : Put(s, i, v)[x] = IF x = i + 1 THEN v ELSE s[x]
<1>1. ~ (i < 0) /\ i < Len(s)
  OBVIOUS
<1>2. Put(s, i, v) = [x \in 1..Len(s) |-> IF x = i + 1 THEN v ELSE Get(s, x - 1)]
  BY <1>1, Zenon DEF Put
<1>3. \A x \in 1..Len(s) : x - 1 \in 0..(Len(s) - 1) /\ (x - 1) + 1 = x
  OBVIOUS
<1>4. \A x \in 1..Len(s) : Get(s, x - 1) = s[x]
  BY <1>3 DEF Get
<1>. QED BY <1>2, <1>4

(* Where the pairs are. *)
LEMMA PairPositions ==
  ASSUME NEW n \in Nat, NEW x \in 1..n, NEW j \in 1..n
  PROVE  /\ 2 * x - 1 \in 1..(2 * n) /\ 2 * x \in 1..(2 * n) /\ 2 * x - 1 # 2 * j
         /\ 2 * x = 2 * j <=> x = j
         /\ 2 * x - 1 > 2 * j - 2 <=> ~ (x < j)
         /\ 2 * x > 2 * j - 2 <=> ~ (x < j)
OBVIOUS

(* set() leaves the keys as they are or puts one behind them. *)
LEMMA MapSetRows ==
  ASSUME NEW d \in Maps, NEW s, Rows(d, s), NEW k \in Keys, NEW v \in Vals
  PROVE  LET t == MapInternalSet(s, k, v)
         IN /\ Rows(d, t)
            /\ KeySeq(d, t) = KeySeq(d, s) \/ KeySeq(d, t) = Append(KeySeq(d, s), k)
            /\ FnOf(d, t) = IF k \in Opaque THEN FnOf(d, s) ELSE D!Bound(FnOf(d, s), k, v)
<1> DEFINE ks == KeySeq(d, s)
           vs == RowVals(d, s)
           t == MapInternalSet(s, k, v)
<1>1. /\ ks \in Seq(Keys) /\ vs \in Seq(Vals \cup Keys) /\ s \in Seq(Keys \cup Vals) /\ Distinct(ks)
      /\ Len(ks) \in Nat /\ Len(s) = 2 * Len(ks) /\ Len(vs) = Len(ks) /\ DOMAIN ks = 1..Len(ks)
      /\ \A j \in 1..Len(ks) : ks[j] = s[2 * j - 1] /\ vs[j] = s[2 * j]
  BY MapRowsForm DEF Rows
<1> HIDE DEF ks, vs
<1>2. CASE MapIndexOfKey(s, k) = -1 /\ NotIn(ks, k)
  <2> DEFINE kt == Append(ks, k)
             vt == Append(vs, v)
  <2>1. t = Append(Append(s, k), v)
    BY <1>2 DEF MapInternalSet
  <2>2. /\ t \in Seq(Keys \cup Vals) /\ Len(t) = Len(s) + 2
        /\ \A x \in 1..Len(s) : t[x] = s[x]
        /\ t[Len(s) + 1] = k /\ t[Len(s) + 2] = v
    BY <1>1, <2>1
  <2>3. /\ kt \in Seq(Keys) /\ Len(kt) = Len(ks) + 1
        /\ vt \in Seq(Vals \cup Keys) /\ Len(vt) = Len(ks) + 1
        /\ \A j \in 1..Len(ks) : kt[j] = ks[j] /\ vt[j] = vs[j]
        /\ kt[Len(ks) + 1] = k /\ vt[Len(ks) + 1] = v
    BY <1>1
  <2> HIDE DEF kt, vt, t
  <2>4. \A j \in 1..(Len(ks) + 1) : t[2 * j - 1] = kt[j] /\ t[2 * j] = vt[j]
    <3> SUFFICES ASSUME NEW j \in 1..(Len(ks) + 1)
                 PROVE  t[2 * j - 1] = kt[j] /\ t[2 * j] = vt[j]
      OBVIOUS
    <3>1. CASE j \in 1..Len(ks)
      <4>1. 2 * j - 1 \in 1..Len(s) /\ 2 * j \in 1..Len(s)
        BY <1>1, <3>1, PairPositions
      <4>. QED BY <1>1, <2>2, <2>3, <3>1, <4>1
    <3>2. CASE j = Len(ks) + 1
      <4>1. 2 * j - 1 = Len(s) + 1 /\ 2 * j = Len(s) + 2
        BY <1>1, <3>2
      <4>. QED BY <2>2, <2>3, <3>2, <4>1
    <3>3. j \in 1..Len(ks) \/ j = Len(ks) + 1
      BY <1>1
    <3>. QED BY <3>1, <3>2, <3>3
  <2>5. Appending(ks, vs, kt, vt, k, v)
    <3>1. \A j \in 1..(Len(ks) + 1) : vt[j] = IF j = Len(ks) + 1 THEN v ELSE vs[j]
      <4>1. \A j \in 1..(Len(ks) + 1) : j # Len(ks) + 1 => j \in 1..Len(ks)
        BY <1>1
      <4>. QED BY <2>3, <4>1
    <3>2. kt = Append(ks, k)
      BY DEF kt
    <3>. QED BY <1>1, <1>2, <3>1, <3>2, Zenon DEF Appending
  <2>6. /\ Distinct(kt)
        /\ k \in Opaque => ContentOf(kt, vt) = ContentOf(ks, vs)
        /\ k \notin Opaque => ContentOf(kt, vt) = D!Bound(ContentOf(ks, vs), k, v)
    BY <2>5, RowAppended
  <2>7. Len(t) = 2 * Len(kt)
    BY <1>1, <2>2, <2>3
  <2>8. AreRows(kt, vt) /\ LaidOut(t, kt, vt)
    BY <2>2, <2>3, <2>4, <2>6, <2>7 DEF AreRows, LaidOut
  <2>9. Rows(d, t) /\ KeySeq(d, t) = kt /\ RowVals(d, t) = vt
    BY <2>8, MapRowsIntro, Zenon
  <2>. QED BY <2>6, <2>9 DEF FnOf, kt, ks, vs, t
<1>3. ASSUME NEW j \in DOMAIN ks, MapIndexOfKey(s, k) = 2 * j - 2, ks[j] = k, k \notin Opaque
      PROVE  /\ Rows(d, t) /\ KeySeq(d, t) = ks
             /\ FnOf(d, t) = D!Bound(FnOf(d, s), k, v)
  <2> DEFINE vt == [x \in 1..Len(ks) |-> IF x = j THEN v ELSE vs[x]]
  <2>1. j \in 1..Len(ks) /\ Len(ks) \in Nat /\ Len(s) = 2 * Len(ks)
    BY <1>1
  <2>2. 2 * j - 2 >= 0 /\ 2 * j - 2 + 1 = 2 * j - 1 /\ 2 * j - 1 + 1 = 2 * j /\ 2 * j - 1 \in 0..(Len(s) - 1)
    BY <2>1
  <2>3. t = Put(s, 2 * j - 1, v)
    BY <1>3, <2>2 DEF MapInternalSet
  <2> HIDE DEF t
  <2>4. /\ t \in Seq(Keys \cup Vals) /\ Len(t) = Len(s)
        /\ \A x \in 1..Len(s) : t[x] = IF x = 2 * j THEN v ELSE s[x]
    <3>1. s \in Seq(Keys \cup Vals) /\ v \in Keys \cup Vals
      BY <1>1
    <3> DEFINE i == 2 * j - 1
    <3>2. i \in 0..(Len(s) - 1) /\ t = Put(s, i, v) /\ i + 1 = 2 * j
      BY <2>2, <2>3
    <3> HIDE DEF i
    <3>3. /\ t \in Seq(Keys \cup Vals) /\ Len(t) = Len(s)
          /\ \A x \in 1..Len(s) : t[x] = IF x = i + 1 THEN v ELSE s[x]
      BY <3>1, <3>2, PutInside
    <3>. QED BY <3>2, <3>3
  <2>5. vt \in Seq(Vals \cup Keys) /\ Len(vt) = Len(ks)
    BY <1>1
  <2>6. \A x \in 1..Len(ks) : t[2 * x - 1] = ks[x] /\ t[2 * x] = vt[x]
    <3> SUFFICES ASSUME NEW x \in 1..Len(ks)
                 PROVE  t[2 * x - 1] = ks[x] /\ t[2 * x] = vt[x]
      OBVIOUS
    <3>1. /\ 2 * x - 1 \in 1..Len(s) /\ 2 * x - 1 # 2 * j
          /\ 2 * x \in 1..Len(s) /\ (2 * x = 2 * j <=> x = j)
      BY <2>1, PairPositions
    <3>. QED BY <1>1, <2>4, <3>1
  <2>7. Overwriting(ks, vs, vt, j, v)
    BY <1>1, <1>3 DEF Overwriting
  <2> HIDE DEF vt
  <2>8. AreRows(ks, vt) /\ LaidOut(t, ks, vt)
    BY <1>1, <2>4, <2>5, <2>6 DEF AreRows, LaidOut
  <2>9. Rows(d, t) /\ KeySeq(d, t) = ks /\ RowVals(d, t) = vt
    BY <2>8, MapRowsIntro, Zenon
  <2>10. ContentOf(ks, vt) = D!Bound(ContentOf(ks, vs), ks[j], v)
    BY <2>7, RowOverwritten
  <2>. QED BY <1>3, <2>9, <2>10 DEF FnOf, ks, vs
<1>4. \/ MapIndexOfKey(s, k) = -1 /\ NotIn(ks, k)
      \/ \E j \in DOMAIN ks : MapIndexOfKey(s, k) = 2 * j - 2 /\ ks[j] = k /\ k \notin Opaque
  BY MapFind DEF ks, NotIn
<1>. QED BY <1>2, <1>3, <1>4 DEF ks

(* add() likewise. *)
LEMMA SetInsertRows ==
  ASSUME NEW d \in Sets, NEW s, Rows(d, s), NEW k \in Keys
  PROVE  LET t == SetInsert(s, k)
         IN /\ Rows(d, t)
            /\ KeySeq(d, t) = KeySeq(d, s) \/ KeySeq(d, t) = Append(KeySeq(d, s), k)
            /\ FnOf(d, t) = IF k \in Opaque THEN FnOf(d, s) ELSE D!Bound(FnOf(d, s), k, k)
<1> DEFINE t == SetInsert(s, k)
<1>1. s \in Seq(Keys) /\ Distinct(s) /\ \A u : KeySeq(d, u) = u /\ RowVals(d, u) = u
  BY SetRowsForm
<1>2. CASE SetIndex(s, k) = -1 /\ NotIn(s, k)
  <2>1. t = Append(s, k)
    BY <1>2 DEF SetInsert
  <2>2. Appending(s, s, t, t, k, k)
    BY <1>1, <1>2, <2>1 DEF Appending
  <2> HIDE DEF t
  <2>3. /\ t \in Seq(Keys) /\ Distinct(t)
        /\ k \in Opaque => ContentOf(t, t) = ContentOf(s, s)
        /\ k \notin Opaque => ContentOf(t, t) = D!Bound(ContentOf(s, s), k, k)
    BY <2>2, RowAppended
  <2>4. Rows(d, t)
    BY <2>3, SetRowsForm
  <2>5. FnOf(d, t) = IF k \in Opaque THEN FnOf(d, s) ELSE D!Bound(FnOf(d, s), k, k)
    BY <1>1, <2>3 DEF FnOf
  <2>. QED BY <1>1, <2>1, <2>4, <2>5 DEF t
<1>3. ASSUME NEW j \in DOMAIN s, SetIndex(s, k) = j - 1, s[j] = k, k \notin Opaque
      PROVE  Rows(d, t) /\ KeySeq(d, t) = s /\ FnOf(d, t) = D!Bound(FnOf(d, s), k, k)
  <2>1. SetIndex(s, k) >= 0
    BY <1>1, <1>3
  <2>2. t = s
    BY <2>1 DEF SetInsert
  <2>3. Overwriting(s, s, s, j, k)
    BY <1>1, <1>3 DEF Overwriting
  <2>4. ContentOf(s, s) = D!Bound(ContentOf(s, s), s[j], k)
    BY <2>3, RowOverwritten
  <2>. QED BY <1>1, <1>3, <2>2, <2>4 DEF FnOf
<1>4. \/ SetIndex(s, k) = -1 /\ NotIn(s, k)
      \/ \E j \in DOMAIN s : SetIndex(s, k) = j - 1 /\ s[j] = k /\ k \notin Opaque
  BY <1>1, SetFind DEF NotIn
<1>5. CASE SetIndex(s, k) = -1 /\ NotIn(s, k)
  BY <1>2, <1>5, Zenon
<1>6. ASSUME NEW j \in DOMAIN s, SetIndex(s, k) = j - 1, s[j] = k, k \notin Opaque
      PROVE  KeySeq(d, t) = KeySeq(d, s) /\ Rows(d, t) /\ FnOf(d, t) = D!Bound(FnOf(d, s), k, k)
  BY <1>1, <1>3, <1>6
<1>. QED BY <1>4, <1>5, <1>6

(* delete() of a key that is there takes its row out. *)
LEMMA MapRemovedRows ==
  ASSUME NEW d \in Maps, NEW s, Rows(d, s), NEW k, MapIndexOfKey(s, k) >= 0
  PROVE  LET t == MapRemoved(s, k)
         IN /\ Rows(d, t) /\ k \in Keys \ Opaque
            /\ \E i \in DOMAIN KeySeq(d, s) : TakenOut(KeySeq(d, s), KeySeq(d, t), i)
            /\ FnOf(d, t) = D!Without(FnOf(d, s), k)
<1> DEFINE ks == KeySeq(d, s)
           vs == RowVals(d, s)
           t == MapRemoved(s, k)
           n == Len(ks) - 1
<1>1. /\ ks \in Seq(Keys) /\ vs \in Seq(Vals \cup Keys) /\ s \in Seq(Keys \cup Vals) /\ Distinct(ks)
      /\ Len(ks) \in Nat /\ Len(s) = 2 * Len(ks) /\ Len(vs) = Len(ks) /\ DOMAIN ks = 1..Len(ks)
      /\ \A j \in 1..Len(ks) : ks[j] = s[2 * j - 1] /\ vs[j] = s[2 * j]
  BY MapRowsForm DEF Rows
<1>2. PICK j \in DOMAIN ks : MapIndexOfKey(s, k) = 2 * j - 2 /\ ks[j] = k /\ k \notin Opaque
  BY MapFind
<1> HIDE DEF ks, vs
<1> DEFINE kt == [x \in 1..n |-> IF x < j THEN ks[x] ELSE ks[x + 1]]
           vt == [x \in 1..n |-> IF x < j THEN vs[x] ELSE vs[x + 1]]
<1>3. j \in 1..Len(ks) /\ n \in Nat /\ n + 1 = Len(ks) /\ Len(s) = 2 * (n + 1)
  BY <1>1
<1> HIDE DEF n
<1>4. t = [x \in 1..(2 * n) |-> IF x > 2 * j - 2 THEN s[x + 2] ELSE s[x]]
  <2> DEFINE u == SlidDown(s, 2 * j - 2, 2)
  <2>1. u = [x \in 1..Len(s) |-> IF x > 2 * j - 2 /\ x + 2 <= Len(s) THEN s[x + 2] ELSE s[x]]
    BY DEF SlidDown
  <2>2. Len(s) - 2 = 2 * n /\ 2 * n < Len(s) /\ ~ (2 * n < 0) /\ Len(s) \in Nat
    BY <1>3
  <2>3. \A x \in 1..(2 * n) : x \in 1..Len(s) /\ u[x] = IF x > 2 * j - 2 THEN s[x + 2] ELSE s[x]
    <3>1. \A x \in 1..(2 * n) : x \in 1..Len(s) /\ x + 2 <= Len(s)
      BY <1>3
    <3>. QED BY <2>1, <3>1
  <2>6. Len(u) = Len(s)
    BY <2>1, <2>2
  <2> HIDE DEF u
  <2>4. Truncate(u, Len(s) - 2) = [x \in 1..(2 * n) |-> u[x]]
    BY <2>2, <2>6 DEF Truncate
  <2>5. t = Truncate(u, Len(s) - 2)
    BY <1>2 DEF MapRemoved, u
  <2>. QED BY <2>3, <2>4, <2>5
<1> HIDE DEF t
<1>5. t \in Seq(Keys \cup Vals) /\ Len(t) = 2 * n
  <2>1. \A x \in 1..(2 * n) : x \in 1..Len(s) /\ x + 2 \in 1..Len(s)
    BY <1>3
  <2>2. \A x \in 1..Len(s) : s[x] \in Keys \cup Vals
    BY <1>1
  <2>3. \A x \in 1..(2 * n) : (IF x > 2 * j - 2 THEN s[x + 2] ELSE s[x]) \in Keys \cup Vals
    BY <2>1, <2>2
  <2>4. 2 * n \in Nat
    BY <1>3
  <2>. QED BY <1>4, <2>3, <2>4
<1>6. /\ kt \in Seq(Keys) /\ Len(kt) = n /\ DOMAIN kt = 1..n
      /\ vt \in Seq(Vals \cup Keys) /\ Len(vt) = n
  <2>1. \A x \in 1..n : x \in 1..Len(ks) /\ x + 1 \in 1..Len(ks)
    BY <1>1, <1>3
  <2>. QED BY <1>1, <1>3, <2>1
<1>7. \A x \in 1..n : t[2 * x - 1] = kt[x] /\ t[2 * x] = vt[x]
  <2> SUFFICES ASSUME NEW x \in 1..n
               PROVE  t[2 * x - 1] = kt[x] /\ t[2 * x] = vt[x]
    OBVIOUS
  <2>1. /\ 2 * x - 1 \in 1..(2 * n) /\ 2 * x \in 1..(2 * n)
        /\ 2 * x - 1 + 2 = 2 * (x + 1) - 1 /\ 2 * x + 2 = 2 * (x + 1)
        /\ x \in 1..Len(ks) /\ x + 1 \in 1..Len(ks)
        /\ (2 * x - 1 > 2 * j - 2 <=> ~ (x < j)) /\ (2 * x > 2 * j - 2 <=> ~ (x < j))
    BY <1>3
  <2>2. /\ t[2 * x - 1] = IF x < j THEN s[2 * x - 1] ELSE s[2 * (x + 1) - 1]
        /\ t[2 * x] = IF x < j THEN s[2 * x] ELSE s[2 * (x + 1)]
    BY <1>4, <2>1
  <2>. QED BY <1>1, <2>1, <2>2
<1>8. TakenOut(ks, kt, j)
  BY <1>3, <1>6 DEF TakenOut
<1>9. Removing(ks, vs, kt, vt, j)
  BY <1>1, <1>2, <1>6, <1>8 DEF Removing
<1> HIDE DEF kt, vt
<1>10. Distinct(kt) /\ ContentOf(kt, vt) = D!Without(ContentOf(ks, vs), ks[j])
  BY <1>9, RowRemoved
<1>11. Rows(d, t) /\ KeySeq(d, t) = kt /\ RowVals(d, t) = vt
  <2>1. AreRows(kt, vt) /\ LaidOut(t, kt, vt)
    BY <1>5, <1>6, <1>7, <1>10 DEF AreRows, LaidOut
  <2>. QED BY <2>1, MapRowsIntro, Zenon
<1>12. k \in Keys
  BY <1>1, <1>2
<1>. QED BY <1>2, <1>8, <1>10, <1>11, <1>12 DEF FnOf, ks, vs, t

(* Likewise for a Set. *)
LEMMA SetRemovedRows ==
  ASSUME NEW d \in Sets, NEW s, Rows(d, s), NEW k, SetIndex(s, k) >= 0
  PROVE  LET t == SetRemoved(s, k)
         IN /\ Rows(d, t) /\ k \in Keys \ Opaque
            /\ \E i \in DOMAIN KeySeq(d, s) : TakenOut(KeySeq(d, s), KeySeq(d, t), i)
            /\ FnOf(d, t) = D!Without(FnOf(d, s), k)
<1> DEFINE t == SetRemoved(s, k)
           n == Len(s) - 1
<1>1. s \in Seq(Keys) /\ Distinct(s) /\ \A u : KeySeq(d, u) = u /\ RowVals(d, u) = u
  BY SetRowsForm
<1>2. PICK j \in DOMAIN s : SetIndex(s, k) = j - 1 /\ s[j] = k /\ k \notin Opaque
  BY <1>1, SetFind
<1>3. j \in 1..Len(s) /\ n \in Nat /\ n + 1 = Len(s) /\ Len(s) \in Nat
  BY <1>1
<1> HIDE DEF n
<1>4. t = [x \in 1..n |-> IF x < j THEN s[x] ELSE s[x + 1]]
  <2> DEFINE u == SlidDown(s, j - 1, 1)
  <2>1. u = [x \in 1..Len(s) |-> IF x > j - 1 /\ x + 1 <= Len(s) THEN s[x + 1] ELSE s[x]]
    BY DEF SlidDown
  <2>2. Len(s) - 1 = n /\ n < Len(s) /\ ~ (n < 0)
    BY <1>3
  <2>3. \A x \in 1..n : u[x] = IF x < j THEN s[x] ELSE s[x + 1]
    <3>1. \A x \in 1..n : x \in 1..Len(s) /\ x + 1 <= Len(s) /\ (x > j - 1 <=> ~ (x < j))
      BY <1>1, <1>3
    <3>. QED BY <2>1, <3>1
  <2>6. Len(u) = Len(s)
    BY <1>3, <2>1
  <2> HIDE DEF u
  <2>4. Truncate(u, Len(s) - 1) = [x \in 1..n |-> u[x]]
    BY <2>2, <2>6 DEF Truncate
  <2>5. t = Truncate(u, Len(s) - 1)
    BY <1>2 DEF SetRemoved, u
  <2>. QED BY <2>3, <2>4, <2>5
<1> HIDE DEF t
<1>5. t \in Seq(Keys) /\ Len(t) = n /\ DOMAIN t = 1..n
  <2>1. \A x \in 1..n : x \in 1..Len(s) /\ x + 1 \in 1..Len(s)
    BY <1>1, <1>3
  <2>. QED BY <1>1, <1>3, <1>4, <2>1
<1>6. TakenOut(s, t, j)
  BY <1>3, <1>4, <1>5 DEF TakenOut
<1>7. Distinct(t) /\ ContentOf(t, t) = D!Without(ContentOf(s, s), s[j])
  <2>1. Removing(s, s, t, t, j)
    BY <1>1, <1>2, <1>6 DEF Removing, TakenOut
  <2>. QED BY <2>1, RowRemoved
<1>8. Rows(d, t) /\ k \in Keys
  BY <1>1, <1>2, <1>5, <1>7, SetRowsForm
<1>. QED BY <1>1, <1>2, <1>6, <1>7, <1>8 DEF FnOf, t

(* An array without elements is that of a collection without entries. *)
LEMMA EmptyRows ==
  ASSUME NEW d \in Maps \cup Sets
  PROVE  Rows(d, <<>>) /\ KeySeq(d, <<>>) = <<>> /\ FnOf(d, <<>>) = [k \in {} |-> k]
<1>1. Distinct(<<>>) /\ <<>> \in Seq(Keys) /\ <<>> \in Seq(Vals \cup Keys) /\ <<>> \in Seq(Keys \cup Vals)
  BY DEF Distinct
<1>2. Rows(d, <<>>) /\ KeySeq(d, <<>>) = <<>> /\ RowVals(d, <<>>) = <<>>
  <2>1. CASE d \in Maps
    <3>1. AreRows(<<>>, <<>>) /\ LaidOut(<<>>, <<>>, <<>>)
      BY <1>1 DEF AreRows, LaidOut
    <3>. QED BY <2>1, <3>1, MapRowsIntro, Zenon
  <2>2. CASE d \in Sets
    BY <1>1, <2>2, SetRowsForm
  <2>. QED BY <2>1, <2>2
<1>3. KeysOf(<<>>) = {}
  BY DEF KeysOf
<1>4. StandsFor(<<>>, <<>>, [k \in {} |-> k])
  BY <1>3 DEF StandsFor
<1>. QED BY <1>1, <1>2, <1>4, ContentIs DEF FnOf

-----------------------------------------------------------------------------
(* Loops, as folds over the positions of a sequence. *)

(* What holds at the beginning and is kept by every round holds at the end. *)
LEMMA Rounds ==
  ASSUME NEW n, NEW P, n \in Nat, 0 \in P, \A k \in 1..n : k - 1 \in P => k \in P
  PROVE  \A k \in 0..n : k \in P
<1> DEFINE B == {k \in 0..n : k \notin P}
<1>1. CASE B = {}
  BY <1>1
<1>2. CASE B # {}
  <2>1. Least(B) \in B /\ \A j \in B : Least(B) <= j
    <3>1. B \in SUBSET Nat
      OBVIOUS
    <3> HIDE DEF B
    <3>. QED BY <1>2, <3>1, LeastExists
  <2>2. PICK m \in B : \A j \in B : m <= j
    BY <2>1
  <2>3. m \in 1..n /\ m - 1 \in 0..n /\ ~ (m <= m - 1)
    <3>1. m \in 0..n /\ m # 0
      OBVIOUS
    <3>. QED BY <3>1
  <2>4. m - 1 \in P
    BY <2>2, <2>3
  <2>. QED BY <2>3, <2>4
<1>. QED BY <1>1, <1>2

(* it computes the fold over every set of the first n positions, the greatest last. *)
IsFold(it, base, step, n) ==
  \A S \in SUBSET (1..n) : it[S] = IF S = {} THEN base ELSE step[<<it[S \ {Max(S)}], Max(S)>>]

(* The greatest of some positions. *)
LEMMA GreatestIs ==
  ASSUME NEW S, NEW m, S \in SUBSET Int, m \in S, \A j \in S : j <= m
  PROVE  Max(S) = m
<1>1. \A x \in S : (\A y \in S : x >= y) => x = m
  OBVIOUS
<1>2. \A y \in S : m >= y
  OBVIOUS
<1> DEFINE c == CHOOSE x \in S : \A y \in S : x >= y
<1>3. c \in S /\ \A y \in S : c >= y
  BY <1>2
<1> HIDE DEF c
<1>4. c = m
  BY <1>1, <1>3
<1>. QED BY <1>4 DEF Max, c

(* A set of positions has a greatest. *)
LEMMA GreatestExists ==
  ASSUME NEW n, NEW S, n \in Nat, S \in SUBSET (1..n), S # {}
  PROVE  Max(S) \in S /\ \A j \in S : j <= Max(S)
<1> DEFINE T == {n - k : k \in S}
<1>1. T \in SUBSET Nat /\ T # {}
  <2>1. \A k \in S : n - k \in Nat
    OBVIOUS
  <2>. QED BY <2>1
<1>2. PICK x \in T : \A y \in T : x <= y
  <2> HIDE DEF T
  <2>. QED BY <1>1, LeastExists
<1>3. PICK k \in S : x = n - k
  OBVIOUS
<1>4. \A j \in S : j <= k
  <2> TAKE j \in S
  <2>1. n - k <= n - j
    BY <1>2, <1>3
  <2>. QED BY <2>1
<1>5. S \in SUBSET Int
  OBVIOUS
<1>6. Max(S) = k
  BY <1>4, <1>5, GreatestIs
<1>. QED BY <1>4, <1>6

(* The fold over the positions exists: one more position at a time. *)
LEMMA FoldExists ==
  ASSUME NEW T, NEW base, NEW n, NEW step, base \in T, n \in Nat, step \in [T \X (1..n) -> T]
  PROVE  \E it \in [SUBSET (1..n) -> T] : IsFold(it, base, step, n)
<1> DEFINE P == {m \in 0..n : \E it \in [SUBSET (1..m) -> T] : IsFold(it, base, step, m)}
<1>1. 0 \in P
  <2>1. 1..0 = {} /\ SUBSET (1..0) = {{}}
    OBVIOUS
  <2> DEFINE it == [S \in SUBSET (1..0) |-> base]
  <2>2. it \in [SUBSET (1..0) -> T]
    OBVIOUS
  <2>3. IsFold(it, base, step, 0)
    BY <2>1 DEF IsFold
  <2>4. 0 \in 0..n
    OBVIOUS
  <2>. QED BY <2>2, <2>3, <2>4
<1>2. ASSUME NEW k \in 1..n, k - 1 \in P
      PROVE  k \in P
  <2>1. PICK it \in [SUBSET (1..(k - 1)) -> T] : IsFold(it, base, step, k - 1)
    BY <1>2
  <2> DEFINE jt == [S \in SUBSET (1..k) |-> IF k \in S THEN step[<<it[S \ {k}], k>>] ELSE it[S]]
  <2>2. \A S \in SUBSET (1..k) : /\ k \in S => S \ {k} \in SUBSET (1..(k - 1))
                                 /\ k \notin S => S \in SUBSET (1..(k - 1))
    <3>1. \A x \in 1..k : x # k => x \in 1..(k - 1)
      OBVIOUS
    <3>. QED BY <3>1
  <2>3. \A S \in SUBSET (1..(k - 1)) : S \in SUBSET (1..k) /\ k \notin S
    OBVIOUS
  <2>4. jt \in [SUBSET (1..k) -> T]
    <3> SUFFICES ASSUME NEW S \in SUBSET (1..k)
                 PROVE  (IF k \in S THEN step[<<it[S \ {k}], k>>] ELSE it[S]) \in T
      OBVIOUS
    <3>1. CASE k \in S
      <4>1. it[S \ {k}] \in T
        BY <2>2, <3>1
      <4>2. <<it[S \ {k}], k>> \in T \X (1..n)
        BY <4>1
      <4>. QED BY <3>1, <4>2
    <3>2. CASE k \notin S
      BY <2>2, <3>2
    <3>. QED BY <3>1, <3>2
  <2>5. \A S \in SUBSET (1..(k - 1)) : jt[S] = it[S]
    BY <2>3
  <2>6. IsFold(jt, base, step, k)
    <3> SUFFICES ASSUME NEW S \in SUBSET (1..k)
                 PROVE  jt[S] = IF S = {} THEN base ELSE step[<<jt[S \ {Max(S)}], Max(S)>>]
      BY DEF IsFold
    <3>1. CASE k \in S
      <4>1. Max(S) = k
        <5>1. S \in SUBSET Int /\ \A j \in S : j <= k
          OBVIOUS
        <5>. QED BY <3>1, <5>1, GreatestIs
      <4>2. jt[S] = step[<<it[S \ {k}], k>>] /\ jt[S \ {k}] = it[S \ {k}]
        BY <2>2, <2>5, <3>1
      <4>. QED BY <3>1, <4>1, <4>2
    <3>2. CASE k \notin S
      <4>1. S \in SUBSET (1..(k - 1)) /\ jt[S] = it[S]
        BY <2>2, <2>5, <3>2
      <4>2. it[S] = IF S = {} THEN base ELSE step[<<it[S \ {Max(S)}], Max(S)>>]
        BY <2>1, <4>1 DEF IsFold
      <4>3. jt[S \ {Max(S)}] = it[S \ {Max(S)}]
        BY <2>5, <4>1
      <4>. QED BY <4>1, <4>2, <4>3
    <3>. QED BY <3>1, <3>2
  <2>7. k \in 0..n
    OBVIOUS
  <2> HIDE DEF jt
  <2>. QED BY <2>4, <2>6, <2>7
<1>3. n \in P
  <2> HIDE DEF P
  <2>1. n \in 0..n
    OBVIOUS
  <2>2. \A k \in 1..n : k - 1 \in P => k \in P
    BY <1>2
  <2>. QED BY <1>1, <2>1, <2>2, Rounds
<1>. QED BY <1>3

(* The positions up to k, the greatest first taken away. *)
LEMMA Intervals ==
  ASSUME NEW n, n \in Nat
  PROVE  /\ 1..0 = {} /\ {} \in SUBSET (1..n)
         /\ \A k \in 1..n : /\ 1..k \in SUBSET (1..n) /\ 1..(k - 1) \in SUBSET (1..n) /\ 1..k # {}
                            /\ Max(1..k) = k /\ (1..k) \ {Max(1..k)} = 1..(k - 1)
<1>1. 1..0 = {} /\ {} \in SUBSET (1..n)
  OBVIOUS
<1> SUFFICES ASSUME NEW k \in 1..n
             PROVE  /\ 1..k \in SUBSET (1..n) /\ 1..(k - 1) \in SUBSET (1..n) /\ 1..k # {}
                    /\ Max(1..k) = k /\ (1..k) \ {Max(1..k)} = 1..(k - 1)
  BY <1>1
<1>2. 1..k \in SUBSET (1..n) /\ 1..(k - 1) \in SUBSET (1..n)
  OBVIOUS
<1>3. k \in 1..k /\ 1..k \in SUBSET Int /\ \A j \in 1..k : j <= k
  OBVIOUS
<1>4. Max(1..k) = k
  BY <1>3, GreatestIs
<1>5. (1..k) \ {k} = 1..(k - 1)
  OBVIOUS
<1>. QED BY <1>2, <1>3, <1>4, <1>5

-----------------------------------------------------------------------------
(* What a constructor makes of its input. *)

Hits(input, I, x) == {i \in I : input[i].key = x}
KeysIn(input, I) == {input[i].key : i \in I} \ Opaque
LastOf(S) == CHOOSE i \in S : \A j \in S : j <= i

FoldedOver(d, input, I) ==
  IF d \in Maps THEN [x \in KeysIn(input, I) |-> input[LastOf(Hits(input, I, x))].val]
  ELSE [x \in KeysIn(input, I) |-> x]

FoldedTo(d, input, k) == FoldedOver(d, input, 1..k)

(* One more pair binds its key, if keys like it are found. *)
LEMMA FoldedStep ==
  ASSUME NEW d, NEW input, NEW n, NEW k, n \in Nat, k \in 1..n
  PROVE  LET v == IF d \in Maps THEN input[k].val ELSE input[k].key
         IN FoldedTo(d, input, k) = IF input[k].key \in Opaque THEN FoldedTo(d, input, k - 1)
                                    ELSE D!Bound(FoldedTo(d, input, k - 1), input[k].key, v)
<1> DEFINE y == input[k].key
           v == IF d \in Maps THEN input[k].val ELSE y
<1>1. 1..k = 1..(k - 1) \cup {k} /\ k \notin 1..(k - 1)
  OBVIOUS
<1>2. KeysIn(input, 1..k) = IF y \in Opaque THEN KeysIn(input, 1..(k - 1))
                            ELSE KeysIn(input, 1..(k - 1)) \cup {y}
  BY <1>1 DEF KeysIn
<1>3. \A x : x # y => Hits(input, 1..k, x) = Hits(input, 1..(k - 1), x)
  BY <1>1 DEF Hits
<1>4. LastOf(Hits(input, 1..k, y)) = k
  <2> DEFINE H == Hits(input, 1..k, y)
  <2>1. k \in H /\ \A j \in H : j <= k /\ j \in Int
    BY DEF Hits
  <2> HIDE DEF H
  <2>2. \A i \in H : (\A j \in H : j <= i) => i = k
    BY <2>1
  <2> DEFINE c == CHOOSE i \in H : \A j \in H : j <= i
  <2>3. c \in H /\ \A j \in H : j <= c
    BY <2>1
  <2> HIDE DEF c
  <2>4. c = k
    BY <2>2, <2>3
  <2>. QED BY <2>4 DEF LastOf, c, H
<1>5. CASE d \in Maps
  <2> DEFINE g(x) == input[LastOf(Hits(input, 1..k, x))].val
             h(x) == input[LastOf(Hits(input, 1..(k - 1), x))].val
  <2>1. FoldedTo(d, input, k) = [x \in KeysIn(input, 1..k) |-> g(x)]
    BY <1>5 DEF FoldedTo, FoldedOver
  <2>2. FoldedTo(d, input, k - 1) = [x \in KeysIn(input, 1..(k - 1)) |-> h(x)]
    BY <1>5 DEF FoldedTo, FoldedOver
  <2>3. (\A x : x # y => g(x) = h(x)) /\ g(y) = v
    BY <1>3, <1>4, <1>5
  <2> HIDE DEF g, h
  <2>4. CASE y \in Opaque
    <3>1. KeysIn(input, 1..k) = KeysIn(input, 1..(k - 1)) /\ y \notin KeysIn(input, 1..k)
      BY <1>2, <2>4 DEF KeysIn
    <3>2. \A x \in KeysIn(input, 1..k) : g(x) = h(x)
      BY <2>3, <3>1
    <3>. QED BY <2>1, <2>2, <2>4, <3>1, <3>2
  <2>5. CASE y \notin Opaque
    <3>1. KeysIn(input, 1..k) = KeysIn(input, 1..(k - 1)) \cup {y}
      BY <1>2, <2>5
    <3> DEFINE f == FoldedTo(d, input, k - 1)
    <3>2. D!Bound(f, y, v) = [x \in KeysIn(input, 1..k) |-> IF x = y THEN v ELSE f[x]]
      BY <2>2, <3>1 DEF D!Bound
    <3>3. \A x \in KeysIn(input, 1..k) : g(x) = IF x = y THEN v ELSE f[x]
      BY <2>2, <2>3, <3>1
    <3>. QED BY <2>1, <2>5, <3>2, <3>3
  <2>. QED BY <2>4, <2>5
<1>6. CASE d \notin Maps
  BY <1>2, <1>6 DEF FoldedTo, FoldedOver, D!Bound
<1>. QED BY <1>5, <1>6

(* Nothing is bound at first, and all of the input at the end. *)
LEMMA FoldedEnds ==
  ASSUME NEW d, NEW input, input \in Seq(Pairs)
  PROVE  /\ FoldedTo(d, input, 0) = [k \in {} |-> k]
         /\ FoldedTo(d, input, Len(input)) = Folded(d, input)
<1>1. KeysIn(input, 1..0) = {} /\ 1..Len(input) = DOMAIN input
  BY DEF KeysIn
<1>2. FoldedTo(d, input, 0) = [k \in {} |-> k]
  BY <1>1 DEF FoldedTo, FoldedOver
<1>3. FoldedOver(d, input, DOMAIN input) = Folded(d, input)
  BY DEF FoldedOver, Folded, KeysIn, Hits, LastOf
<1>4. FoldedTo(d, input, Len(input)) = FoldedOver(d, input, DOMAIN input)
  BY <1>1 DEF FoldedTo
<1>. QED BY <1>2, <1>3, <1>4

(* The pairs of an input. *)
LEMMA PairsOf ==
  ASSUME NEW input, input \in Seq(Pairs)
  PROVE  Len(input) \in Nat /\ \A k \in 1..Len(input) : input[k].key \in Keys /\ input[k].val \in Vals
<1>1. Len(input) \in Nat /\ \A k \in 1..Len(input) : input[k] \in Pairs
  OBVIOUS
<1>2. \A p \in Pairs : p.key \in Keys /\ p.val \in Vals
  BY DEF Pairs
<1>. QED BY <1>1, <1>2

(* A Map constructor makes of its pairs the map they describe. *)
LEMMA MapFilled ==
  ASSUME NEW d \in Maps, NEW input \in Seq(Pairs)
  PROVE  Rows(d, FilledMap(input)) /\ FnOf(d, FilledMap(input)) = Folded(d, input)
<1> DEFINE n == Len(input)
           T == {s \in Seq(Keys \cup Vals) : Rows(d, s)}
           op(s, i) == MapInternalSet(s, input[i].key, input[i].val)
           step == [p \in T \X (1..n) |-> op(p[1], p[2])]
           f == CHOOSE iter : iter = [S \in SUBSET (DOMAIN input) |->
                  IF S = {} THEN <<>>
                  ELSE MapInternalSet(iter[S \ {Max(S)}], input[Max(S)].key, input[Max(S)].val)]
<1>1. n \in Nat /\ DOMAIN input = 1..n /\ \A k \in 1..n : input[k].key \in Keys /\ input[k].val \in Vals
  BY PairsOf
<1>2. \A s \in T, i \in 1..n :
        /\ op(s, i) \in T
        /\ FnOf(d, op(s, i)) = IF input[i].key \in Opaque THEN FnOf(d, s)
                               ELSE D!Bound(FnOf(d, s), input[i].key, input[i].val)
  BY <1>1, MapSetRows DEF Rows
<1>3. <<>> \in T /\ FnOf(d, <<>>) = [k \in {} |-> k]
  BY EmptyRows
<1>4. \E it : it = [S \in SUBSET (1..n) |-> IF S = {} THEN <<>> ELSE op(it[S \ {Max(S)}], Max(S))]
  <2> HIDE DEF T, op, n
  <2>1. step \in [T \X (1..n) -> T]
    BY <1>2
  <2>2. PICK it \in [SUBSET (1..n) -> T] : IsFold(it, <<>>, step, n)
    <3> HIDE DEF step
    <3>. QED BY <1>1, <1>3, <2>1, FoldExists
  <2>3. ASSUME NEW S \in SUBSET (1..n)
        PROVE  it[S] = IF S = {} THEN <<>> ELSE op(it[S \ {Max(S)}], Max(S))
    <3>1. it[S] = IF S = {} THEN <<>> ELSE step[<<it[S \ {Max(S)}], Max(S)>>]
      BY <2>2 DEF IsFold
    <3>2. S # {} => it[S \ {Max(S)}] \in T /\ Max(S) \in 1..n
      BY <1>1, <2>2, GreatestExists
    <3>. QED BY <3>1, <3>2
  <2>4. it = [S \in SUBSET (1..n) |-> it[S]]
    BY <2>2
  <2>. QED BY <2>3, <2>4
<1>5. f = [S \in SUBSET (1..n) |-> IF S = {} THEN <<>> ELSE op(f[S \ {Max(S)}], Max(S))]
  BY <1>1, <1>4
<1>6. FilledMap(input) = f[DOMAIN input]
  BY DEF FilledMap, FoldLeft, MapThenFoldSet
<1> HIDE DEF f, op, n, T
<1>7. f[1..0] = <<>> /\ \A k \in 1..n : f[1..k] = op(f[1..(k - 1)], k)
  <2>1. f[1..0] = <<>>
    BY <1>1, <1>5, Intervals
  <2>2. ASSUME NEW k \in 1..n
        PROVE  f[1..k] = op(f[1..(k - 1)], k)
    <3>1. /\ 1..k \in SUBSET (1..n) /\ 1..k # {}
          /\ Max(1..k) = k /\ (1..k) \ {Max(1..k)} = 1..(k - 1)
      BY <1>1, Intervals
    <3>2. f[1..k] = op(f[(1..k) \ {Max(1..k)}], Max(1..k))
      BY <1>5, <3>1
    <3>. QED BY <3>1, <3>2
  <2>. QED BY <2>1, <2>2
<1> DEFINE P == {k \in 0..n : f[1..k] \in T /\ FnOf(d, f[1..k]) = FoldedTo(d, input, k)}
<1>8. 0 \in P
  <2>1. 0 \in 0..n
    BY <1>1
  <2>. QED BY <1>3, <1>7, <2>1, FoldedEnds
<1>9. ASSUME NEW k \in 1..n, k - 1 \in P
      PROVE  k \in P
  <2>1. f[1..k] = op(f[1..(k - 1)], k) /\ f[1..(k - 1)] \in T
        /\ FnOf(d, f[1..(k - 1)]) = FoldedTo(d, input, k - 1)
    BY <1>7, <1>9
  <2>2. /\ f[1..k] \in T
        /\ FnOf(d, f[1..k]) = IF input[k].key \in Opaque THEN FoldedTo(d, input, k - 1)
                              ELSE D!Bound(FoldedTo(d, input, k - 1), input[k].key, input[k].val)
    BY <1>2, <2>1
  <2>3. FnOf(d, f[1..k]) = FoldedTo(d, input, k)
    BY <1>1, <2>2, FoldedStep
  <2>4. k \in 0..n
    BY <1>1
  <2>. QED BY <2>2, <2>3, <2>4
<1>10. n \in P
  <2> HIDE DEF P
  <2>1. n \in 0..n
    BY <1>1
  <2>2. \A k \in 1..n : k - 1 \in P => k \in P
    BY <1>9
  <2>. QED BY <1>1, <1>8, <2>1, <2>2, Rounds
<1>11. f[DOMAIN input] \in T /\ FnOf(d, f[DOMAIN input]) = FoldedTo(d, input, n)
  BY <1>1, <1>10
<1>. QED BY <1>6, <1>11, FoldedEnds DEF n, T

(* A Set constructor makes of the keys of its pairs the set of them. *)
LEMMA SetFilled ==
  ASSUME NEW d \in Sets, NEW input \in Seq(Pairs)
  PROVE  Rows(d, FilledSet(input)) /\ FnOf(d, FilledSet(input)) = Folded(d, input)
<1> DEFINE n == Len(input)
           T == {s \in Seq(Keys \cup Vals) : Rows(d, s)}
           op(s, i) == SetInsert(s, input[i].key)
           step == [p \in T \X (1..n) |-> op(p[1], p[2])]
           f == CHOOSE iter : iter = [S \in SUBSET (DOMAIN input) |->
                  IF S = {} THEN <<>>
                  ELSE SetInsert(iter[S \ {Max(S)}], input[Max(S)].key)]
<1>1. n \in Nat /\ DOMAIN input = 1..n /\ \A k \in 1..n : input[k].key \in Keys /\ input[k].val \in Vals
  BY PairsOf
<1>2. \A s \in T, i \in 1..n :
        /\ op(s, i) \in T
        /\ FnOf(d, op(s, i)) = IF input[i].key \in Opaque THEN FnOf(d, s)
                               ELSE D!Bound(FnOf(d, s), input[i].key, input[i].key)
  BY <1>1, SetInsertRows DEF Rows
<1>3. <<>> \in T /\ FnOf(d, <<>>) = [k \in {} |-> k]
  BY EmptyRows
<1>4. \E it : it = [S \in SUBSET (1..n) |-> IF S = {} THEN <<>> ELSE op(it[S \ {Max(S)}], Max(S))]
  <2> HIDE DEF T, op, n
  <2>1. step \in [T \X (1..n) -> T]
    BY <1>2
  <2>2. PICK it \in [SUBSET (1..n) -> T] : IsFold(it, <<>>, step, n)
    <3> HIDE DEF step
    <3>. QED BY <1>1, <1>3, <2>1, FoldExists
  <2>3. ASSUME NEW S \in SUBSET (1..n)
        PROVE  it[S] = IF S = {} THEN <<>> ELSE op(it[S \ {Max(S)}], Max(S))
    <3>1. it[S] = IF S = {} THEN <<>> ELSE step[<<it[S \ {Max(S)}], Max(S)>>]
      BY <2>2 DEF IsFold
    <3>2. S # {} => it[S \ {Max(S)}] \in T /\ Max(S) \in 1..n
      BY <1>1, <2>2, GreatestExists
    <3>. QED BY <3>1, <3>2
  <2>4. it = [S \in SUBSET (1..n) |-> it[S]]
    BY <2>2
  <2>. QED BY <2>3, <2>4
<1>5. f = [S \in SUBSET (1..n) |-> IF S = {} THEN <<>> ELSE op(f[S \ {Max(S)}], Max(S))]
  BY <1>1, <1>4
<1>6. FilledSet(input) = f[DOMAIN input]
  BY DEF FilledSet, FoldLeft, MapThenFoldSet
<1> HIDE DEF f, op, n, T
<1>7. f[1..0] = <<>> /\ \A k \in 1..n : f[1..k] = op(f[1..(k - 1)], k)
  <2>1. f[1..0] = <<>>
    BY <1>1, <1>5, Intervals
  <2>2. ASSUME NEW k \in 1..n
        PROVE  f[1..k] = op(f[1..(k - 1)], k)
    <3>1. /\ 1..k \in SUBSET (1..n) /\ 1..k # {}
          /\ Max(1..k) = k /\ (1..k) \ {Max(1..k)} = 1..(k - 1)
      BY <1>1, Intervals
    <3>2. f[1..k] = op(f[(1..k) \ {Max(1..k)}], Max(1..k))
      BY <1>5, <3>1
    <3>. QED BY <3>1, <3>2
  <2>. QED BY <2>1, <2>2
<1> DEFINE P == {k \in 0..n : f[1..k] \in T /\ FnOf(d, f[1..k]) = FoldedTo(d, input, k)}
<1>8. 0 \in P
  <2>1. 0 \in 0..n
    BY <1>1
  <2>. QED BY <1>3, <1>7, <2>1, FoldedEnds
<1>9. ASSUME NEW k \in 1..n, k - 1 \in P
      PROVE  k \in P
  <2>1. f[1..k] = op(f[1..(k - 1)], k) /\ f[1..(k - 1)] \in T
        /\ FnOf(d, f[1..(k - 1)]) = FoldedTo(d, input, k - 1)
    BY <1>7, <1>9
  <2>2. /\ f[1..k] \in T
        /\ FnOf(d, f[1..k]) = IF input[k].key \in Opaque THEN FoldedTo(d, input, k - 1)
                              ELSE D!Bound(FoldedTo(d, input, k - 1), input[k].key, input[k].key)
    BY <1>2, <2>1
  <2>3. FnOf(d, f[1..k]) = FoldedTo(d, input, k)
    <3>1. d \notin Maps
      BY SetRowsForm
    <3>. QED BY <1>1, <2>2, <3>1, FoldedStep
  <2>4. k \in 0..n
    BY <1>1
  <2>. QED BY <2>2, <2>3, <2>4
<1>10. n \in P
  <2> HIDE DEF P
  <2>1. n \in 0..n
    BY <1>1
  <2>2. \A k \in 1..n : k - 1 \in P => k \in P
    BY <1>9
  <2>. QED BY <1>1, <1>8, <2>1, <2>2, Rounds
<1>11. f[DOMAIN input] \in T /\ FnOf(d, f[DOMAIN input]) = FoldedTo(d, input, n)
  BY <1>1, <1>10
<1>. QED BY <1>6, <1>11, FoldedEnds DEF n, T

-----------------------------------------------------------------------------
(* The contents, as the refinement mapping computes them. *)

CountOf(d, s) == IF d \in Maps THEN Len(s) \div 2 ELSE Len(s)
KeyIn(d, s, j) == IF d \in Maps THEN s[2 * j - 1] ELSE s[j]

ArrayContent(d, s) ==
  [k \in {k \in Keys \ Opaque : \E j \in 1..CountOf(d, s) : KeyIn(d, s, j) = k} |->
     IF d \in Maps THEN s[2 * (CHOOSE j \in 1..CountOf(d, s) : KeyIn(d, s, j) = k)] ELSE k]

(* Positions in the array are rows. *)
LEMMA RowsAt ==
  ASSUME NEW d \in Maps \cup Sets, NEW s, Rows(d, s)
  PROVE  /\ CountOf(d, s) = Len(KeySeq(d, s)) /\ 1..CountOf(d, s) = DOMAIN KeySeq(d, s)
         /\ \A j \in DOMAIN KeySeq(d, s) : KeyIn(d, s, j) = KeySeq(d, s)[j]
         /\ \A j \in DOMAIN KeySeq(d, s) : d \in Maps => RowVals(d, s)[j] = s[2 * j]
<1>1. CASE d \in Maps
  BY <1>1, MapRowsForm DEF CountOf, KeyIn
<1>2. CASE d \in Sets
  BY <1>2, SetRowsForm DEF CountOf, KeyIn
<1>. QED BY <1>1, <1>2

(* The mapping reads off an array what its rows stand for. *)
LEMMA ArrayContentIs ==
  ASSUME NEW d \in Maps \cup Sets, NEW s, Rows(d, s)
  PROVE  ArrayContent(d, s) = FnOf(d, s)
<1> DEFINE ks == KeySeq(d, s)
           vs == RowVals(d, s)
           f == ArrayContent(d, s)
           at(k) == CHOOSE j \in 1..CountOf(d, s) : KeyIn(d, s, j) = k
<1>1. ks \in Seq(Keys) /\ Distinct(ks)
  BY RowsForm
<1>2. /\ 1..CountOf(d, s) = DOMAIN ks
      /\ \A j \in DOMAIN ks : KeyIn(d, s, j) = ks[j]
      /\ \A j \in DOMAIN ks : d \in Maps => vs[j] = s[2 * j]
      /\ d \notin Maps => vs = ks
  BY RowsAt DEF RowVals, KeySeq
<1> HIDE DEF ks, vs
<1>3. {k \in Keys \ Opaque : \E j \in 1..CountOf(d, s) : KeyIn(d, s, j) = k} = KeysOf(ks)
  BY <1>2 DEF KeysOf
<1>4. f = [k \in KeysOf(ks) |-> IF d \in Maps THEN s[2 * at(k)] ELSE k]
  BY <1>3 DEF ArrayContent
<1>5. ASSUME NEW j \in DOMAIN ks, ks[j] \notin Opaque
      PROVE  f[ks[j]] = vs[j]
  <2>1. at(ks[j]) \in 1..CountOf(d, s) /\ KeyIn(d, s, at(ks[j])) = ks[j]
    BY <1>2
  <2> HIDE DEF at, f
  <2>2. at(ks[j]) = j
    BY <1>1, <1>2, <1>5, <2>1 DEF Distinct
  <2>3. ks[j] \in KeysOf(ks)
    BY <1>1, <1>5, ContentAt
  <2>. QED BY <1>2, <1>4, <2>2, <2>3
<1>6. StandsFor(ks, vs, f)
  <2>1. f = [k \in KeysOf(ks) |-> f[k]]
    BY <1>4
  <2>. QED BY <1>5, <2>1 DEF StandsFor
<1>7. ContentOf(ks, vs) = f
  BY <1>1, <1>6, ContentIs
<1>. QED BY <1>7 DEF FnOf, ks, vs

(* The contents of a Map or a Set, now and after a step. *)
LEMMA ContentOfArray ==
  ASSUME NEW d \in Maps \cup Sets
  PROVE  /\ Content(d) = IF Constructed(d) THEN ArrayContent(d, entries[d]) ELSE Absent
         /\ Content(d)' = IF Constructed(d)' THEN ArrayContent(d, entries'[d]) ELSE Absent
BY Zenon DEF Content, Held, ValueOf, KeyAt, Count, ArrayContent, CountOf, KeyIn

(* Likewise of a WeakMap or WeakSet. *)
LEMMA ContentOfWeak ==
  ASSUME NEW d \in WeakMaps \cup WeakSets
  PROVE  /\ d \notin Maps \cup Sets
         /\ Content(d) = IF weak[d] = Absent THEN Absent ELSE weak[d].kept
         /\ Content(d)' = IF weak'[d] = Absent THEN Absent ELSE weak'[d].kept
<1>1. d \notin Maps \cup Sets
  BY CollectionsAssumption
<1>. QED BY <1>1, Zenon DEF Content

(* What rows stand for is a finite map of the mapping's types, not Absent. *)
LEMMA FnOfType ==
  ASSUME NEW d \in Maps \cup Sets, NEW s, Rows(d, s)
  PROVE  FnOf(d, s) # Absent /\ s # Absent /\ s \in Seq(Keys \cup Vals)
<1> DEFINE ks == KeySeq(d, s)
           vs == RowVals(d, s)
<1>1. ks \in Seq(Keys) /\ Distinct(ks) /\ vs \in Seq(Vals \cup Keys) /\ DOMAIN vs = DOMAIN ks
  BY RowsForm
<1> HIDE DEF ks, vs
<1>2. \A k \in KeysOf(ks) : ContentOf(ks, vs)[k] \in Vals \cup Keys
  <2> TAKE k \in KeysOf(ks)
  <2>1. PICK j \in DOMAIN ks : ContentOf(ks, vs)[k] = vs[j]
    BY <1>1, ContentRow
  <2>. QED BY <1>1, <2>1
<1>3. ContentOf(ks, vs) = [k \in KeysOf(ks) |-> ContentOf(ks, vs)[k]]
  BY DEF ContentOf
<1>4. ContentOf(ks, vs) \in [KeysOf(ks) -> Vals \cup Keys] /\ KeysOf(ks) \in SUBSET Keys
  BY <1>2, <1>3 DEF KeysOf
<1>5. FnOf(d, s) # Absent
  BY <1>4, CollectionsAssumption DEF FnOf, ks, vs
<1>6. s \in Seq(Keys \cup Vals)
  BY DEF Rows
<1>. QED BY <1>5, <1>6, CollectionsAssumption

-----------------------------------------------------------------------------
(* A step on one collection, as the dictionary sees it. *)

(* What a collection stands for while it is there. *)
LEMMA ContentNow ==
  ASSUME CollInv, NEW d, d \in Maps \cup Sets
  PROVE  /\ Constructed(d) => /\ Rows(d, entries[d]) /\ contents[d] = FnOf(d, entries[d])
                              /\ contents[d] # Absent
         /\ ~ Constructed(d) => contents[d] = Absent
<1>1. contents[d] = Content(d)
  BY DEF contents, AllIds
<1>2. CASE Constructed(d)
  <2>1. Rows(d, entries[d])
    BY <1>2 DEF CollInv
  <2>2. Content(d) = FnOf(d, entries[d])
    BY <1>2, <2>1, ContentOfArray, ArrayContentIs
  <2>. QED BY <1>1, <1>2, <2>1, <2>2, FnOfType
<1>3. CASE ~ Constructed(d)
  BY <1>1, <1>3, ContentOfArray
<1>. QED BY <1>2, <1>3

(* New rows for one collection change what it stands for, and nothing else. *)
LEMMA RowsChange ==
  ASSUME CollInv, NEW d, NEW t, d \in Maps \cup Sets, Rows(d, t),
         entries' = [entries EXCEPT ![d] = t],
         size' = [size EXCEPT ![d] = Len(KeySeq(d, t))], weak' = weak
  PROVE  /\ CollInv' /\ contents' = [contents EXCEPT ![d] = FnOf(d, t)]
         /\ entries'[d] = t /\ \A e \in Maps \cup Sets : e # d => entries'[e] = entries[e]
<1>1. t # Absent /\ t \in Seq(Keys \cup Vals) /\ Len(KeySeq(d, t)) \in Nat
  <2>1. KeySeq(d, t) \in Seq(Keys)
    BY RowsForm
  <2>. QED BY <2>1, FnOfType
<1>2. /\ entries'[d] = t /\ \A e \in Maps \cup Sets : e # d => entries'[e] = entries[e]
      /\ entries' \in [Maps \cup Sets -> Seq(Keys \cup Vals) \cup {Absent}]
  BY <1>1 DEF CollInv
<1>3. /\ size'[d] = Len(KeySeq(d, t)) /\ \A e \in Maps \cup Sets : e # d => size'[e] = size[e]
      /\ size' \in [Maps \cup Sets -> Nat]
  BY <1>1 DEF CollInv
<1>4. CollInv'
  <2>1. ASSUME NEW e \in Maps \cup Sets, entries'[e] # Absent
        PROVE  Rows(e, entries'[e]) /\ size'[e] = Len(KeySeq(e, entries'[e]))
    <3>1. CASE e = d
      BY <1>2, <1>3, <3>1
    <3>2. CASE e # d
      <4>1. entries'[e] = entries[e] /\ size'[e] = size[e] /\ entries[e] # Absent
        BY <1>2, <1>3, <2>1, <3>2
      <4>. QED BY <4>1 DEF CollInv, Constructed
    <3>. QED BY <3>1, <3>2
  <2>2. weak' \in [WeakMaps \cup WeakSets -> Stores \cup {Absent}]
    BY DEF CollInv
  <2>. QED BY <1>2, <1>3, <2>1, <2>2 DEF CollInv, Constructed
<1>5. Content(d)' = FnOf(d, t)
  <2>1. Content(d)' = ArrayContent(d, t)
    BY <1>1, <1>2, ContentOfArray DEF Constructed
  <2>. QED BY <2>1, ArrayContentIs
<1>6. \A e \in AllIds : e # d => Content(e)' = Content(e)
  <2> SUFFICES ASSUME NEW e \in AllIds, e # d
               PROVE  Content(e)' = Content(e)
    OBVIOUS
  <2>1. CASE e \in Maps \cup Sets
    <3>1. entries'[e] = entries[e]
      BY <1>2, <2>1
    <3>. QED BY <2>1, <3>1, ContentOfArray DEF Constructed
  <2>2. CASE e \in WeakMaps \cup WeakSets
    BY <2>2, ContentOfWeak
  <2>. QED BY <2>1, <2>2 DEF AllIds
<1>7. contents' = [contents EXCEPT ![d] = FnOf(d, t)]
  BY <1>5, <1>6 DEF contents
<1>. QED BY <1>2, <1>4, <1>7

(* The steps of the dictionary, in the terms of the mapping. *)
LEMMA DictNew ==
  ASSUME NEW d, NEW f, d \in AllIds, contents[d] = Absent, f \in Sources,
         contents' = [contents EXCEPT ![d] = f]
  PROVE  D!Next
<1>1. contents[d] = Absent /\ \E g \in Sources : contents' = [contents EXCEPT ![d] = g]
  OBVIOUS
<1>2. D!New(d)
  BY <1>1 DEF D!New
<1>. QED BY <1>2 DEF D!Next

(* set() and add(). *)
LEMMA DictPut ==
  ASSUME NEW d, NEW k, NEW v, d \in AllIds, k \in Keys \ Opaque, v \in Vals \cup Keys,
         contents[d] # Absent, contents' = [contents EXCEPT ![d] = D!Bound(contents[d], k, v)]
  PROVE  D!Next
<1>1. D!Put(d, k, v)
  BY DEF D!Put
<1>. QED BY <1>1 DEF D!Next

(* delete(). *)
LEMMA DictDrop ==
  ASSUME NEW d, NEW k, d \in AllIds, k \in Keys \ Opaque,
         contents[d] # Absent, contents' = [contents EXCEPT ![d] = D!Without(contents[d], k)]
  PROVE  D!Next
<1>1. D!Drop(d, k)
  BY DEF D!Drop
<1>. QED BY <1>1 DEF D!Next

(* clear(). *)
LEMMA DictEmpty ==
  ASSUME NEW d, d \in AllIds, contents[d] # Absent,
         contents' = [contents EXCEPT ![d] = [k \in {} |-> k]]
  PROVE  D!Next
<1>1. D!Empty(d)
  BY DEF D!Empty
<1>. QED BY <1>1 DEF D!Next

(* Nothing is written that was not there. *)
LEMMA ContentsSame ==
  ASSUME NEW d, d \in AllIds, contents' = [contents EXCEPT ![d] = contents[d]]
  PROVE  contents' = contents
BY DEF contents

(* When the arrays and the weak stores stay, so does what they stand for. *)
LEMMA ContentsKept ==
  ASSUME entries' = entries, weak' = weak
  PROVE  contents' = contents
<1>1. \A e \in AllIds : Content(e)' = Content(e)
  <2> TAKE e \in AllIds
  <2>1. CASE e \in Maps \cup Sets
    BY <2>1, ContentOfArray DEF Constructed
  <2>2. CASE e \in WeakMaps \cup WeakSets
    BY <2>2, ContentOfWeak
  <2>. QED BY <2>1, <2>2 DEF AllIds
<1>. QED BY <1>1 DEF contents

-----------------------------------------------------------------------------
(* The methods that wait for a callback. *)

(* A sequence is one of its elements. *)
LEMMA OfItsElements ==
  ASSUME NEW S, NEW s, s \in Seq(S)
  PROVE  s \in Seq(Range(s)) /\ DOMAIN s = 1..Len(s) /\ Len(s) \in Nat
BY DEF Range

(* What is on the stack is a sequence of records. *)
LEMMA StackForm ==
  ASSUME NEW cs, NEW es, CallsFit(cs, es)
  PROVE  /\ Len(cs) \in Nat /\ DOMAIN cs = 1..Len(cs) /\ Len(cs) <= MaxCalls
         /\ cs # <<>> => Len(cs) \in DOMAIN cs
         /\ \A k \in 0..Len(cs) : /\ Len(SubSeq(cs, 1, k)) = k /\ DOMAIN SubSeq(cs, 1, k) = 1..k
                                  /\ SubSeq(cs, 1, k) \in Seq(Range(cs))
                                  /\ \A j \in 1..k : SubSeq(cs, 1, k)[j] = cs[j]
<1>1. cs \in Seq(Range(cs)) /\ Len(cs) <= MaxCalls
  BY DEF CallsFit
<1>2. cs # <<>> => Len(cs) \in DOMAIN cs
  BY <1>1
<1>3. \A k \in 0..Len(cs) : /\ Len(SubSeq(cs, 1, k)) = k /\ DOMAIN SubSeq(cs, 1, k) = 1..k
                            /\ SubSeq(cs, 1, k) \in Seq(Range(cs))
                            /\ \A j \in 1..k : SubSeq(cs, 1, k)[j] = cs[j]
  BY <1>1
<1>. QED BY <1>1, <1>2, <1>3

(* Methods that are left take nothing from those below. *)
LEMMA StackLeft ==
  ASSUME NEW cs, NEW es, NEW k, CallsFit(cs, es), k \in 0..Len(cs)
  PROVE  CallsFit(SubSeq(cs, 1, k), es)
<1> DEFINE t == SubSeq(cs, 1, k)
<1>1. /\ Len(cs) \in Nat /\ DOMAIN cs = 1..Len(cs) /\ Len(cs) <= MaxCalls /\ MaxCalls \in Nat
      /\ Len(t) = k /\ DOMAIN t = 1..k /\ t \in Seq(Range(cs)) /\ \A j \in 1..k : t[j] = cs[j]
  BY StackForm, CollectionsAssumption
<1> HIDE DEF t
<1>2. t \in Seq(Range(t))
  BY <1>1, OfItsElements
<1>3. \A j \in DOMAIN t : CallFits(t[j], es)
  BY <1>1 DEF CallsFit
<1>4. Len(t) <= MaxCalls
  BY <1>1
<1>. QED BY <1>2, <1>3, <1>4 DEF CallsFit, t

(* One that fits is put on top. *)
LEMMA StackPushed ==
  ASSUME NEW cs, NEW es, NEW c, CallsFit(cs, es), Len(cs) < MaxCalls, CallFits(c, es)
  PROVE  /\ CallsFit(Append(cs, c), es) /\ Len(Append(cs, c)) = Len(cs) + 1
<1> DEFINE t == Append(cs, c)
<1>1. cs \in Seq(Range(cs)) /\ Len(cs) \in Nat /\ DOMAIN cs = 1..Len(cs) /\ MaxCalls \in Nat
  BY StackForm, CollectionsAssumption DEF CallsFit
<1>2. t \in Seq(Range(cs) \cup {c}) /\ Len(t) = Len(cs) + 1 /\ DOMAIN t = 1..(Len(cs) + 1)
      /\ \A j \in 1..Len(cs) : t[j] = cs[j]
  BY <1>1
<1>3. t[Len(cs) + 1] = c
  BY <1>1
<1> HIDE DEF t
<1>4. t \in Seq(Range(t)) /\ Len(t) <= MaxCalls
  BY <1>1, <1>2, OfItsElements
<1>5. ASSUME NEW j \in DOMAIN t
      PROVE  CallFits(t[j], es)
  <2>1. j \in 1..Len(cs) \/ j = Len(cs) + 1
    BY <1>1, <1>2
  <2>2. CASE j \in 1..Len(cs)
    BY <1>1, <1>2, <2>2 DEF CallsFit
  <2>3. CASE j = Len(cs) + 1
    BY <1>3, <2>3
  <2>. QED BY <2>1, <2>2, <2>3
<1>. QED BY <1>2, <1>4, <1>5 DEF CallsFit, t

(* A walk goes on while what it began with still leads. *)
LEMMA WalkKept ==
  ASSUME NEW c, NEW s, NEW t, WalkOn(c, s), t # Absent,
         Leads(KeySeq(c.id, s), KeySeq(c.id, t))
  PROVE  WalkOn(c, t)
<1>1. Leads(KeySeq(c.id, c.start), KeySeq(c.id, s)) => Leads(KeySeq(c.id, c.start), KeySeq(c.id, t))
  BY DEF Leads
<1>. QED BY <1>1 DEF WalkOn

(* An entry that has gone leaves nothing to promise. *)
LEMMA WalkMarked ==
  ASSUME NEW c, NEW s, NEW t, WalkOn(c, s), t # Absent
  PROVE  WalkOn([c EXCEPT !.touched = TRUE], t)
<1> DEFINE r == [c EXCEPT !.touched = TRUE]
<1>1. c \in WalkFields("Map.forEach", Maps) \cup WalkFields("Set.forEach", Sets)
  BY DEF WalkOn
<1>2. /\ r \in WalkFields("Map.forEach", Maps) \cup WalkFields("Set.forEach", Sets)
      /\ r.id = c.id /\ r.start = c.start /\ r.n = c.n /\ r.touched
  BY <1>1 DEF WalkFields
<1>. QED BY <1>2 DEF WalkOn

(* The same of a method of an array. *)
LEMMA CallMarked ==
  ASSUME NEW c, CallSound(c)
  PROVE  CallSound([c EXCEPT !.touched = TRUE]) /\ ~ Walking(c) /\ c.id \notin Maps \cup Sets
<1> DEFINE r == [c EXCEPT !.touched = TRUE]
<1>1. c = [f \in CallFields |-> c[f]]
  BY DEF CallSound
<1>2. /\ r = [f \in CallFields |-> r[f]] /\ r.m = c.m /\ r.id = c.id /\ r.i = c.i /\ r.n = c.n
      /\ r.item = c.item /\ r.start = c.start
  BY <1>1 DEF CallFields
<1>3. CallSound(r)
  BY <1>2 DEF CallSound
<1>4. ~ Walking(c)
  BY DEF CallSound, Walking, Up1, Down1, Folding, Sorting
<1>. QED BY <1>3, <1>4, ArrayMethodsAssumption DEF CallSound

(* Marking the methods of one collection or array. *)
LEMMA StackMarked ==
  ASSUME NEW cs, NEW es, NEW ft, NEW d, CallsFit(cs, es),
         \A e \in Maps \cup Sets : e # d => ft[e] = es[e],
         d \in Maps \cup Sets => ft[d] # Absent
  PROVE  CallsFit([j \in DOMAIN cs |->
                     IF cs[j].id = d THEN [cs[j] EXCEPT !.touched = TRUE] ELSE cs[j]], ft)
<1> DEFINE mark(j) == IF cs[j].id = d THEN [cs[j] EXCEPT !.touched = TRUE] ELSE cs[j]
           t == [j \in DOMAIN cs |-> mark(j)]
           S == {mark(j) : j \in DOMAIN cs}
<1>1. Len(cs) \in Nat /\ DOMAIN cs = 1..Len(cs) /\ Len(cs) <= MaxCalls
  BY StackForm
<1>2. ASSUME NEW j \in DOMAIN cs
      PROVE  CallFits(mark(j), ft)
  <2>1. CallFits(cs[j], es)
    BY DEF CallsFit
  <2>2. CASE Walking(cs[j])
    <3>1. WalkOn(cs[j], es[cs[j].id])
      BY <2>1, <2>2 DEF CallFits
    <3>2. cs[j].id \in Maps \cup Sets
      BY <3>1 DEF WalkOn, WalkFields
    <3>3. CASE cs[j].id = d
      <4>1. WalkOn(mark(j), ft[d])
        BY <3>1, <3>2, <3>3, WalkMarked
      <4>2. mark(j).id = d /\ mark(j).m = cs[j].m
        BY <3>1, <3>3 DEF WalkOn, WalkFields
      <4> HIDE DEF mark
      <4>. QED BY <2>2, <4>1, <4>2 DEF CallFits, Walking
    <3>4. CASE cs[j].id # d
      BY <2>2, <3>1, <3>2, <3>4 DEF CallFits
    <3>. QED BY <3>3, <3>4
  <2>3. CASE ~ Walking(cs[j])
    <3>1. CallSound(cs[j])
      BY <2>1, <2>3 DEF CallFits
    <3>2. CallSound(mark(j)) /\ ~ Walking(mark(j))
      BY <2>3, <3>1, CallMarked
    <3> HIDE DEF mark
    <3>. QED BY <3>2 DEF CallFits
  <2>. QED BY <2>2, <2>3
<1> HIDE DEF mark
<1>3. t \in Seq(S) /\ DOMAIN t = DOMAIN cs /\ \A j \in DOMAIN t : t[j] = mark(j)
  BY <1>1
<1> HIDE DEF t, S
<1>4. t \in Seq(Range(t)) /\ Len(t) = Len(cs)
  BY <1>1, <1>3, OfItsElements
<1>5. CallsFit(t, ft)
  BY <1>1, <1>2, <1>3, <1>4 DEF CallsFit
<1>. QED BY <1>5 DEF mark, t

(* Marking keeps the stack's length. *)
LEMMA MarkedLength ==
  ASSUME NEW cs, NEW es, NEW d, CallsFit(cs, es)
  PROVE  LET t == [j \in DOMAIN cs |->
                     IF cs[j].id = d THEN [cs[j] EXCEPT !.touched = TRUE] ELSE cs[j]]
         IN Len(t) = Len(cs) /\ DOMAIN t = DOMAIN cs
<1> DEFINE mark(j) == IF cs[j].id = d THEN [cs[j] EXCEPT !.touched = TRUE] ELSE cs[j]
           t == [j \in DOMAIN cs |-> mark(j)]
<1>1. Len(cs) \in Nat /\ DOMAIN cs = 1..Len(cs)
  BY StackForm
<1> HIDE DEF mark
<1>2. Len(t) = Len(cs) /\ DOMAIN t = DOMAIN cs
  BY <1>1
<1>. QED BY <1>2 DEF mark

(* Rows that lead are no obstacle to the walks. *)
LEMMA StackGrown ==
  ASSUME NEW cs, NEW es, NEW ft, CallsFit(cs, es),
         \A e \in Maps \cup Sets :
           es[e] # Absent => ft[e] # Absent /\ Leads(KeySeq(e, es[e]), KeySeq(e, ft[e]))
  PROVE  CallsFit(cs, ft)
<1>1. ASSUME NEW j \in DOMAIN cs
      PROVE  CallFits(cs[j], ft)
  <2>1. CallFits(cs[j], es)
    BY DEF CallsFit
  <2>2. CASE Walking(cs[j])
    <3>1. WalkOn(cs[j], es[cs[j].id])
      BY <2>1, <2>2 DEF CallFits
    <3>2. cs[j].id \in Maps \cup Sets /\ es[cs[j].id] # Absent
      BY <3>1 DEF WalkOn, WalkFields
    <3>3. ft[cs[j].id] # Absent /\ Leads(KeySeq(cs[j].id, es[cs[j].id]), KeySeq(cs[j].id, ft[cs[j].id]))
      BY <3>2
    <3>4. WalkOn(cs[j], ft[cs[j].id])
      BY <3>1, <3>3, WalkKept
    <3>. QED BY <2>2, <3>4 DEF CallFits
  <2>3. CASE ~ Walking(cs[j])
    BY <2>1, <2>3 DEF CallFits
  <2>. QED BY <2>2, <2>3
<1>. QED BY <1>1 DEF CallsFit

(* A walk begins at the first row. *)
LEMMA WalkBegins ==
  ASSUME NEW d, NEW m, NEW ids, Rows(d, entries[d]), Constructed(d),
         \/ m = "Map.forEach" /\ ids = Maps
         \/ m = "Set.forEach" /\ ids = Sets,
         d \in ids
  PROVE  /\ Between(Walk(m, d), entries[d]) /\ Walk(m, d).m = m /\ Walk(m, d).id = d
         /\ Walk(m, d) \in WalkFields(m, ids)
<1> DEFINE c == Walk(m, d)
           s == entries[d]
<1>1. /\ c.m = m /\ c.id = d /\ c.i = 0 /\ c.n = Len(s) /\ c.start = s /\ c.seen = <<>> /\ ~ c.touched
  BY DEF Walk
<1>2. s \in Seq(Keys \cup Vals) /\ Len(s) \in Nat /\ KeySeq(d, s) \in Seq(Keys)
  BY DEF Rows
<1>3. c \in WalkFields(m, ids)
  BY <1>2 DEF Walk, WalkFields
<1>4. c \in WalkFields("Map.forEach", Maps) \cup WalkFields("Set.forEach", Sets)
  BY <1>3
<1>5. Leads(KeySeq(d, s), KeySeq(d, s))
  BY DEF Leads
<1> HIDE DEF c
<1>6. Len(c.seen) = 0 /\ DOMAIN c.seen = {} /\ 0 <= Len(KeySeq(d, s))
  BY <1>1, <1>2
<1>. QED BY <1>1, <1>3, <1>4, <1>5, <1>6 DEF Between, c

(* The index goes on by one row. *)
LEMMA MapNextRow ==
  ASSUME NEW c, NEW s, WalkOn(c, s), Rows(c.id, s), c.m = "Map.forEach"
  PROVE  /\ Between([c EXCEPT !.i = @ + 2], s) /\ [c EXCEPT !.i = @ + 2] \in WalkFields("Map.forEach", Maps)
         /\ [c EXCEPT !.i = @ + 2].id = c.id /\ [c EXCEPT !.i = @ + 2].seen = c.seen
         /\ [c EXCEPT !.i = @ + 2].start = c.start /\ [c EXCEPT !.i = @ + 2].touched = c.touched
<1> DEFINE r == [c EXCEPT !.i = @ + 2]
<1>1. c \in WalkFields("Map.forEach", Maps)
  BY DEF WalkOn, WalkFields
<1>2. /\ r \in WalkFields("Map.forEach", Maps) /\ r.i = c.i + 2
      /\ r.m = c.m /\ r.id = c.id /\ r.n = c.n /\ r.start = c.start /\ r.seen = c.seen
      /\ r.touched = c.touched
  <2> DEFINE j == c.i + 2
  <2>1. c.i \in Nat
    BY <1>1 DEF WalkFields
  <2>2. j \in Nat
    BY <2>1
  <2> HIDE DEF j
  <2>3. r = [c EXCEPT !.i = j]
    BY DEF j
  <2> HIDE DEF r
  <2>4. r \in WalkFields("Map.forEach", Maps) /\ r.i = j
    BY <1>1, <2>2, <2>3 DEF WalkFields
  <2>5. /\ r.m = c.m /\ r.id = c.id /\ r.n = c.n /\ r.start = c.start /\ r.seen = c.seen
        /\ r.touched = c.touched
    BY <1>1, <2>3 DEF WalkFields
  <2>. QED BY <2>4, <2>5 DEF j
<1> HIDE DEF r
<1>3. c.id \in Maps /\ c.seen \in Seq(Seq(Keys \cup Vals \cup {Undefined})) /\ Len(c.seen) \in Nat
  BY <1>1 DEF WalkFields
<1>4. ~ c.touched =>
        /\ Leads(KeySeq(c.id, c.start), KeySeq(c.id, s))
        /\ Len(c.seen) <= Len(KeySeq(c.id, c.start))
        /\ \A i \in DOMAIN c.seen : c.seen[i][1] = KeySeq(c.id, c.start)[i]
        /\ c.i = 2 * (Len(c.seen) - 1)
  BY <1>3 DEF WalkOn, InOrder
<1>5. ~ c.touched => r.i = 2 * Len(c.seen)
  BY <1>2, <1>3, <1>4
<1>6. Rows(c.id, c.start) /\ c.n = Len(c.start)
  BY DEF WalkOn
<1>. QED BY <1>2, <1>3, <1>4, <1>5, <1>6 DEF Between, r

(* The same of a Set, whose rows are one element. *)
LEMMA SetNextRow ==
  ASSUME NEW c, NEW s, WalkOn(c, s), Rows(c.id, s), c.m = "Set.forEach"
  PROVE  /\ Between([c EXCEPT !.i = @ + 1], s) /\ [c EXCEPT !.i = @ + 1] \in WalkFields("Set.forEach", Sets)
         /\ [c EXCEPT !.i = @ + 1].id = c.id /\ [c EXCEPT !.i = @ + 1].seen = c.seen
         /\ [c EXCEPT !.i = @ + 1].start = c.start /\ [c EXCEPT !.i = @ + 1].touched = c.touched
<1> DEFINE r == [c EXCEPT !.i = @ + 1]
<1>1. c \in WalkFields("Set.forEach", Sets)
  BY DEF WalkOn, WalkFields
<1>2. /\ r \in WalkFields("Set.forEach", Sets) /\ r.i = c.i + 1
      /\ r.m = c.m /\ r.id = c.id /\ r.n = c.n /\ r.start = c.start /\ r.seen = c.seen
      /\ r.touched = c.touched
  <2> DEFINE j == c.i + 1
  <2>1. c.i \in Nat
    BY <1>1 DEF WalkFields
  <2>2. j \in Nat
    BY <2>1
  <2> HIDE DEF j
  <2>3. r = [c EXCEPT !.i = j]
    BY DEF j
  <2> HIDE DEF r
  <2>4. r \in WalkFields("Set.forEach", Sets) /\ r.i = j
    BY <1>1, <2>2, <2>3 DEF WalkFields
  <2>5. /\ r.m = c.m /\ r.id = c.id /\ r.n = c.n /\ r.start = c.start /\ r.seen = c.seen
        /\ r.touched = c.touched
    BY <1>1, <2>3 DEF WalkFields
  <2>. QED BY <2>4, <2>5 DEF j
<1> HIDE DEF r
<1>3. c.id \in Sets /\ c.seen \in Seq(Seq(Keys \cup Vals \cup {Undefined})) /\ Len(c.seen) \in Nat
  BY <1>1 DEF WalkFields
<1>4. c.id \notin Maps
  BY <1>3, SetRowsForm
<1>5. ~ c.touched =>
        /\ Leads(KeySeq(c.id, c.start), KeySeq(c.id, s))
        /\ Len(c.seen) <= Len(KeySeq(c.id, c.start))
        /\ \A i \in DOMAIN c.seen : c.seen[i][1] = KeySeq(c.id, c.start)[i]
        /\ c.i = Len(c.seen) - 1
  BY <1>3, <1>4 DEF WalkOn, InOrder
<1>6. ~ c.touched => r.i = Len(c.seen)
  BY <1>2, <1>3, <1>5
<1>7. Rows(c.id, c.start) /\ c.n = Len(c.start)
  BY DEF WalkOn
<1>. QED BY <1>2, <1>4, <1>5, <1>6, <1>7 DEF Between, r

(* A visit puts the walk on the stack at its row, unless it has ended, and one
   during which nothing was taken out ends when it has seen every row. *)
LEMMA MapVisits ==
  ASSUME NEW c, NEW rest, NEW s, s = entries[c.id], Between(c, s), s # Absent,
         c \in WalkFields("Map.forEach", Maps), CallsFit(rest, entries), Len(rest) < MaxCalls
  PROVE  /\ CallsFit(MapVisit(c, rest), entries)
         /\ Len(MapVisit(c, rest)) >= Len(rest)
         /\ Len(MapVisit(c, rest)) = Len(rest) /\ ~ c.touched => Len(c.seen) = Len(KeySeq(c.id, c.start))
<1> DEFINE w == <<Get(s, c.i), Get(s, c.i + 1)>>
           r == [c EXCEPT !.seen = Append(@, w)]
           ks == KeySeq(c.id, c.start)
<1>1. /\ c.id \in Maps /\ c.i \in Nat /\ c.n \in Nat /\ c.start \in Seq(Keys \cup Vals)
      /\ c.seen \in Seq(Seq(Keys \cup Vals \cup {Undefined})) /\ Len(c.seen) \in Nat
      /\ c.touched \in BOOLEAN /\ c.m = "Map.forEach"
  BY DEF WalkFields
<1>2. /\ Rows(c.id, s) /\ Rows(c.id, c.start) /\ c.n = Len(c.start)
      /\ ~ c.touched =>
           /\ Leads(ks, KeySeq(c.id, s))
           /\ Len(c.seen) <= Len(ks)
           /\ \A i \in DOMAIN c.seen : c.seen[i][1] = ks[i]
           /\ c.i = 2 * Len(c.seen)
  BY <1>1 DEF Between
<1>3. /\ Len(ks) \in Nat /\ DOMAIN ks = 1..Len(ks) /\ Len(c.start) = 2 * Len(ks)
  BY <1>1, <1>2, MapRowsForm
<1>4. /\ Len(s) = 2 * Len(KeySeq(c.id, s)) /\ Len(KeySeq(c.id, s)) \in Nat
      /\ DOMAIN KeySeq(c.id, s) = 1..Len(KeySeq(c.id, s))
      /\ \A j \in DOMAIN KeySeq(c.id, s) : KeySeq(c.id, s)[j] = s[2 * j - 1]
  BY <1>1, <1>2, MapRowsForm
<1>5. s \in Seq(Keys \cup Vals)
  BY <1>2 DEF Rows
<1>6. w \in Seq(Keys \cup Vals \cup {Undefined}) /\ w[1] = Get(s, c.i)
  <2>1. Get(s, c.i) \in Keys \cup Vals \cup {Undefined} /\ Get(s, c.i + 1) \in Keys \cup Vals \cup {Undefined}
    BY <1>1, <1>5 DEF Get
  <2>. QED BY <2>1
<1> HIDE DEF ks, w
<1>7. CASE c.i < c.n
  <2>1. /\ r \in WalkFields("Map.forEach", Maps) /\ r.m = c.m /\ r.id = c.id /\ r.start = c.start
        /\ r.n = c.n /\ r.i = c.i /\ r.touched = c.touched /\ r.seen = Append(c.seen, w)
    <3> DEFINE q == Append(c.seen, w)
    <3>1. q \in Seq(Seq(Keys \cup Vals \cup {Undefined}))
      BY <1>1, <1>6
    <3> HIDE DEF q
    <3>2. LET e == [c EXCEPT !.seen = q]
          IN /\ e \in WalkFields("Map.forEach", Maps) /\ e.m = c.m /\ e.id = c.id /\ e.start = c.start
             /\ e.n = c.n /\ e.i = c.i /\ e.touched = c.touched /\ e.seen = q
      BY <3>1 DEF WalkFields
    <3>. QED BY <3>2 DEF q
  <2>2. /\ Len(r.seen) = Len(c.seen) + 1 /\ DOMAIN r.seen = 1..(Len(c.seen) + 1)
        /\ \A j \in 1..Len(c.seen) : r.seen[j] = c.seen[j]
        /\ r.seen[Len(c.seen) + 1] = w /\ DOMAIN c.seen = 1..Len(c.seen)
    BY <1>1, <1>6, <2>1
  <2> HIDE DEF r
  <2>3. ASSUME ~ c.touched
        PROVE  /\ InOrder(r) /\ r.i = 2 * (Len(r.seen) - 1)
    <3>1. Len(c.seen) + 1 \in 1..Len(ks) /\ c.i = 2 * Len(c.seen)
      BY <1>1, <1>2, <1>3, <1>7, <2>3
    <3>2. Len(c.seen) + 1 \in DOMAIN KeySeq(c.id, s) /\ KeySeq(c.id, s)[Len(c.seen) + 1] = ks[Len(c.seen) + 1]
      BY <1>2, <1>3, <2>3, <3>1 DEF Leads
    <3>3. Get(s, c.i) = ks[Len(c.seen) + 1]
      <4>1. c.i + 1 = 2 * (Len(c.seen) + 1) - 1 /\ c.i \in 0..(Len(s) - 1)
        BY <1>1, <1>4, <3>1, <3>2
      <4>2. Get(s, c.i) = s[c.i + 1]
        BY <4>1 DEF Get
      <4>3. KeySeq(c.id, s)[Len(c.seen) + 1] = s[2 * (Len(c.seen) + 1) - 1]
        BY <1>4, <3>2
      <4>. QED BY <3>2, <4>1, <4>2, <4>3
    <3>4. \A i \in DOMAIN r.seen : r.seen[i][1] = ks[i]
      <4> TAKE i \in DOMAIN r.seen
      <4>1. i \in 1..Len(c.seen) \/ i = Len(c.seen) + 1
        BY <1>1, <2>2
      <4>. QED BY <1>2, <1>6, <2>2, <2>3, <3>3, <4>1
    <3>. QED BY <1>1, <2>1, <2>2, <3>1, <3>4 DEF InOrder, ks
  <2>4. WalkOn(r, s)
    BY <1>1, <1>2, <2>1, <2>3 DEF WalkOn, ks
  <2>5. CallFits(r, entries)
    BY <1>1, <2>1, <2>4 DEF CallFits, Walking
  <2>6. MapVisit(c, rest) = Append(rest, r)
    BY <1>7 DEF MapVisit, r, w
  <2>7. CallsFit(Append(rest, r), entries) /\ Len(Append(rest, r)) = Len(rest) + 1
    BY <2>5, StackPushed
  <2>8. Len(rest) \in Nat
    BY StackForm
  <2>. QED BY <2>6, <2>7, <2>8
<1>8. CASE ~ (c.i < c.n)
  <2>1. MapVisit(c, rest) = rest
    BY <1>8 DEF MapVisit
  <2>2. ~ c.touched => Len(c.seen) = Len(ks)
    BY <1>1, <1>2, <1>3, <1>8
  <2>3. Len(rest) \in Nat
    BY StackForm
  <2>. QED BY <2>1, <2>2, <2>3 DEF ks
<1>. QED BY <1>7, <1>8

(* The same of a Set. *)
LEMMA SetVisits ==
  ASSUME NEW c, NEW rest, NEW s, s = entries[c.id], Between(c, s), s # Absent,
         c \in WalkFields("Set.forEach", Sets), CallsFit(rest, entries), Len(rest) < MaxCalls
  PROVE  /\ CallsFit(SetVisit(c, rest), entries)
         /\ Len(SetVisit(c, rest)) >= Len(rest)
         /\ Len(SetVisit(c, rest)) = Len(rest) /\ ~ c.touched => Len(c.seen) = Len(KeySeq(c.id, c.start))
<1> DEFINE w == <<Get(s, c.i)>>
           r == [c EXCEPT !.seen = Append(@, w)]
<1>1. /\ c.id \in Sets /\ c.i \in Nat /\ c.n \in Nat /\ c.start \in Seq(Keys \cup Vals)
      /\ c.seen \in Seq(Seq(Keys \cup Vals \cup {Undefined})) /\ Len(c.seen) \in Nat
      /\ c.touched \in BOOLEAN /\ c.m = "Set.forEach"
  BY DEF WalkFields
<1>2. /\ c.id \notin Maps /\ KeySeq(c.id, s) = s /\ KeySeq(c.id, c.start) = c.start
  BY <1>1, SetRowsForm
<1>3. /\ c.n = Len(c.start) /\ s \in Seq(Keys \cup Vals)
      /\ ~ c.touched =>
           /\ Leads(c.start, s)
           /\ Len(c.seen) <= Len(c.start)
           /\ \A i \in DOMAIN c.seen : c.seen[i][1] = c.start[i]
           /\ c.i = Len(c.seen)
  BY <1>1, <1>2 DEF Between, Rows
<1>4. w \in Seq(Keys \cup Vals \cup {Undefined}) /\ w[1] = Get(s, c.i)
  <2>1. Get(s, c.i) \in Keys \cup Vals \cup {Undefined}
    BY <1>1, <1>3 DEF Get
  <2>. QED BY <2>1
<1>5. Rows(c.id, c.start)
  BY DEF Between
<1> HIDE DEF w
<1>7. CASE c.i < c.n
  <2>1. /\ r \in WalkFields("Set.forEach", Sets) /\ r.m = c.m /\ r.id = c.id /\ r.start = c.start
        /\ r.n = c.n /\ r.i = c.i /\ r.touched = c.touched /\ r.seen = Append(c.seen, w)
    <3> DEFINE q == Append(c.seen, w)
    <3>1. q \in Seq(Seq(Keys \cup Vals \cup {Undefined}))
      BY <1>1, <1>4
    <3> HIDE DEF q
    <3>2. LET e == [c EXCEPT !.seen = q]
          IN /\ e \in WalkFields("Set.forEach", Sets) /\ e.m = c.m /\ e.id = c.id /\ e.start = c.start
             /\ e.n = c.n /\ e.i = c.i /\ e.touched = c.touched /\ e.seen = q
      BY <3>1 DEF WalkFields
    <3>. QED BY <3>2 DEF q
  <2>2. /\ Len(r.seen) = Len(c.seen) + 1 /\ DOMAIN r.seen = 1..(Len(c.seen) + 1)
        /\ \A j \in 1..Len(c.seen) : r.seen[j] = c.seen[j]
        /\ r.seen[Len(c.seen) + 1] = w /\ DOMAIN c.seen = 1..Len(c.seen)
    BY <1>1, <1>4, <2>1
  <2> HIDE DEF r
  <2>3. ASSUME ~ c.touched
        PROVE  /\ InOrder(r) /\ r.i = Len(r.seen) - 1
    <3>1. Len(c.seen) + 1 \in 1..Len(c.start) /\ c.i = Len(c.seen)
      BY <1>1, <1>3, <1>7, <2>3
    <3>2. Len(c.seen) + 1 \in DOMAIN s /\ s[Len(c.seen) + 1] = c.start[Len(c.seen) + 1]
      BY <1>1, <1>3, <2>3, <3>1 DEF Leads
    <3>3. Get(s, c.i) = c.start[Len(c.seen) + 1]
      BY <1>1, <1>3, <3>1, <3>2 DEF Get
    <3>4. \A i \in DOMAIN r.seen : r.seen[i][1] = c.start[i]
      <4> TAKE i \in DOMAIN r.seen
      <4>1. i \in 1..Len(c.seen) \/ i = Len(c.seen) + 1
        BY <1>1, <2>2
      <4>. QED BY <1>3, <1>4, <2>2, <2>3, <3>3, <4>1
    <3>. QED BY <1>1, <1>2, <2>1, <2>2, <3>1, <3>4 DEF InOrder
  <2>4. WalkOn(r, s)
    BY <1>1, <1>2, <1>3, <1>5, <2>1, <2>3 DEF WalkOn
  <2>5. CallFits(r, entries)
    BY <1>1, <2>1, <2>4 DEF CallFits, Walking
  <2>6. SetVisit(c, rest) = Append(rest, r)
    BY <1>7 DEF SetVisit, r, w
  <2>7. CallsFit(Append(rest, r), entries) /\ Len(Append(rest, r)) = Len(rest) + 1
    BY <2>5, StackPushed
  <2>8. Len(rest) \in Nat
    BY StackForm
  <2>. QED BY <2>6, <2>7, <2>8
<1>8. CASE ~ (c.i < c.n)
  <2>1. SetVisit(c, rest) = rest
    BY <1>8 DEF SetVisit
  <2>2. ~ c.touched => Len(c.seen) = Len(c.start)
    BY <1>1, <1>3, <1>8
  <2>3. Len(rest) \in Nat
    BY StackForm
  <2>. QED BY <1>2, <2>1, <2>2, <2>3
<1>. QED BY <1>7, <1>8

-----------------------------------------------------------------------------
(* The order of the keys. *)

(* set() and add() leave the keys in place. *)
LEMMA KeysStay ==
  ASSUME NEW d, NEW s, NEW t, KeySeq(d, s) \in Seq(Keys),
         KeySeq(d, t) = KeySeq(d, s) \/ \E k \in Keys : KeySeq(d, t) = Append(KeySeq(d, s), k)
  PROVE  KeysGoOn(d, s, t) /\ Leads(KeySeq(d, s), KeySeq(d, t))
<1> DEFINE ks == KeySeq(d, s)
           kt == KeySeq(d, t)
<1> HIDE DEF ks, kt
<1>0. ks \in Seq(Keys) /\ Len(ks) \in Nat /\ DOMAIN ks = 1..Len(ks) /\ SubSeq(ks, 1, Len(ks)) = ks
  BY DEF ks
<1>1. CASE kt = ks
  BY <1>0, <1>1 DEF KeysGoOn, Leads, ks, kt
<1>2. CASE \E k \in Keys : kt = Append(ks, k)
  <2>1. PICK k \in Keys : kt = Append(ks, k)
    BY <1>2
  <2>2. /\ Len(kt) = Len(ks) + 1 /\ DOMAIN kt = 1..(Len(ks) + 1) /\ kt \in Seq(Keys)
        /\ \A j \in DOMAIN ks : kt[j] = ks[j]
    BY <1>0, <2>1
  <2>3. SubSeq(kt, 1, Len(ks)) = ks
    <3>1. /\ SubSeq(kt, 1, Len(ks)) \in Seq(Keys) /\ Len(SubSeq(kt, 1, Len(ks))) = Len(ks)
          /\ \A j \in 1..Len(ks) : SubSeq(kt, 1, Len(ks))[j] = kt[j]
      BY <1>0, <2>2
    <3>. QED BY <1>0, <2>2, <3>1, SeqEqual
  <2>4. Len(kt) >= Len(ks) /\ Len(kt) <= Len(ks) + 1
    BY <1>0, <2>2
  <2>5. \A j \in DOMAIN ks : j \in DOMAIN kt
    BY <1>0, <2>2
  <2>. QED BY <2>2, <2>3, <2>4, <2>5 DEF KeysGoOn, Leads, ks, kt
<1>. QED BY <1>1, <1>2 DEF ks, kt

(* delete() takes one out and keeps the others in order. *)
LEMMA KeysClose ==
  ASSUME NEW d, NEW s, NEW t, NEW i, KeySeq(d, s) \in Seq(Keys), i \in DOMAIN KeySeq(d, s),
         TakenOut(KeySeq(d, s), KeySeq(d, t), i)
  PROVE  KeysGoOn(d, s, t)
<1> DEFINE ks == KeySeq(d, s)
           kt == KeySeq(d, t)
           a == SubSeq(ks, 1, i - 1)
           b == SubSeq(ks, i + 1, Len(ks))
<1> HIDE DEF ks, kt
<1>0. ks \in Seq(Keys) /\ Len(ks) \in Nat /\ DOMAIN ks = 1..Len(ks) /\ i \in 1..Len(ks)
  BY DEF ks
<1>1. /\ kt \in Seq(Keys) /\ Len(kt) = Len(ks) - 1 /\ DOMAIN kt = 1..(Len(ks) - 1)
      /\ \A j \in DOMAIN kt : kt[j] = IF j < i THEN ks[j] ELSE ks[j + 1]
  BY <1>0 DEF TakenOut, ks, kt
<1>2. a \in Seq(Keys) /\ Len(a) = i - 1 /\ \A j \in 1..(i - 1) : a[j] = ks[j]
  BY <1>0
<1>3. b \in Seq(Keys) /\ Len(b) = Len(ks) - i /\ \A j \in 1..(Len(ks) - i) : b[j] = ks[j + i]
  <2>1. \A j \in 1..(Len(ks) - i) : i + 1 + j - 1 = j + i
    BY <1>0
  <2>. QED BY <1>0, <2>1
<1> HIDE DEF a, b
<1>4. /\ a \o b \in Seq(Keys) /\ Len(a \o b) = Len(a) + Len(b)
      /\ \A j \in 1..(Len(a) + Len(b)) : (a \o b)[j] = IF j <= Len(a) THEN a[j] ELSE b[j - Len(a)]
  BY <1>2, <1>3, ConcatProperties
<1> DEFINE c == a \o b
<1> HIDE DEF c
<1>5. Len(a) + Len(b) = Len(ks) - 1
  BY <1>0, <1>2, <1>3
<1>6. c \in Seq(Keys) /\ Len(c) = Len(ks) - 1
  BY <1>4, <1>5 DEF c
<1>7. \A j \in 1..(Len(ks) - 1) : c[j] = IF j <= i - 1 THEN a[j] ELSE b[j - (i - 1)]
  BY <1>2, <1>4, <1>5 DEF c
<1>8. ASSUME NEW j \in 1..(Len(ks) - 1)
      PROVE  c[j] = kt[j]
  <2>1. CASE j < i
    <3>1. j <= i - 1 /\ j \in 1..(i - 1)
      BY <1>0, <2>1
    <3>2. c[j] = a[j]
      BY <1>7, <3>1
    <3>3. a[j] = ks[j]
      BY <1>2, <3>1
    <3>. QED BY <1>1, <2>1, <3>2, <3>3
  <2>2. CASE ~ (j < i)
    <3>1. j - (i - 1) \in 1..(Len(ks) - i) /\ (j - (i - 1)) + i = j + 1
      BY <1>0, <2>2
    <3>2. c[j] = b[j - (i - 1)]
      BY <1>0, <1>7, <2>2
    <3>3. b[j - (i - 1)] = ks[j + 1]
      BY <1>3, <3>1
    <3>. QED BY <1>1, <2>2, <3>2, <3>3
  <2>. QED BY <2>1, <2>2
<1>9. kt = c
  BY <1>0, <1>1, <1>6, <1>8, SeqEqual
<1>. QED BY <1>0, <1>9 DEF KeysGoOn, ks, kt, a, b, c

KeysStep == \A d \in Maps \cup Sets : Constructed(d) => KeysGoOn(d, entries[d], entries'[d])

WalkEnds == Len(calls') < Len(calls) /\ steps' = steps /\ Walking(top) /\ ~ top.touched
              => Len(top.seen) = Len(KeySeq(top.id, top.start))

(* One collection changes: the others keep their keys. *)
LEMMA KeysOfOne ==
  ASSUME CollInv, NEW d, \A e \in Maps \cup Sets : e # d => entries'[e] = entries[e],
         d \in Maps \cup Sets /\ Constructed(d) => KeysGoOn(d, entries[d], entries'[d])
  PROVE  KeysStep
<1> SUFFICES ASSUME NEW e \in Maps \cup Sets, Constructed(e)
             PROVE  KeysGoOn(e, entries[e], entries'[e])
  BY DEF KeysStep
<1>1. CASE e = d
  BY <1>1
<1>2. CASE e # d
  <2>1. Rows(e, entries[e])
    BY DEF CollInv
  <2>2. KeySeq(e, entries[e]) \in Seq(Keys)
    BY <2>1 DEF Rows
  <2>. QED BY <1>2, <2>2, KeysStay
<1>. QED BY <1>1, <1>2

(* An operation is counted, and no walk ends with it. *)
LEMMA Counts ==
  ASSUME NEW n, n \in 1..2, CallsInv, Step(n)
  PROVE  steps' \in 0..MaxSteps /\ steps' # steps /\ WalkEnds
<1>1. steps \in 0..MaxSteps /\ MaxSteps \in Nat /\ steps' = steps + n /\ steps + n <= MaxSteps
  BY CollectionsAssumption DEF CallsInv, Step
<1>2. steps' \in 0..MaxSteps /\ steps' # steps
  BY <1>1
<1>. QED BY <1>2 DEF WalkEnds

-----------------------------------------------------------------------------
(* What every step keeps. *)

Kept == CollInv' /\ CallsInv' /\ KeysStep /\ WalkEnds
Refined == D!Next \/ contents' = contents

Written1(d, t) ==
  /\ Step(1) /\ d \in Maps \cup Sets /\ Rows(d, t)
  /\ entries' = [entries EXCEPT ![d] = t]
  /\ size' = [size EXCEPT ![d] = Len(KeySeq(d, t))] /\ weak' = weak

(* A collection is made, or the keys it has lead those it gets. *)
LEMMA Grows ==
  ASSUME CollInv, CallsInv, NEW d, NEW t, Written1(d, t), calls' = calls,
         Constructed(d) => \/ KeySeq(d, t) = KeySeq(d, entries[d])
                           \/ \E k \in Keys : KeySeq(d, t) = Append(KeySeq(d, entries[d]), k)
  PROVE  Kept /\ contents' = [contents EXCEPT ![d] = FnOf(d, t)]
<1>1. /\ CollInv' /\ contents' = [contents EXCEPT ![d] = FnOf(d, t)]
      /\ entries'[d] = t /\ \A e \in Maps \cup Sets : e # d => entries'[e] = entries[e]
  BY RowsChange DEF Written1
<1>2. t # Absent /\ d \in Maps \cup Sets
  BY FnOfType DEF Written1
<1>3. Constructed(d) => KeysGoOn(d, entries[d], t) /\ Leads(KeySeq(d, entries[d]), KeySeq(d, t))
  <2> SUFFICES ASSUME Constructed(d)
               PROVE  KeysGoOn(d, entries[d], t) /\ Leads(KeySeq(d, entries[d]), KeySeq(d, t))
    OBVIOUS
  <2>1. KeySeq(d, entries[d]) \in Seq(Keys)
    BY <1>2 DEF CollInv, Rows
  <2>. QED BY <2>1, KeysStay
<1>4. KeysStep
  BY <1>1, <1>3, KeysOfOne
<1>5. steps' \in 0..MaxSteps /\ WalkEnds
  BY Counts DEF Written1
<1>6. CallsFit(calls, entries')
  <2>1. ASSUME NEW e \in Maps \cup Sets, entries[e] # Absent
        PROVE  entries'[e] # Absent /\ Leads(KeySeq(e, entries[e]), KeySeq(e, entries'[e]))
    <3>1. CASE e = d
      BY <1>1, <1>2, <1>3, <2>1, <3>1 DEF Constructed
    <3>2. CASE e # d
      <4>1. entries'[e] = entries[e]
        BY <1>1, <3>2
      <4>. QED BY <2>1, <4>1 DEF Leads
    <3>. QED BY <3>1, <3>2
  <2>2. CallsFit(calls, entries)
    BY DEF CallsInv
  <2>. QED BY <2>1, <2>2, StackGrown
<1>7. CallsInv'
  BY <1>5, <1>6 DEF CallsInv
<1>. QED BY <1>1, <1>4, <1>5, <1>7 DEF Kept

(* A collection loses rows, and the walks along it are told. *)
LEMMA Shrinks ==
  ASSUME CollInv, CallsInv, NEW d, NEW t, Written1(d, t), calls' = Shrunk(d), Constructed(d),
         KeysGoOn(d, entries[d], t)
  PROVE  Kept /\ contents' = [contents EXCEPT ![d] = FnOf(d, t)]
<1>1. /\ CollInv' /\ contents' = [contents EXCEPT ![d] = FnOf(d, t)]
      /\ entries'[d] = t /\ \A e \in Maps \cup Sets : e # d => entries'[e] = entries[e]
  BY RowsChange DEF Written1
<1>2. t # Absent /\ d \in Maps \cup Sets
  BY FnOfType DEF Written1
<1>3. KeysStep
  BY <1>1, KeysOfOne
<1>4. steps' \in 0..MaxSteps /\ WalkEnds
  BY Counts DEF Written1
<1>5. CallsFit(calls', entries')
  <2>1. CallsFit(calls, entries)
    BY DEF CallsInv
  <2>2. CallsFit(Shrunk(d), entries')
    BY <1>1, <1>2, <2>1, StackMarked DEF Shrunk
  <2>. QED BY <2>2
<1>6. CallsInv'
  BY <1>4, <1>5 DEF CallsInv
<1>. QED BY <1>1, <1>3, <1>4, <1>6 DEF Kept

(* Only the stack of waiting methods changes. *)
LEMMA OnlyCalls ==
  ASSUME CollInv, entries' = entries, size' = size, weak' = weak,
         CallsFit(calls', entries), steps' \in 0..MaxSteps, WalkEnds
  PROVE  Kept /\ contents' = contents
<1>1. CollInv'
  BY DEF CollInv, Constructed
<1>2. CallsInv'
  BY DEF CallsInv
<1>3. \A e \in Maps \cup Sets : Constructed(e) => KeysGoOn(e, entries[e], entries[e])
  <2> TAKE e \in Maps \cup Sets
  <2> SUFFICES ASSUME Constructed(e)
               PROVE  KeysGoOn(e, entries[e], entries[e])
    OBVIOUS
  <2>1. KeySeq(e, entries[e]) \in Seq(Keys)
    BY DEF CollInv, Rows
  <2>. QED BY <2>1, KeysStay
<1>4. KeysStep
  BY <1>3 DEF KeysStep
<1>. QED BY <1>1, <1>2, <1>4, ContentsKept DEF Kept

(* Only one WeakMap or WeakSet changes. *)
LEMMA OnlyWeak ==
  ASSUME CollInv, CallsInv, entries' = entries, size' = size, calls' = calls, Step(1),
         NEW w, NEW s, w \in WeakMaps \cup WeakSets, s \in Stores,
         weak' = [weak EXCEPT ![w] = s]
  PROVE  Kept /\ contents' = [contents EXCEPT ![w] = s.kept]
<1>1. /\ weak' \in [WeakMaps \cup WeakSets -> Stores \cup {Absent}] /\ weak'[w] = s
      /\ \A e \in WeakMaps \cup WeakSets : e # w => weak'[e] = weak[e]
  BY DEF CollInv
<1>2. CollInv'
  BY <1>1 DEF CollInv, Constructed
<1>3. steps' \in 0..MaxSteps /\ WalkEnds
  BY Counts
<1>4. CallsInv'
  BY <1>3 DEF CallsInv
<1>5. \A e \in Maps \cup Sets : Constructed(e) => KeysGoOn(e, entries[e], entries[e])
  <2> TAKE e \in Maps \cup Sets
  <2> SUFFICES ASSUME Constructed(e)
               PROVE  KeysGoOn(e, entries[e], entries[e])
    OBVIOUS
  <2>1. KeySeq(e, entries[e]) \in Seq(Keys)
    BY DEF CollInv, Rows
  <2>. QED BY <2>1, KeysStay
<1>6. KeysStep
  BY <1>5 DEF KeysStep
<1>7. s # Absent
  BY CollectionsAssumption
<1>8. ASSUME NEW e \in AllIds
      PROVE  Content(e)' = IF e = w THEN s.kept ELSE Content(e)
  <2>1. CASE e \in Maps \cup Sets
    <3>1. e # w
      BY <2>1, CollectionsAssumption
    <3>. QED BY <2>1, <3>1, ContentOfArray DEF Constructed
  <2>2. CASE e \in WeakMaps \cup WeakSets
    BY <1>1, <1>7, <2>2, ContentOfWeak
  <2>. QED BY <2>1, <2>2 DEF AllIds
<1>9. contents' = [contents EXCEPT ![w] = s.kept]
  BY <1>8 DEF contents
<1>. QED BY <1>2, <1>3, <1>4, <1>6, <1>9 DEF Kept

-----------------------------------------------------------------------------
(* Map and Set, operation by operation. *)

(* The size that an operation stores is the number of rows. *)
LEMMA SizeOfRows ==
  ASSUME NEW d, NEW t, Rows(d, t)
  PROVE  /\ d \in Maps => Len(t) \div 2 = Len(KeySeq(d, t))
         /\ d \in Sets => Len(t) = Len(KeySeq(d, t))
BY MapRowsForm, SetRowsForm

(* new Map(..). *)
LEMMA MapConstructorStep ==
  ASSUME CollInv, CallsInv, NEW d, d \in Maps, MapConstructor(d)
  PROVE  Kept /\ Refined
<1>1. PICK input \in Inputs :
        /\ entries' = [entries EXCEPT ![d] = FilledMap(input)]
        /\ size' = [size EXCEPT ![d] = Len(FilledMap(input)) \div 2]
  BY Zenon DEF MapConstructor, Holds
<1> DEFINE t == FilledMap(input)
<1>2. Rows(d, t) /\ FnOf(d, t) = Folded(d, input)
  BY MapFilled, CollectionsAssumption
<1>3. ~ Constructed(d) /\ Step(1) /\ weak' = weak /\ calls' = calls
  BY DEF MapConstructor
<1> HIDE DEF t
<1>4. Written1(d, t)
  BY <1>1, <1>2, <1>3, SizeOfRows DEF Written1, t
<1>5. Kept /\ contents' = [contents EXCEPT ![d] = FnOf(d, t)]
  BY <1>3, <1>4, Grows
<1>6. contents[d] = Absent
  BY <1>3, ContentNow
<1>7. FnOf(d, t) \in Sources
  BY <1>2 DEF Sources
<1>8. d \in AllIds
  BY DEF AllIds
<1>. QED BY <1>5, <1>6, <1>7, <1>8, DictNew DEF Refined

(* new Set(..). *)
LEMMA SetConstructorStep ==
  ASSUME CollInv, CallsInv, NEW d, d \in Sets, SetConstructor(d)
  PROVE  Kept /\ Refined
<1>1. PICK input \in Inputs :
        /\ entries' = [entries EXCEPT ![d] = FilledSet(input)]
        /\ size' = [size EXCEPT ![d] = Len(FilledSet(input))]
  BY Zenon DEF SetConstructor, Holds
<1> DEFINE t == FilledSet(input)
<1>2. Rows(d, t) /\ FnOf(d, t) = Folded(d, input)
  BY SetFilled, CollectionsAssumption
<1>3. ~ Constructed(d) /\ Step(1) /\ weak' = weak /\ calls' = calls
  BY DEF SetConstructor
<1> HIDE DEF t
<1>4. Written1(d, t)
  BY <1>1, <1>2, <1>3, SizeOfRows DEF Written1, t
<1>5. Kept /\ contents' = [contents EXCEPT ![d] = FnOf(d, t)]
  BY <1>3, <1>4, Grows
<1>6. contents[d] = Absent
  BY <1>3, ContentNow
<1>7. FnOf(d, t) \in Sources
  BY <1>2 DEF Sources
<1>8. d \in AllIds
  BY DEF AllIds
<1>. QED BY <1>5, <1>6, <1>7, <1>8, DictNew DEF Refined

(* What set() and add() write is bound in the dictionary, unless the key is one
   that no equality is defined for. *)
LEMMA Binds ==
  ASSUME CollInv, NEW d, NEW t, NEW k, NEW v, d \in Maps \cup Sets, Constructed(d),
         k \in Keys, v \in Vals \cup Keys,
         contents' = [contents EXCEPT ![d] = FnOf(d, t)],
         FnOf(d, t) = IF k \in Opaque THEN FnOf(d, entries[d]) ELSE D!Bound(FnOf(d, entries[d]), k, v)
  PROVE  Refined
<1>1. contents[d] = FnOf(d, entries[d]) /\ contents[d] # Absent /\ d \in AllIds
  BY ContentNow DEF AllIds
<1>2. CASE k \in Opaque
  BY <1>1, <1>2, ContentsSame DEF Refined
<1>3. CASE k \notin Opaque
  <2>1. contents' = [contents EXCEPT ![d] = D!Bound(contents[d], k, v)]
    BY <1>1, <1>3
  <2>. QED BY <1>1, <1>3, <2>1, DictPut DEF Refined
<1>. QED BY <1>2, <1>3

(* Map.prototype.set. *)
LEMMA MapSetStep ==
  ASSUME CollInv, CallsInv, NEW d, NEW k, NEW v, d \in Maps, k \in Keys, v \in Vals, MapSet(d, k, v)
  PROVE  Kept /\ Refined
<1> DEFINE t == MapInternalSet(entries[d], k, v)
<1>1. /\ entries' = [entries EXCEPT ![d] = t] /\ size' = [size EXCEPT ![d] = Len(t) \div 2]
      /\ Constructed(d) /\ Step(1) /\ weak' = weak /\ calls' = calls
  BY Zenon DEF MapSet, Holds
<1>2. Rows(d, entries[d])
  BY <1>1 DEF CollInv
<1>3. /\ Rows(d, t)
      /\ KeySeq(d, t) = KeySeq(d, entries[d]) \/ KeySeq(d, t) = Append(KeySeq(d, entries[d]), k)
      /\ FnOf(d, t) = IF k \in Opaque THEN FnOf(d, entries[d]) ELSE D!Bound(FnOf(d, entries[d]), k, v)
  BY <1>2, MapSetRows
<1> HIDE DEF t
<1>4. Written1(d, t)
  BY <1>1, <1>3, SizeOfRows DEF Written1
<1>5. Kept /\ contents' = [contents EXCEPT ![d] = FnOf(d, t)]
  BY <1>1, <1>3, <1>4, Grows
<1>. QED BY <1>1, <1>3, <1>5, Binds

(* Set.prototype.add. *)
LEMMA SetAddStep ==
  ASSUME CollInv, CallsInv, NEW d, NEW k, d \in Sets, k \in Keys, SetAdd(d, k)
  PROVE  Kept /\ Refined
<1> DEFINE t == SetInsert(entries[d], k)
<1>1. /\ entries' = [entries EXCEPT ![d] = t] /\ size' = [size EXCEPT ![d] = Len(t)]
      /\ Constructed(d) /\ Step(1) /\ weak' = weak /\ calls' = calls
  BY Zenon DEF SetAdd, Holds
<1>2. Rows(d, entries[d])
  BY <1>1 DEF CollInv
<1>3. /\ Rows(d, t)
      /\ KeySeq(d, t) = KeySeq(d, entries[d]) \/ KeySeq(d, t) = Append(KeySeq(d, entries[d]), k)
      /\ FnOf(d, t) = IF k \in Opaque THEN FnOf(d, entries[d]) ELSE D!Bound(FnOf(d, entries[d]), k, k)
  BY <1>2, SetInsertRows
<1> HIDE DEF t
<1>4. Written1(d, t)
  BY <1>1, <1>3, SizeOfRows DEF Written1
<1>5. Kept /\ contents' = [contents EXCEPT ![d] = FnOf(d, t)]
  BY <1>1, <1>3, <1>4, Grows
<1>. QED BY <1>1, <1>3, <1>5, Binds

(* What delete() takes out is dropped from the dictionary. *)
LEMMA Drops ==
  ASSUME CollInv, CallsInv, NEW d, NEW t, NEW k, Written1(d, t), calls' = Shrunk(d), Constructed(d),
         k \in Keys \ Opaque,
         \E i \in DOMAIN KeySeq(d, entries[d]) : TakenOut(KeySeq(d, entries[d]), KeySeq(d, t), i),
         FnOf(d, t) = D!Without(FnOf(d, entries[d]), k)
  PROVE  Kept /\ Refined
<1>1. d \in Maps \cup Sets /\ d \in AllIds
  BY DEF Written1, AllIds
<1>2. KeySeq(d, entries[d]) \in Seq(Keys)
  BY <1>1 DEF CollInv, Rows
<1>3. KeysGoOn(d, entries[d], t)
  BY <1>2, KeysClose
<1>4. Kept /\ contents' = [contents EXCEPT ![d] = FnOf(d, t)]
  BY <1>3, Shrinks
<1>5. contents[d] = FnOf(d, entries[d]) /\ contents[d] # Absent
  BY <1>1, ContentNow
<1>6. contents' = [contents EXCEPT ![d] = D!Without(contents[d], k)]
  BY <1>4, <1>5
<1>. QED BY <1>1, <1>4, <1>5, <1>6, DictDrop DEF Refined

(* Map.prototype.delete. *)
LEMMA MapDeleteStep ==
  ASSUME CollInv, CallsInv, NEW d, NEW k, d \in Maps, MapDelete(d, k)
  PROVE  Kept /\ Refined
<1> DEFINE t == MapRemoved(entries[d], k)
<1>1. /\ entries' = [entries EXCEPT ![d] = t] /\ size' = [size EXCEPT ![d] = Len(t) \div 2]
      /\ Constructed(d) /\ Step(1) /\ weak' = weak /\ calls' = Shrunk(d)
      /\ MapIndexOfKey(entries[d], k) >= 0
  BY Zenon DEF MapDelete, Holds
<1>2. Rows(d, entries[d])
  BY <1>1 DEF CollInv
<1>3. /\ Rows(d, t) /\ k \in Keys \ Opaque
      /\ \E i \in DOMAIN KeySeq(d, entries[d]) : TakenOut(KeySeq(d, entries[d]), KeySeq(d, t), i)
      /\ FnOf(d, t) = D!Without(FnOf(d, entries[d]), k)
  BY <1>1, <1>2, MapRemovedRows
<1> HIDE DEF t
<1>4. Written1(d, t)
  BY <1>1, <1>3, SizeOfRows DEF Written1
<1>. QED BY <1>1, <1>3, <1>4, Drops

(* Set.prototype.delete. *)
LEMMA SetDeleteStep ==
  ASSUME CollInv, CallsInv, NEW d, NEW k, d \in Sets, SetDelete(d, k)
  PROVE  Kept /\ Refined
<1> DEFINE t == SetRemoved(entries[d], k)
<1>1. /\ entries' = [entries EXCEPT ![d] = t] /\ size' = [size EXCEPT ![d] = Len(t)]
      /\ Constructed(d) /\ Step(1) /\ weak' = weak /\ calls' = Shrunk(d)
      /\ SetIndex(entries[d], k) >= 0
  BY Zenon DEF SetDelete, Holds
<1>2. Rows(d, entries[d])
  BY <1>1 DEF CollInv
<1>3. /\ Rows(d, t) /\ k \in Keys \ Opaque
      /\ \E i \in DOMAIN KeySeq(d, entries[d]) : TakenOut(KeySeq(d, entries[d]), KeySeq(d, t), i)
      /\ FnOf(d, t) = D!Without(FnOf(d, entries[d]), k)
  BY <1>1, <1>2, SetRemovedRows
<1> HIDE DEF t
<1>4. Written1(d, t)
  BY <1>1, <1>3, SizeOfRows DEF Written1
<1>. QED BY <1>1, <1>3, <1>4, Drops

(* clear(), of both: the array is cut to nothing. *)
LEMMA ClearStep ==
  ASSUME CollInv, CallsInv, NEW d, d \in Maps \cup Sets, MapClear(d) \/ SetClear(d)
  PROVE  Kept /\ Refined
<1>1. /\ entries' = [entries EXCEPT ![d] = Truncate(entries[d], 0)] /\ size' = [size EXCEPT ![d] = 0]
      /\ Constructed(d) /\ Step(1) /\ weak' = weak /\ calls' = Shrunk(d)
  BY Zenon DEF MapClear, SetClear, Holds
<1>2. entries[d] \in Seq(Keys \cup Vals)
  BY <1>1 DEF CollInv, Rows
<1>3. Truncate(entries[d], 0) = <<>>
  BY <1>2 DEF Truncate
<1>4. Rows(d, <<>>) /\ KeySeq(d, <<>>) = <<>> /\ FnOf(d, <<>>) = [k \in {} |-> k]
  BY EmptyRows
<1>5. Len(KeySeq(d, <<>>)) = 0
  BY <1>4
<1>6. Written1(d, <<>>)
  BY <1>1, <1>3, <1>4, <1>5 DEF Written1
<1>7. KeysGoOn(d, entries[d], <<>>)
  BY <1>4 DEF KeysGoOn
<1>8. Kept /\ contents' = [contents EXCEPT ![d] = FnOf(d, <<>>)]
  BY <1>1, <1>6, <1>7, Shrinks
<1>9. contents' = [contents EXCEPT ![d] = [k \in {} |-> k]]
  BY <1>4, <1>8
<1>10. contents[d] # Absent /\ d \in AllIds
  BY <1>1, ContentNow DEF AllIds
<1>. QED BY <1>8, <1>9, <1>10, DictEmpty DEF Refined

-----------------------------------------------------------------------------
(* forEach and its callbacks. *)

(* forEach() is called. *)
LEMMA ForEachStep ==
  ASSUME CollInv, CallsInv, NEW d,
         \/ d \in Maps /\ MapForEach(d)
         \/ d \in Sets /\ SetForEach(d)
  PROVE  Kept /\ Refined
<1>1. /\ Step(1) /\ Constructed(d) /\ Len(calls) < MaxCalls
      /\ entries' = entries /\ size' = size /\ weak' = weak
  BY DEF MapForEach, SetForEach
<1>2. Rows(d, entries[d]) /\ entries[d] # Absent
  BY <1>1 DEF CollInv, Constructed
<1>3. CallsFit(calls, entries)
  BY DEF CallsInv
<1>4. CallsFit(calls', entries)
  <2>1. CASE d \in Maps /\ MapForEach(d)
    <3> DEFINE c == Walk("Map.forEach", d)
    <3>1. /\ Between(c, entries[d]) /\ c.id = d /\ c \in WalkFields("Map.forEach", Maps)
      BY <1>1, <1>2, <2>1, WalkBegins
    <3>2. calls' = MapVisit(c, calls)
      BY <2>1 DEF MapForEach
    <3> HIDE DEF c
    <3>3. CallsFit(MapVisit(c, calls), entries)
      BY <1>1, <1>2, <1>3, <3>1, MapVisits
    <3>. QED BY <3>2, <3>3
  <2>2. CASE d \in Sets /\ SetForEach(d)
    <3> DEFINE c == Walk("Set.forEach", d)
    <3>1. /\ Between(c, entries[d]) /\ c.id = d /\ c \in WalkFields("Set.forEach", Sets)
      BY <1>1, <1>2, <2>2, WalkBegins
    <3>2. calls' = SetVisit(c, calls)
      BY <2>2 DEF SetForEach
    <3> HIDE DEF c
    <3>3. CallsFit(SetVisit(c, calls), entries)
      BY <1>1, <1>2, <1>3, <3>1, SetVisits
    <3>. QED BY <3>2, <3>3
  <2>. QED BY <2>1, <2>2
<1>5. steps' \in 0..MaxSteps /\ WalkEnds
  BY <1>1, Counts
<1>. QED BY <1>1, <1>4, <1>5, OnlyCalls DEF Refined

(* The method on top, and the stack below it. *)
LEMMA TopOfStack ==
  ASSUME CallsInv, calls # <<>>
  PROVE  /\ CallFits(top, entries) /\ CallsFit(Below, entries)
         /\ Len(calls) \in Nat \ {0} /\ Len(calls) <= MaxCalls /\ MaxCalls \in Nat
         /\ Len(Below) = Len(calls) - 1
<1>1. CallsFit(calls, entries)
  BY DEF CallsInv
<1>2. /\ Len(calls) \in Nat /\ Len(calls) <= MaxCalls
      /\ DOMAIN calls = 1..Len(calls) /\ Len(calls) \in DOMAIN calls
  BY <1>1, StackForm
<1>3. Len(calls) \in Nat \ {0} /\ Len(calls) - 1 \in 0..Len(calls) /\ MaxCalls \in Nat
  BY <1>2, CollectionsAssumption
<1>4. CallsFit(Below, entries)
  BY <1>1, <1>3, StackLeft DEF Below
<1>5. Len(Below) = Len(calls) - 1
  BY <1>1, <1>3, StackForm DEF Below
<1>6. CallFits(top, entries)
  BY <1>1, <1>2 DEF CallsFit, top
<1>. QED BY <1>2, <1>3, <1>4, <1>5, <1>6

(* A walk waits for a collection that is there. *)
LEMMA TopWalks ==
  ASSUME CollInv, CallsInv, calls # <<>>, Walking(top)
  PROVE  /\ WalkOn(top, entries[top.id]) /\ Rows(top.id, entries[top.id])
         /\ entries[top.id] # Absent
<1>1. WalkOn(top, entries[top.id])
  BY TopOfStack DEF CallFits
<1>2. entries[top.id] # Absent /\ top.id \in Maps \cup Sets
  BY <1>1 DEF WalkOn, WalkFields
<1>3. Rows(top.id, entries[top.id])
  BY <1>2 DEF CollInv, Constructed
<1>. QED BY <1>1, <1>2, <1>3

(* The callback of a Map's forEach() answers. *)
LEMMA MapCallbackStep ==
  ASSUME CollInv, CallsInv, MapCallbackReturns
  PROVE  Kept /\ Refined
<1> DEFINE c == [top EXCEPT !.i = @ + 2]
           s == entries[top.id]
<1>1. /\ calls # <<>> /\ top.m = "Map.forEach" /\ calls' = MapVisit(c, Below)
      /\ entries' = entries /\ size' = size /\ weak' = weak /\ steps' = steps
  BY DEF MapCallbackReturns
<1>2. WalkOn(top, s) /\ Rows(top.id, s) /\ s # Absent
  BY <1>1, TopWalks DEF Walking
<1>3. /\ Between(c, s) /\ c \in WalkFields("Map.forEach", Maps)
      /\ c.id = top.id /\ c.seen = top.seen /\ c.start = top.start /\ c.touched = top.touched
  BY <1>1, <1>2, MapNextRow
<1>4. /\ CallsFit(Below, entries) /\ Len(calls) \in Nat \ {0} /\ Len(calls) <= MaxCalls
      /\ MaxCalls \in Nat /\ Len(Below) = Len(calls) - 1
  BY <1>1, TopOfStack
<1>5. Len(Below) < MaxCalls /\ s = entries[c.id]
  BY <1>3, <1>4
<1> HIDE DEF c, s
<1>6. /\ CallsFit(MapVisit(c, Below), entries) /\ Len(MapVisit(c, Below)) >= Len(Below)
      /\ Len(MapVisit(c, Below)) = Len(Below) /\ ~ c.touched => Len(c.seen) = Len(KeySeq(c.id, c.start))
  BY <1>2, <1>3, <1>4, <1>5, MapVisits
<1>7. Len(calls') \in Nat
  BY <1>1, <1>6, StackForm
<1>8. Len(calls') < Len(calls) => Len(calls') = Len(Below)
  BY <1>1, <1>4, <1>6, <1>7
<1>9. WalkEnds
  BY <1>1, <1>3, <1>6, <1>8 DEF WalkEnds
<1>10. steps' \in 0..MaxSteps /\ CallsFit(calls', entries)
  BY <1>1, <1>6 DEF CallsInv
<1>. QED BY <1>1, <1>9, <1>10, OnlyCalls DEF Refined

(* The callback of a Set's forEach() answers. *)
LEMMA SetCallbackStep ==
  ASSUME CollInv, CallsInv, SetCallbackReturns
  PROVE  Kept /\ Refined
<1> DEFINE c == [top EXCEPT !.i = @ + 1]
           s == entries[top.id]
<1>1. /\ calls # <<>> /\ top.m = "Set.forEach" /\ calls' = SetVisit(c, Below)
      /\ entries' = entries /\ size' = size /\ weak' = weak /\ steps' = steps
  BY DEF SetCallbackReturns
<1>2. WalkOn(top, s) /\ Rows(top.id, s) /\ s # Absent
  BY <1>1, TopWalks DEF Walking
<1>3. /\ Between(c, s) /\ c \in WalkFields("Set.forEach", Sets)
      /\ c.id = top.id /\ c.seen = top.seen /\ c.start = top.start /\ c.touched = top.touched
  BY <1>1, <1>2, SetNextRow
<1>4. /\ CallsFit(Below, entries) /\ Len(calls) \in Nat \ {0} /\ Len(calls) <= MaxCalls
      /\ MaxCalls \in Nat /\ Len(Below) = Len(calls) - 1
  BY <1>1, TopOfStack
<1>5. Len(Below) < MaxCalls /\ s = entries[c.id]
  BY <1>3, <1>4
<1> HIDE DEF c, s
<1>6. /\ CallsFit(SetVisit(c, Below), entries) /\ Len(SetVisit(c, Below)) >= Len(Below)
      /\ Len(SetVisit(c, Below)) = Len(Below) /\ ~ c.touched => Len(c.seen) = Len(KeySeq(c.id, c.start))
  BY <1>2, <1>3, <1>4, <1>5, SetVisits
<1>7. Len(calls') \in Nat
  BY <1>1, <1>6, StackForm
<1>8. Len(calls') < Len(calls) => Len(calls') = Len(Below)
  BY <1>1, <1>4, <1>6, <1>7
<1>9. WalkEnds
  BY <1>1, <1>3, <1>6, <1>8 DEF WalkEnds
<1>10. steps' \in 0..MaxSteps /\ CallsFit(calls', entries)
  BY <1>1, <1>6 DEF CallsInv
<1>. QED BY <1>1, <1>9, <1>10, OnlyCalls DEF Refined

(* A callback throws. *)
LEMMA ThrowStep ==
  ASSUME CollInv, CallsInv, CallbackThrows
  PROVE  Kept /\ Refined
<1>1. PICK k \in 0..(Len(calls) - 1) : calls' = SubSeq(calls, 1, k)
  BY DEF CallbackThrows
<1>2. Step(1) /\ entries' = entries /\ size' = size /\ weak' = weak
  BY DEF CallbackThrows
<1>3. CallsFit(calls, entries)
  BY DEF CallsInv
<1>4. k \in 0..Len(calls)
  BY <1>3, StackForm
<1>5. CallsFit(calls', entries)
  BY <1>1, <1>3, <1>4, StackLeft
<1>6. steps' \in 0..MaxSteps /\ WalkEnds
  BY <1>2, Counts
<1>. QED BY <1>2, <1>5, <1>6, OnlyCalls DEF Refined

-----------------------------------------------------------------------------
(* WeakMap and WeakSet. *)

(* What a store is, and what its collection stands for. *)
LEMMA StoreForm ==
  ASSUME CollInv, NEW w, w \in WeakMaps \cup WeakSets
  PROVE  /\ w \in AllIds
         /\ weak[w] = Absent => contents[w] = Absent
         /\ weak[w] # Absent =>
              /\ weak[w] \in Stores /\ contents[w] = weak[w].kept /\ contents[w] # Absent
              /\ DOMAIN weak[w].kept \in SUBSET Objs
              /\ weak[w].kept \in [DOMAIN weak[w].kept -> Vals \cup Keys] /\ weak[w].lost \in Nat
              /\ weak[w] = [kept |-> weak[w].kept, lost |-> weak[w].lost]
<1>1. w \in AllIds /\ contents[w] = IF weak[w] = Absent THEN Absent ELSE weak[w].kept
  BY ContentOfWeak DEF contents, AllIds
<1>2. weak[w] # Absent => weak[w] \in Stores
  BY DEF CollInv
<1>3. ASSUME NEW s \in Stores
      PROVE  /\ DOMAIN s.kept \in SUBSET Objs /\ s.kept \in [DOMAIN s.kept -> Vals \cup Keys]
             /\ s.lost \in Nat /\ s.kept # Absent /\ s = [kept |-> s.kept, lost |-> s.lost]
  <2>1. PICK K \in SUBSET Objs : s.kept \in [K -> Vals \cup Keys]
    BY DEF Stores
  <2>2. DOMAIN s.kept = K /\ K \in SUBSET Keys
    BY <2>1 DEF Keys
  <2>3. s.kept # Absent
    BY <2>1, <2>2, CollectionsAssumption
  <2>. QED BY <2>1, <2>2, <2>3 DEF Stores
<1>. QED BY <1>1, <1>2, <1>3

(* A store of an object key, and of a key that nothing can name again. *)
LEMMA StoredForm ==
  ASSUME NEW s, NEW k, NEW v, s \in Stores, DOMAIN s.kept \in SUBSET Objs,
         s.kept \in [DOMAIN s.kept -> Vals \cup Keys], s.lost \in Nat,
         s = [kept |-> s.kept, lost |-> s.lost], v \in Vals \cup Keys
  PROVE  /\ Stored(s, k, v) \in Stores
         /\ Stored(s, k, v).kept = IF k \in Objs THEN D!Bound(s.kept, k, v) ELSE s.kept
<1>1. CASE k \in Objs
  <2> DEFINE f == D!Bound(s.kept, k, v)
  <2>1. f = [x \in DOMAIN s.kept \cup {k} |-> IF x = k THEN v ELSE s.kept[x]]
    BY DEF D!Bound
  <2>2. DOMAIN s.kept \cup {k} \in SUBSET Objs
    BY <1>1
  <2>3. f \in [DOMAIN s.kept \cup {k} -> Vals \cup Keys]
    BY <2>1
  <2>4. Stored(s, k, v) = [s EXCEPT !.kept = f]
    BY <1>1, <2>1 DEF Stored
  <2> HIDE DEF f
  <2>5. Stored(s, k, v) = [kept |-> f, lost |-> s.lost]
    BY <2>4
  <2>6. f \in UNION {[K -> Vals \cup Keys] : K \in SUBSET Objs}
    BY <2>2, <2>3
  <2>. QED BY <1>1, <2>5, <2>6 DEF Stores, f
<1>2. CASE k \notin Objs
  <2>1. Stored(s, k, v) = [kept |-> s.kept, lost |-> s.lost + 1]
    BY <1>2 DEF Stored
  <2>2. s.kept \in UNION {[K -> Vals \cup Keys] : K \in SUBSET Objs}
    OBVIOUS
  <2>. QED BY <1>2, <2>1, <2>2 DEF Stores
<1>. QED BY <1>1, <1>2

(* A store without a key. *)
LEMMA UnstoredForm ==
  ASSUME NEW s, NEW k, s \in Stores, DOMAIN s.kept \in SUBSET Objs,
         s.kept \in [DOMAIN s.kept -> Vals \cup Keys], s.lost \in Nat,
         s = [kept |-> s.kept, lost |-> s.lost]
  PROVE  Unstored(s, k) \in Stores /\ Unstored(s, k).kept = D!Without(s.kept, k)
<1> DEFINE f == D!Without(s.kept, k)
<1>1. f = [x \in DOMAIN s.kept \ {k} |-> s.kept[x]]
  BY DEF D!Without
<1>2. DOMAIN s.kept \ {k} \in SUBSET Objs
  OBVIOUS
<1>3. f \in [DOMAIN s.kept \ {k} -> Vals \cup Keys]
  BY <1>1
<1>4. Unstored(s, k) = [s EXCEPT !.kept = f]
  BY <1>1 DEF Unstored
<1> HIDE DEF f
<1>5. Unstored(s, k) = [kept |-> f, lost |-> s.lost]
  BY <1>4
<1>6. f \in UNION {[K -> Vals \cup Keys] : K \in SUBSET Objs}
  BY <1>2, <1>3
<1>. QED BY <1>5, <1>6 DEF Stores, f

(* new WeakMap(), new WeakSet(). *)
LEMMA NewWeakStep ==
  ASSUME CollInv, CallsInv, NEW w, w \in WeakMaps \cup WeakSets, NewWeak(w)
  PROVE  Kept /\ Refined
<1> DEFINE f == [k \in {} |-> k]
           s == [kept |-> f, lost |-> 0]
<1>1. /\ Step(1) /\ weak[w] = Absent /\ weak' = [weak EXCEPT ![w] = s]
      /\ entries' = entries /\ size' = size /\ calls' = calls
  BY DEF NewWeak
<1>2. f \in Sources
  BY DEF Sources
<1>3. f \in [{} -> Vals \cup Keys]
  OBVIOUS
<1> HIDE DEF f
<1>4. s \in Stores /\ s.kept = f
  BY <1>3 DEF Stores
<1> HIDE DEF s
<1>5. Kept /\ contents' = [contents EXCEPT ![w] = s.kept]
  BY <1>1, <1>4, OnlyWeak
<1>6. contents[w] = Absent /\ w \in AllIds
  BY <1>1, StoreForm
<1>. QED BY <1>2, <1>4, <1>5, <1>6, DictNew DEF Refined

(* WeakMap.prototype.set and WeakSet.prototype.add. *)
LEMMA WeakStoreStep ==
  ASSUME CollInv, CallsInv, NEW w, NEW k, NEW v, w \in WeakMaps \cup WeakSets, k \in Keys,
         \/ v \in Vals /\ WeakMapSet(w, k, v)
         \/ v = k /\ WeakSetAdd(w, k)
  PROVE  Kept /\ Refined
<1> DEFINE s == weak[w]
           t == Stored(s, k, v)
<1>1. /\ Step(1) /\ s # Absent /\ weak' = [weak EXCEPT ![w] = t] /\ v \in Vals \cup Keys
      /\ entries' = entries /\ size' = size /\ calls' = calls
  BY DEF WeakMapSet, WeakSetAdd
<1>2. /\ s \in Stores /\ contents[w] = s.kept /\ contents[w] # Absent /\ w \in AllIds
      /\ DOMAIN s.kept \in SUBSET Objs
      /\ s.kept \in [DOMAIN s.kept -> Vals \cup Keys] /\ s.lost \in Nat
      /\ s = [kept |-> s.kept, lost |-> s.lost]
  BY <1>1, StoreForm
<1> HIDE DEF s
<1>3. t \in Stores /\ t.kept = IF k \in Objs THEN D!Bound(s.kept, k, v) ELSE s.kept
  BY <1>1, <1>2, StoredForm
<1> HIDE DEF t
<1>4. Kept /\ contents' = [contents EXCEPT ![w] = t.kept]
  BY <1>1, <1>3, OnlyWeak
<1>5. CASE k \in Objs
  <2>1. k \in Keys \ Opaque
    BY <1>5, CollectionsAssumption
  <2>2. contents' = [contents EXCEPT ![w] = D!Bound(contents[w], k, v)]
    BY <1>2, <1>3, <1>4, <1>5
  <2>. QED BY <1>1, <1>2, <1>4, <2>1, <2>2, DictPut DEF Refined
<1>6. CASE k \notin Objs
  <2>1. contents' = [contents EXCEPT ![w] = contents[w]]
    BY <1>2, <1>3, <1>4, <1>6
  <2>. QED BY <1>2, <1>4, <2>1, ContentsSame DEF Refined
<1>. QED BY <1>5, <1>6

(* delete() of both. *)
LEMMA WeakDeleteStep ==
  ASSUME CollInv, CallsInv, NEW w, NEW k, w \in WeakMaps \cup WeakSets,
         WeakMapDelete(w, k) \/ WeakSetDelete(w, k)
  PROVE  Kept /\ Refined
<1> DEFINE s == weak[w]
           t == Unstored(s, k)
<1>1. /\ Step(1) /\ s # Absent /\ weak' = [weak EXCEPT ![w] = t] /\ k \in DOMAIN s.kept
      /\ entries' = entries /\ size' = size /\ calls' = calls
  BY DEF WeakMapDelete, WeakSetDelete
<1>2. /\ s \in Stores /\ contents[w] = s.kept /\ contents[w] # Absent /\ w \in AllIds
      /\ DOMAIN s.kept \in SUBSET Objs
      /\ s.kept \in [DOMAIN s.kept -> Vals \cup Keys] /\ s.lost \in Nat
      /\ s = [kept |-> s.kept, lost |-> s.lost]
  BY <1>1, StoreForm
<1> HIDE DEF s
<1>3. t \in Stores /\ t.kept = D!Without(s.kept, k)
  BY <1>2, UnstoredForm
<1> HIDE DEF t
<1>4. Kept /\ contents' = [contents EXCEPT ![w] = t.kept]
  BY <1>1, <1>3, OnlyWeak
<1>5. k \in Keys \ Opaque
  BY <1>1, <1>2, CollectionsAssumption DEF Keys
<1>6. contents' = [contents EXCEPT ![w] = D!Without(contents[w], k)]
  BY <1>2, <1>3, <1>4
<1>. QED BY <1>2, <1>4, <1>5, <1>6, DictDrop DEF Refined

(* Every operation of a collection. *)
LEMMA CollectionStep ==
  ASSUME CollInv, CallsInv, CollNext
  PROVE  Kept /\ Refined
<1>1. ASSUME NEW d \in Maps, MapConstructor(d) \/ MapClear(d) \/ MapForEach(d)
      PROVE  Kept /\ Refined
  BY <1>1, MapConstructorStep, ClearStep, ForEachStep
<1>2. ASSUME NEW d \in Maps, NEW k \in Keys, MapDelete(d, k) \/ \E v \in Vals : MapSet(d, k, v)
      PROVE  Kept /\ Refined
  BY <1>2, MapDeleteStep, MapSetStep
<1>3. ASSUME NEW d \in Sets, SetConstructor(d) \/ SetClear(d) \/ SetForEach(d)
      PROVE  Kept /\ Refined
  BY <1>3, SetConstructorStep, ClearStep, ForEachStep
<1>4. ASSUME NEW d \in Sets, NEW k \in Keys, SetDelete(d, k) \/ SetAdd(d, k)
      PROVE  Kept /\ Refined
  BY <1>4, SetDeleteStep, SetAddStep
<1>5. ASSUME NEW w \in WeakMaps \cup WeakSets, NewWeak(w)
      PROVE  Kept /\ Refined
  BY <1>5, NewWeakStep
<1>6. ASSUME NEW w \in WeakMaps, NEW k \in Keys, WeakMapDelete(w, k) \/ \E v \in Vals : WeakMapSet(w, k, v)
      PROVE  Kept /\ Refined
  BY <1>6, WeakDeleteStep, WeakStoreStep
<1>7. ASSUME NEW w \in WeakSets, NEW k \in Keys, WeakSetDelete(w, k) \/ WeakSetAdd(w, k)
      PROVE  Kept /\ Refined
  BY <1>7, WeakDeleteStep, WeakStoreStep
<1>8. ASSUME MapCallbackReturns \/ SetCallbackReturns \/ CallbackThrows
      PROVE  Kept /\ Refined
  BY <1>8, MapCallbackStep, SetCallbackStep, ThrowStep
<1>. QED BY <1>1, <1>2, <1>3, <1>4, <1>5, <1>6, <1>7, <1>8, Zenon DEF CollNext

-----------------------------------------------------------------------------
(* Arrays: the loops of the methods that call nothing back. *)

(* What is read is an element or undefined. *)
LEMMA GetType ==
  ASSUME NEW S, NEW s, NEW i, s \in Seq(S), Undefined \in S
  PROVE  Get(s, i) \in S
BY DEF Get

(* What a write leaves, inside the array or behind it. *)
IsPut(u, S, s, i, v) ==
  /\ u \in Seq(S) /\ Len(u) = IF i < Len(s) THEN Len(s) ELSE i + 1
  /\ \A k \in 1..Len(u) : u[k] = IF k = i + 1 THEN v ELSE Get(s, k - 1)

(* A write at a position, and one at none. *)
LEMMA PutForm ==
  ASSUME NEW S, NEW s, NEW v, NEW i, s \in Seq(S), Undefined \in S, i \in Nat, v \in S
  PROVE  IsPut(Put(s, i, v), S, s, i, v)
<1> DEFINE n == IF i < Len(s) THEN Len(s) ELSE i + 1
           e(k) == IF k = i + 1 THEN v ELSE Get(s, k - 1)
<1>1. n \in Nat /\ Put(s, i, v) = [k \in 1..n |-> e(k)]
  BY DEF Put
<1>2. \A k \in 1..n : e(k) \in S
  BY GetType
<1> HIDE DEF n, e
<1>3. Put(s, i, v) \in Seq(S) /\ Len(Put(s, i, v)) = n /\ \A k \in 1..n : Put(s, i, v)[k] = e(k)
  BY <1>1, <1>2
<1>. QED BY <1>3 DEF n, e, IsPut

(* At a negative position nothing is written. *)
LEMMA PutType ==
  ASSUME NEW S, NEW s, NEW v, NEW i, s \in Seq(S), Undefined \in S, i \in Int, v \in S
  PROVE  Put(s, i, v) \in Seq(S)
<1>1. CASE i < 0
  BY <1>1 DEF Put
<1>2. CASE i \in Nat
  <2>1. IsPut(Put(s, i, v), S, s, i, v)
    BY <1>2, PutForm
  <2>. QED BY <2>1 DEF IsPut
<1>. QED BY <1>1, <1>2

(* What a fold over the first n positions computes, one step after the other. *)
LEMMA FoldTyped ==
  ASSUME NEW T, NEW base, NEW n, NEW step, base \in T, n \in Nat, step \in [T \X (1..n) -> T]
  PROVE  \E it \in [SUBSET (1..n) -> T] : \A R \in SUBSET (1..n) :
           /\ it[R] = IF R = {} THEN base ELSE step[<<it[R \ {Max(R)}], Max(R)>>]
           /\ R # {} => it[R \ {Max(R)}] \in T /\ Max(R) \in 1..n
<1>1. PICK it \in [SUBSET (1..n) -> T] : IsFold(it, base, step, n)
  BY FoldExists
<1>2. \A R \in SUBSET (1..n) : R # {} => it[R \ {Max(R)}] \in T /\ Max(R) \in 1..n
  BY GreatestExists
<1>. QED BY <1>1, <1>2 DEF IsFold

Unrolls(g, T, n, base, last, step) ==
  /\ g \in [0..n -> T] /\ g[0] = base /\ g[n] = last
  /\ \A k \in 1..n : g[k] = step[<<g[k - 1], k>>]

(* The same, along the positions. *)
LEMMA FoldUnrolled ==
  ASSUME NEW T, NEW base, NEW n, NEW step, NEW f, base \in T, n \in Nat, step \in [T \X (1..n) -> T],
         f[1..0] = base, \A k \in 1..n : f[1..(k - 1)] \in T => f[1..k] = step[<<f[1..(k - 1)], k>>]
  PROVE  \E g : Unrolls(g, T, n, base, f[1..n], step)
<1> DEFINE P == {k \in 0..n : f[1..k] \in T}
           g == [k \in 0..n |-> f[1..k]]
<1>1. 0 \in P
  OBVIOUS
<1>2. ASSUME NEW k \in 1..n, k - 1 \in P
      PROVE  k \in P
  <2>1. f[1..k] = step[<<f[1..(k - 1)], k>>] /\ f[1..(k - 1)] \in T
    BY <1>2
  <2>2. <<f[1..(k - 1)], k>> \in T \X (1..n) /\ k \in 0..n
    BY <2>1
  <2>. QED BY <2>1, <2>2
<1>3. \A k \in 0..n : k \in P
  <2> HIDE DEF P
  <2>. QED BY <1>1, <1>2, Rounds
<1>4. g \in [0..n -> T] /\ g[0] = base /\ g[n] = f[1..n]
  BY <1>3
<1>5. \A k \in 1..n : g[k] = step[<<g[k - 1], k>>]
  <2> TAKE k \in 1..n
  <2>1. k \in 0..n /\ k - 1 \in 0..n
    OBVIOUS
  <2>. QED BY <1>3, <2>1
<1>. QED BY <1>4, <1>5 DEF Unrolls

(* The positions of a loop. *)
LEMMA UpDown ==
  ASSUME NEW i, NEW e, i \in Int, e \in Int, e - i + 1 \in Nat
  PROVE  /\ DOMAIN Up(i, e) = 1..(e - i + 1) /\ Len(Up(i, e)) = e - i + 1
         /\ \A k \in 1..(e - i + 1) : Up(i, e)[k] = i + k - 1
         /\ DOMAIN Down(e, i) = 1..(e - i + 1) /\ Len(Down(e, i)) = e - i + 1
         /\ \A k \in 1..(e - i + 1) : Down(e, i)[k] = e - k + 1
BY DEF Up, Down

(* s[at] = vs[0], s[at + 1] = vs[1], .., one write after the other. *)
PutsRun(g, S, s, vs, at) ==
  /\ g \in [0..(Len(vs)) -> Seq(S)]
  /\ g[0] = s /\ g[Len(vs)] = Puts(s, at, vs)
  /\ \A k \in 1..(Len(vs)) : g[k] = Put(g[k - 1], at + k - 1, vs[k])

(* The loop has such a run. *)
LEMMA PutsUnrolled ==
  ASSUME NEW S, NEW s, NEW vs, NEW at, s \in Seq(S), vs \in Seq(S), at \in Nat, Undefined \in S
  PROVE  \E g : PutsRun(g, S, s, vs, at)
<1> DEFINE n == Len(vs)
           is == Up(1, Len(vs))
           T == Seq(S)
           op(t, i) == Put(t, at + is[i] - 1, vs[is[i]])
           step == [p \in T \X (1..n) |-> op(p[1], p[2])]
           f == CHOOSE iter : iter = [R \in SUBSET (DOMAIN is) |->
                  IF R = {} THEN s
                  ELSE Put(iter[R \ {Max(R)}], at + is[Max(R)] - 1, vs[is[Max(R)]])]
<1>1. n \in Nat /\ DOMAIN is = 1..n /\ \A k \in 1..n : is[k] = k
  <2>1. n \in Nat /\ n \in Int /\ n - 1 + 1 = n /\ 1 \in Int
    OBVIOUS
  <2>2. DOMAIN is = 1..n /\ \A k \in 1..n : is[k] = 1 + k - 1
    <3> HIDE DEF n
    <3>1. DOMAIN Up(1, n) = 1..n /\ \A k \in 1..n : Up(1, n)[k] = 1 + k - 1
      BY <2>1, UpDown
    <3>. QED BY <3>1 DEF n
  <2> HIDE DEF is, n
  <2>. QED BY <2>1, <2>2
<1>2. Puts(s, at, vs) = f[DOMAIN is]
  BY DEF Puts, FoldLeft, MapThenFoldSet
<1> HIDE DEF is, n
<1>3. s \in T /\ \A t \in T, i \in 1..n : op(t, i) \in T
  <2> SUFFICES ASSUME NEW t \in T, NEW i \in 1..n
               PROVE  op(t, i) \in T
    OBVIOUS
  <2>1. at + is[i] - 1 \in Int /\ vs[is[i]] \in S
    BY <1>1 DEF n
  <2>. QED BY <2>1, PutType
<1>4. step \in [T \X (1..n) -> T] /\ s \in T
  BY <1>3
<1>5. \E it : it = [R \in SUBSET (1..n) |-> IF R = {} THEN s ELSE op(it[R \ {Max(R)}], Max(R))]
  <2> HIDE DEF T, op, step
  <2>1. PICK it \in [SUBSET (1..n) -> T] : \A R \in SUBSET (1..n) :
          /\ it[R] = IF R = {} THEN s ELSE step[<<it[R \ {Max(R)}], Max(R)>>]
          /\ R # {} => it[R \ {Max(R)}] \in T /\ Max(R) \in 1..n
    BY <1>1, <1>4, FoldTyped
  <2>2. \A R \in SUBSET (1..n) : it[R] = IF R = {} THEN s ELSE op(it[R \ {Max(R)}], Max(R))
    BY <2>1 DEF step
  <2>3. it = [R \in SUBSET (1..n) |-> it[R]]
    BY <2>1
  <2>. QED BY <2>2, <2>3
<1>6. f = [R \in SUBSET (1..n) |-> IF R = {} THEN s ELSE op(f[R \ {Max(R)}], Max(R))]
  BY <1>1, <1>5
<1> HIDE DEF f, op, T
<1>7. f[1..0] = s /\ \A k \in 1..n : f[1..k] = op(f[1..(k - 1)], k)
  <2>1. f[1..0] = s
    BY <1>1, <1>6, Intervals
  <2>2. ASSUME NEW k \in 1..n
        PROVE  f[1..k] = op(f[1..(k - 1)], k)
    <3>1. /\ 1..k \in SUBSET (1..n) /\ 1..k # {}
          /\ Max(1..k) = k /\ (1..k) \ {Max(1..k)} = 1..(k - 1)
      BY <1>1, Intervals
    <3>2. f[1..k] = op(f[(1..k) \ {Max(1..k)}], Max(1..k))
      BY <1>6, <3>1
    <3>. QED BY <3>1, <3>2
  <2>. QED BY <2>1, <2>2
<1>8. \A k \in 1..n : f[1..(k - 1)] \in T => f[1..k] = step[<<f[1..(k - 1)], k>>]
  BY <1>7
<1> HIDE DEF step
<1>9. PICK g : Unrolls(g, T, n, s, f[1..n], step)
  BY <1>1, <1>4, <1>7, <1>8, FoldUnrolled
<1>10. /\ g \in [0..n -> T] /\ g[0] = s /\ g[n] = Puts(s, at, vs)
       /\ \A k \in 1..n : g[k] = op(g[k - 1], k)
  <2>1. g \in [0..n -> T] /\ g[0] = s /\ g[n] = Puts(s, at, vs)
    BY <1>1, <1>2, <1>9 DEF Unrolls
  <2>2. ASSUME NEW k \in 1..n
        PROVE  g[k] = op(g[k - 1], k)
    <3>1. g[k] = step[<<g[k - 1], k>>] /\ k - 1 \in 0..n
      BY <1>1, <1>9 DEF Unrolls
    <3>2. g[k - 1] \in T
      BY <2>1, <3>1
    <3>. QED BY <3>1, <3>2 DEF step
  <2>. QED BY <2>1, <2>2
<1>. QED BY <1>1, <1>10 DEF n, T, op, PutsRun

(* vs written from position at on, as far as the first j of them. *)
PutsTo(s, at, vs, j) ==
  [k \in 1..(IF j = 0 \/ at + j <= Len(s) THEN Len(s) ELSE at + j) |->
     IF at < k /\ k <= at + j THEN vs[k - at] ELSE Get(s, k - 1)]

(* One more. *)
LEMMA PutsNext ==
  ASSUME NEW S, NEW s, NEW vs, NEW at, NEW j, s \in Seq(S), vs \in Seq(S), at \in Nat, Undefined \in S,
         j \in 1..Len(vs), PutsTo(s, at, vs, j - 1) \in Seq(S)
  PROVE  /\ Put(PutsTo(s, at, vs, j - 1), at + j - 1, vs[j]) = PutsTo(s, at, vs, j)
         /\ PutsTo(s, at, vs, j) \in Seq(S)
<1> DEFINE t == PutsTo(s, at, vs, j - 1)
           u == Put(t, at + j - 1, vs[j])
           m == IF j - 1 = 0 \/ at + (j - 1) <= Len(s) THEN Len(s) ELSE at + (j - 1)
           n == IF j = 0 \/ at + j <= Len(s) THEN Len(s) ELSE at + j
           e(k) == IF at < k /\ k <= at + j THEN vs[k - at] ELSE Get(s, k - 1)
<1>1. Len(s) \in Nat /\ Len(vs) \in Nat /\ at + j - 1 \in Nat /\ vs[j] \in S /\ m \in Nat /\ n \in Nat
  OBVIOUS
<1>2. /\ t = [k \in 1..m |-> IF at < k /\ k <= at + (j - 1) THEN vs[k - at] ELSE Get(s, k - 1)]
      /\ Len(t) = m
  BY <1>1 DEF PutsTo
<1>3. PutsTo(s, at, vs, j) = [k \in 1..n |-> e(k)]
  BY DEF PutsTo
<1>4. n = IF at + j - 1 < m THEN m ELSE at + j - 1 + 1
  BY <1>1
<1>5. /\ u \in Seq(S) /\ Len(u) = n
      /\ \A k \in 1..n : u[k] = IF k = at + j - 1 + 1 THEN vs[j] ELSE Get(t, k - 1)
  <2> HIDE DEF t, m, n, e
  <2> DEFINE pos == at + j - 1
             new == vs[j]
  <2>1. t \in Seq(S) /\ pos \in Nat /\ new \in S /\ n = IF pos < Len(t) THEN Len(t) ELSE pos + 1
    BY <1>1, <1>2, <1>4 DEF t
  <2> HIDE DEF pos, new, u
  <2>2. IsPut(Put(t, pos, new), S, t, pos, new)
    BY <2>1, PutForm
  <2>3. IsPut(u, S, t, pos, new)
    BY <2>2 DEF pos, new, u
  <2>. QED BY <2>1, <2>3 DEF pos, new, IsPut
<1>6. ASSUME NEW k \in 1..n
      PROVE  u[k] = e(k)
  <2>1. CASE k = at + j
    <3>1. k = at + j - 1 + 1 /\ k - at = j /\ at < k /\ k <= at + j
      BY <1>1, <2>1
    <3>. QED BY <1>5, <3>1
  <2>2. CASE k # at + j
    <3>1. u[k] = Get(t, k - 1) /\ (k - 1) + 1 = k
      BY <1>1, <1>5, <2>2
    <3>2. CASE k \in 1..m
      <4>1. k - 1 \in 0..(m - 1)
        BY <1>1, <3>2
      <4>2. Get(t, k - 1) = t[k]
        BY <1>2, <3>1, <4>1 DEF Get
      <4>3. t[k] = e(k)
        BY <1>1, <1>2, <2>2, <3>2
      <4>. QED BY <3>1, <4>2, <4>3
    <3>3. CASE k \notin 1..m
      <4>1. k - 1 \notin 0..(m - 1) /\ k - 1 \notin 0..(Len(s) - 1) /\ ~ (at < k /\ k <= at + j)
        BY <1>1, <2>2, <3>3
      <4>. QED BY <1>2, <3>1, <4>1 DEF Get
    <3>. QED BY <3>2, <3>3
  <2>. QED BY <2>1, <2>2
<1> HIDE DEF t, u, e, n, m
<1>7. u = [k \in 1..n |-> e(k)]
  BY <1>1, <1>5, <1>6
<1>. QED BY <1>3, <1>5, <1>7 DEF u, t

(* The positions of a loop are numbers. *)
LEMMA UpDownType ==
  ASSUME NEW i, NEW e, i \in Int, e \in Int
  PROVE  Up(i, e) \in Seq(Int) /\ Down(e, i) \in Seq(Int)
<1>1. CASE e - i + 1 \in Nat
  BY <1>1 DEF Up, Down
<1>2. CASE ~ (e - i + 1 \in Nat)
  <2>1. 1..(e - i + 1) = 1..0
    BY <1>2
  <2>2. Up(i, e) = [k \in 1..0 |-> i + k - 1] /\ Down(e, i) = [k \in 1..0 |-> e - k + 1]
    BY <2>1 DEF Up, Down
  <2>. QED BY <2>2
<1>. QED BY <1>1, <1>2

(* for i in ks: s[i + d] = s[i], one write after the other. *)
MovesRun(g, S, s, ks, d) ==
  /\ g \in [0..(Len(ks)) -> Seq(S)]
  /\ g[0] = s /\ g[Len(ks)] = Moves(s, ks, d)
  /\ \A k \in 1..(Len(ks)) : g[k] = Put(g[k - 1], ks[k] + d, Get(g[k - 1], ks[k]))

(* The loop has such a run. *)
LEMMA MovesUnrolled ==
  ASSUME NEW S, NEW s, NEW ks, NEW d, s \in Seq(S), ks \in Seq(Int), d \in Int, Undefined \in S
  PROVE  \E g : MovesRun(g, S, s, ks, d)
<1> DEFINE n == Len(ks)
           is == ks
           T == Seq(S)
           op(t, i) == Put(t, is[i] + d, Get(t, is[i]))
           step == [p \in T \X (1..n) |-> op(p[1], p[2])]
           f == CHOOSE iter : iter = [R \in SUBSET (DOMAIN is) |->
                  IF R = {} THEN s
                  ELSE Put(iter[R \ {Max(R)}], is[Max(R)] + d, Get(iter[R \ {Max(R)}], is[Max(R)]))]
<1>1. n \in Nat /\ DOMAIN is = 1..n /\ \A k \in 1..n : is[k] \in Int
  OBVIOUS
<1>2. Moves(s, ks, d) = f[DOMAIN is]
  BY DEF Moves, FoldLeft, MapThenFoldSet
<1> HIDE DEF is, n
<1>3. s \in T /\ \A t \in T, i \in 1..n : op(t, i) \in T
  <2> SUFFICES ASSUME NEW t \in T, NEW i \in 1..n
               PROVE  op(t, i) \in T
    OBVIOUS
  <2>1. is[i] + d \in Int /\ t \in Seq(S)
    BY <1>1
  <2>2. Get(t, is[i]) \in S
    BY <2>1, GetType
  <2>. QED BY <2>1, <2>2, PutType
<1>4. step \in [T \X (1..n) -> T] /\ s \in T
  BY <1>3
<1>5. \E it : it = [R \in SUBSET (1..n) |-> IF R = {} THEN s ELSE op(it[R \ {Max(R)}], Max(R))]
  <2> HIDE DEF T, op, step
  <2>1. PICK it \in [SUBSET (1..n) -> T] : \A R \in SUBSET (1..n) :
          /\ it[R] = IF R = {} THEN s ELSE step[<<it[R \ {Max(R)}], Max(R)>>]
          /\ R # {} => it[R \ {Max(R)}] \in T /\ Max(R) \in 1..n
    BY <1>1, <1>4, FoldTyped
  <2>2. \A R \in SUBSET (1..n) : it[R] = IF R = {} THEN s ELSE op(it[R \ {Max(R)}], Max(R))
    BY <2>1 DEF step
  <2>3. it = [R \in SUBSET (1..n) |-> it[R]]
    BY <2>1
  <2>. QED BY <2>2, <2>3
<1>6. f = [R \in SUBSET (1..n) |-> IF R = {} THEN s ELSE op(f[R \ {Max(R)}], Max(R))]
  BY <1>1, <1>5
<1> HIDE DEF f, op, T
<1>7. f[1..0] = s /\ \A k \in 1..n : f[1..k] = op(f[1..(k - 1)], k)
  <2>1. f[1..0] = s
    BY <1>1, <1>6, Intervals
  <2>2. ASSUME NEW k \in 1..n
        PROVE  f[1..k] = op(f[1..(k - 1)], k)
    <3>1. /\ 1..k \in SUBSET (1..n) /\ 1..k # {}
          /\ Max(1..k) = k /\ (1..k) \ {Max(1..k)} = 1..(k - 1)
      BY <1>1, Intervals
    <3>2. f[1..k] = op(f[(1..k) \ {Max(1..k)}], Max(1..k))
      BY <1>6, <3>1
    <3>. QED BY <3>1, <3>2
  <2>. QED BY <2>1, <2>2
<1>8. \A k \in 1..n : f[1..(k - 1)] \in T => f[1..k] = step[<<f[1..(k - 1)], k>>]
  BY <1>7
<1> HIDE DEF step
<1>9. PICK g : Unrolls(g, T, n, s, f[1..n], step)
  BY <1>1, <1>4, <1>7, <1>8, FoldUnrolled
<1>10. /\ g \in [0..n -> T] /\ g[0] = s /\ g[n] = Moves(s, ks, d)
       /\ \A k \in 1..n : g[k] = op(g[k - 1], k)
  <2>1. g \in [0..n -> T] /\ g[0] = s /\ g[n] = Moves(s, ks, d)
    BY <1>1, <1>2, <1>9 DEF Unrolls
  <2>2. ASSUME NEW k \in 1..n
        PROVE  g[k] = op(g[k - 1], k)
    <3>1. g[k] = step[<<g[k - 1], k>>] /\ k - 1 \in 0..n
      BY <1>1, <1>9 DEF Unrolls
    <3>2. g[k - 1] \in T
      BY <2>1, <3>1
    <3>. QED BY <3>1, <3>2 DEF step
  <2>. QED BY <2>1, <2>2
<1>. QED BY <1>1, <1>10 DEF n, T, op, MovesRun, is

(* reverse() swaps from both ends. *)
ReversedRun(g, S, s) ==
  /\ g \in [0..(Len(s) \div 2) -> Seq(S)]
  /\ g[0] = s /\ g[Len(s) \div 2] = Reversed(s)
  /\ \A k \in 1..(Len(s) \div 2) : g[k] = Put(Put(g[k - 1], k - 1, Get(g[k - 1], Len(s) - 1 - (k - 1))),
                             Len(s) - 1 - (k - 1), Get(g[k - 1], k - 1))

(* The loop has such a run. *)
LEMMA ReversedUnrolled ==
  ASSUME NEW S, NEW s, s \in Seq(S), Undefined \in S
  PROVE  \E g : ReversedRun(g, S, s)
<1> DEFINE n == Len(s) \div 2
           is == Up(0, Len(s) \div 2 - 1)
           T == Seq(S)
           op(t, i) == Put(Put(t, is[i], Get(t, Len(s) - 1 - is[i])), Len(s) - 1 - is[i], Get(t, is[i]))
           step == [p \in T \X (1..n) |-> op(p[1], p[2])]
           f == CHOOSE iter : iter = [R \in SUBSET (DOMAIN is) |->
                  IF R = {} THEN s
                  ELSE Put(Put(iter[R \ {Max(R)}], is[Max(R)],
                               Get(iter[R \ {Max(R)}], Len(s) - 1 - is[Max(R)])),
                           Len(s) - 1 - is[Max(R)], Get(iter[R \ {Max(R)}], is[Max(R)]))]
<1>1. n \in Nat /\ DOMAIN is = 1..n /\ \A k \in 1..n : is[k] = k - 1
  <2>1. n \in Nat /\ n - 1 \in Int /\ n - 1 - 0 + 1 = n /\ 0 \in Int
    OBVIOUS
  <2>2. DOMAIN is = 1..n /\ \A k \in 1..n : is[k] = 0 + k - 1
    <3> HIDE DEF n
    <3>1. DOMAIN Up(0, n - 1) = 1..n /\ \A k \in 1..n : Up(0, n - 1)[k] = 0 + k - 1
      BY <2>1, UpDown
    <3>. QED BY <3>1 DEF n
  <2> HIDE DEF is, n
  <2>. QED BY <2>1, <2>2
<1>2. Reversed(s) = f[DOMAIN is]
  BY DEF Reversed, FoldLeft, MapThenFoldSet
<1> HIDE DEF is, n
<1>3. s \in T /\ \A t \in T, i \in 1..n : op(t, i) \in T
  <2> SUFFICES ASSUME NEW t \in T, NEW i \in 1..n
               PROVE  op(t, i) \in T
    OBVIOUS
  <2>1. is[i] \in Int /\ Len(s) - 1 - is[i] \in Int /\ t \in Seq(S)
    BY <1>1
  <2>2. Get(t, is[i]) \in S /\ Get(t, Len(s) - 1 - is[i]) \in S
    BY <2>1, GetType
  <2>3. Put(t, is[i], Get(t, Len(s) - 1 - is[i])) \in Seq(S)
    BY <2>1, <2>2, PutType
  <2>. QED BY <2>1, <2>2, <2>3, PutType
<1>4. step \in [T \X (1..n) -> T] /\ s \in T
  BY <1>3
<1>5. \E it : it = [R \in SUBSET (1..n) |-> IF R = {} THEN s ELSE op(it[R \ {Max(R)}], Max(R))]
  <2> HIDE DEF T, op, step
  <2>1. PICK it \in [SUBSET (1..n) -> T] : \A R \in SUBSET (1..n) :
          /\ it[R] = IF R = {} THEN s ELSE step[<<it[R \ {Max(R)}], Max(R)>>]
          /\ R # {} => it[R \ {Max(R)}] \in T /\ Max(R) \in 1..n
    BY <1>1, <1>4, FoldTyped
  <2>2. \A R \in SUBSET (1..n) : it[R] = IF R = {} THEN s ELSE op(it[R \ {Max(R)}], Max(R))
    BY <2>1 DEF step
  <2>3. it = [R \in SUBSET (1..n) |-> it[R]]
    BY <2>1
  <2>. QED BY <2>2, <2>3
<1>6. f = [R \in SUBSET (1..n) |-> IF R = {} THEN s ELSE op(f[R \ {Max(R)}], Max(R))]
  BY <1>1, <1>5
<1> HIDE DEF f, op, T
<1>7. f[1..0] = s /\ \A k \in 1..n : f[1..k] = op(f[1..(k - 1)], k)
  <2>1. f[1..0] = s
    BY <1>1, <1>6, Intervals
  <2>2. ASSUME NEW k \in 1..n
        PROVE  f[1..k] = op(f[1..(k - 1)], k)
    <3>1. /\ 1..k \in SUBSET (1..n) /\ 1..k # {}
          /\ Max(1..k) = k /\ (1..k) \ {Max(1..k)} = 1..(k - 1)
      BY <1>1, Intervals
    <3>2. f[1..k] = op(f[(1..k) \ {Max(1..k)}], Max(1..k))
      BY <1>6, <3>1
    <3>. QED BY <3>1, <3>2
  <2>. QED BY <2>1, <2>2
<1>8. \A k \in 1..n : f[1..(k - 1)] \in T => f[1..k] = step[<<f[1..(k - 1)], k>>]
  BY <1>7
<1> HIDE DEF step
<1>9. PICK g : Unrolls(g, T, n, s, f[1..n], step)
  BY <1>1, <1>4, <1>7, <1>8, FoldUnrolled
<1>10. /\ g \in [0..n -> T] /\ g[0] = s /\ g[n] = Reversed(s)
       /\ \A k \in 1..n : g[k] = op(g[k - 1], k)
  <2>1. g \in [0..n -> T] /\ g[0] = s /\ g[n] = Reversed(s)
    BY <1>1, <1>2, <1>9 DEF Unrolls
  <2>2. ASSUME NEW k \in 1..n
        PROVE  g[k] = op(g[k - 1], k)
    <3>1. g[k] = step[<<g[k - 1], k>>] /\ k - 1 \in 0..n
      BY <1>1, <1>9 DEF Unrolls
    <3>2. g[k - 1] \in T
      BY <2>1, <3>1
    <3>. QED BY <3>1, <3>2 DEF step
  <2>. QED BY <2>1, <2>2
<1>. QED BY <1>1, <1>10 DEF n, T, op, ReversedRun

(* fill() writes position after position. *)
FilledRun(g, S, s, v, a, b) ==
  LET is == Up(StartOf(a, Len(s)), EndOf(b, Len(s)) - 1)
  IN /\ g \in [0..Len(is) -> Seq(S)] /\ g[0] = s /\ g[Len(is)] = Filled(s, v, a, b)
     /\ \A k \in 1..Len(is) : g[k] = Put(g[k - 1], is[k], v)

(* The loop has such a run. *)
LEMMA FilledUnrolled ==
  ASSUME NEW S, NEW s, NEW v, NEW a, NEW b, s \in Seq(S), v \in S, Undefined \in S,
         StartOf(a, Len(s)) \in Int, EndOf(b, Len(s)) \in Int
  PROVE  \E g : FilledRun(g, S, s, v, a, b)
<1> DEFINE n == Len(Up(StartOf(a, Len(s)), EndOf(b, Len(s)) - 1))
           is == Up(StartOf(a, Len(s)), EndOf(b, Len(s)) - 1)
           T == Seq(S)
           op(t, i) == Put(t, is[i], v)
           step == [p \in T \X (1..n) |-> op(p[1], p[2])]
           f == CHOOSE iter : iter = [R \in SUBSET (DOMAIN is) |->
                  IF R = {} THEN s
                  ELSE Put(iter[R \ {Max(R)}], is[Max(R)], v)]
<1>1. n \in Nat /\ DOMAIN is = 1..n /\ \A k \in 1..n : is[k] \in Int
  <2>1. is \in Seq(Int)
    BY UpDownType
  <2> HIDE DEF is
  <2>2. Len(is) \in Nat /\ DOMAIN is = 1..Len(is) /\ \A k \in 1..Len(is) : is[k] \in Int
    BY <2>1
  <2>. QED BY <2>2 DEF is
<1>2. Filled(s, v, a, b) = f[DOMAIN is]
  BY DEF Filled, FoldLeft, MapThenFoldSet
<1> HIDE DEF is, n
<1>3. s \in T /\ \A t \in T, i \in 1..n : op(t, i) \in T
  BY <1>1, PutType
<1>4. step \in [T \X (1..n) -> T] /\ s \in T
  BY <1>3
<1>5. \E it : it = [R \in SUBSET (1..n) |-> IF R = {} THEN s ELSE op(it[R \ {Max(R)}], Max(R))]
  <2> HIDE DEF T, op, step
  <2>1. PICK it \in [SUBSET (1..n) -> T] : \A R \in SUBSET (1..n) :
          /\ it[R] = IF R = {} THEN s ELSE step[<<it[R \ {Max(R)}], Max(R)>>]
          /\ R # {} => it[R \ {Max(R)}] \in T /\ Max(R) \in 1..n
    BY <1>1, <1>4, FoldTyped
  <2>2. \A R \in SUBSET (1..n) : it[R] = IF R = {} THEN s ELSE op(it[R \ {Max(R)}], Max(R))
    BY <2>1 DEF step
  <2>3. it = [R \in SUBSET (1..n) |-> it[R]]
    BY <2>1
  <2>. QED BY <2>2, <2>3
<1>6. f = [R \in SUBSET (1..n) |-> IF R = {} THEN s ELSE op(f[R \ {Max(R)}], Max(R))]
  BY <1>1, <1>5
<1> HIDE DEF f, op, T
<1>7. f[1..0] = s /\ \A k \in 1..n : f[1..k] = op(f[1..(k - 1)], k)
  <2>1. f[1..0] = s
    BY <1>1, <1>6, Intervals
  <2>2. ASSUME NEW k \in 1..n
        PROVE  f[1..k] = op(f[1..(k - 1)], k)
    <3>1. /\ 1..k \in SUBSET (1..n) /\ 1..k # {}
          /\ Max(1..k) = k /\ (1..k) \ {Max(1..k)} = 1..(k - 1)
      BY <1>1, Intervals
    <3>2. f[1..k] = op(f[(1..k) \ {Max(1..k)}], Max(1..k))
      BY <1>6, <3>1
    <3>. QED BY <3>1, <3>2
  <2>. QED BY <2>1, <2>2
<1>8. \A k \in 1..n : f[1..(k - 1)] \in T => f[1..k] = step[<<f[1..(k - 1)], k>>]
  BY <1>7
<1> HIDE DEF step
<1>9. PICK g : Unrolls(g, T, n, s, f[1..n], step)
  BY <1>1, <1>4, <1>7, <1>8, FoldUnrolled
<1>10. /\ g \in [0..n -> T] /\ g[0] = s /\ g[n] = Filled(s, v, a, b)
       /\ \A k \in 1..n : g[k] = op(g[k - 1], k)
  <2>1. g \in [0..n -> T] /\ g[0] = s /\ g[n] = Filled(s, v, a, b)
    BY <1>1, <1>2, <1>9 DEF Unrolls
  <2>2. ASSUME NEW k \in 1..n
        PROVE  g[k] = op(g[k - 1], k)
    <3>1. g[k] = step[<<g[k - 1], k>>] /\ k - 1 \in 0..n
      BY <1>1, <1>9 DEF Unrolls
    <3>2. g[k - 1] \in T
      BY <2>1, <3>1
    <3>. QED BY <3>1, <3>2 DEF step
  <2>. QED BY <2>1, <2>2
<1>. QED BY <1>1, <1>10 DEF n, T, op, FilledRun, is

(* An element goes in behind the last one it is not before. *)
LEMMA InsertedForm ==
  ASSUME NEW S, NEW out, NEW x, NEW before, out \in Seq(S), x \in S
  PROVE  Inserted(out, x, before) \in Seq(S) /\ Len(Inserted(out, x, before)) = Len(out) + 1
<1> DEFINE H == {i \in DOMAIN out : <<x, out[i]>> \notin before}
           m == Max({0} \cup H)
           a == SubSeq(out, 1, m)
           b == SubSeq(out, m + 1, Len(out))
<1>1. Len(out) \in Nat /\ H \in SUBSET (1..Len(out))
  OBVIOUS
<1> HIDE DEF H
<1>2. m \in 0..Len(out)
  <2>1. CASE H = {}
    <3>1. 0 \in {0} \cup H /\ {0} \cup H \in SUBSET Int /\ \A j \in {0} \cup H : j <= 0
      BY <2>1
    <3>2. m = 0
      BY <3>1, GreatestIs
    <3>. QED BY <1>1, <3>2
  <2>2. CASE H # {}
    <3> DEFINE q == Max(H)
    <3>1. q \in H /\ \A j \in H : j <= q
      BY <1>1, <2>2, GreatestExists
    <3> HIDE DEF q
    <3>2. q \in {0} \cup H /\ {0} \cup H \in SUBSET Int /\ \A j \in {0} \cup H : j <= q
      BY <1>1, <3>1
    <3>3. m = q
      BY <3>2, GreatestIs
    <3>. QED BY <1>1, <3>1, <3>3
  <2>. QED BY <2>1, <2>2
<1>3. Inserted(out, x, before) = (a \o <<x>>) \o b
  BY DEF Inserted, H
<1> HIDE DEF m
<1>4. a \in Seq(S) /\ Len(a) = m /\ b \in Seq(S) /\ Len(b) = Len(out) - m
  BY <1>1, <1>2
<1>5. <<x>> \in Seq(S) /\ Len(<<x>>) = 1
  OBVIOUS
<1> HIDE DEF a, b
<1>6. a \o <<x>> \in Seq(S) /\ Len(a \o <<x>>) = m + 1
  BY <1>1, <1>2, <1>4, <1>5, ConcatProperties
<1> DEFINE c == a \o <<x>>
<1> HIDE DEF c
<1>7. c \o b \in Seq(S) /\ Len(c \o b) = Len(c) + Len(b)
  BY <1>4, <1>6, ConcatProperties DEF c
<1>8. Len(c) + Len(b) = Len(out) + 1
  BY <1>1, <1>2, <1>4, <1>6 DEF c
<1>. QED BY <1>3, <1>7, <1>8 DEF c

(* The insertion sort takes one element after the other. *)
SortedRun(g, S, s, before) ==
  /\ g \in [0..(Len(s)) -> Seq(S)]
  /\ g[0] = <<>> /\ g[Len(s)] = Sorted(s, before)
  /\ \A k \in 1..(Len(s)) : g[k] = Inserted(g[k - 1], s[k], before)

(* The loop has such a run. *)
LEMMA SortedUnrolled ==
  ASSUME NEW S, NEW s, NEW before, s \in Seq(S)
  PROVE  \E g : SortedRun(g, S, s, before)
<1> DEFINE n == Len(s)
           is == s
           T == Seq(S)
           op(t, i) == Inserted(t, is[i], before)
           step == [p \in T \X (1..n) |-> op(p[1], p[2])]
           f == CHOOSE iter : iter = [R \in SUBSET (DOMAIN is) |->
                  IF R = {} THEN <<>>
                  ELSE Inserted(iter[R \ {Max(R)}], is[Max(R)], before)]
<1>1. n \in Nat /\ DOMAIN is = 1..n /\ \A k \in 1..n : is[k] \in S
  OBVIOUS
<1>2. Sorted(s, before) = f[DOMAIN is]
  BY DEF Sorted, FoldLeft, MapThenFoldSet
<1> HIDE DEF is, n
<1>3. <<>> \in T /\ \A t \in T, i \in 1..n : op(t, i) \in T
  BY <1>1, InsertedForm
<1>4. step \in [T \X (1..n) -> T] /\ <<>> \in T
  BY <1>3
<1>5. \E it : it = [R \in SUBSET (1..n) |-> IF R = {} THEN <<>> ELSE op(it[R \ {Max(R)}], Max(R))]
  <2> HIDE DEF T, op, step
  <2>1. PICK it \in [SUBSET (1..n) -> T] : \A R \in SUBSET (1..n) :
          /\ it[R] = IF R = {} THEN <<>> ELSE step[<<it[R \ {Max(R)}], Max(R)>>]
          /\ R # {} => it[R \ {Max(R)}] \in T /\ Max(R) \in 1..n
    BY <1>1, <1>4, FoldTyped
  <2>2. \A R \in SUBSET (1..n) : it[R] = IF R = {} THEN <<>> ELSE op(it[R \ {Max(R)}], Max(R))
    BY <2>1 DEF step
  <2>3. it = [R \in SUBSET (1..n) |-> it[R]]
    BY <2>1
  <2>. QED BY <2>2, <2>3
<1>6. f = [R \in SUBSET (1..n) |-> IF R = {} THEN <<>> ELSE op(f[R \ {Max(R)}], Max(R))]
  BY <1>1, <1>5
<1> HIDE DEF f, op, T
<1>7. f[1..0] = <<>> /\ \A k \in 1..n : f[1..k] = op(f[1..(k - 1)], k)
  <2>1. f[1..0] = <<>>
    BY <1>1, <1>6, Intervals
  <2>2. ASSUME NEW k \in 1..n
        PROVE  f[1..k] = op(f[1..(k - 1)], k)
    <3>1. /\ 1..k \in SUBSET (1..n) /\ 1..k # {}
          /\ Max(1..k) = k /\ (1..k) \ {Max(1..k)} = 1..(k - 1)
      BY <1>1, Intervals
    <3>2. f[1..k] = op(f[(1..k) \ {Max(1..k)}], Max(1..k))
      BY <1>6, <3>1
    <3>. QED BY <3>1, <3>2
  <2>. QED BY <2>1, <2>2
<1>8. \A k \in 1..n : f[1..(k - 1)] \in T => f[1..k] = step[<<f[1..(k - 1)], k>>]
  BY <1>7
<1> HIDE DEF step
<1>9. PICK g : Unrolls(g, T, n, <<>>, f[1..n], step)
  BY <1>1, <1>4, <1>7, <1>8, FoldUnrolled
<1>10. /\ g \in [0..n -> T] /\ g[0] = <<>> /\ g[n] = Sorted(s, before)
       /\ \A k \in 1..n : g[k] = op(g[k - 1], k)
  <2>1. g \in [0..n -> T] /\ g[0] = <<>> /\ g[n] = Sorted(s, before)
    BY <1>1, <1>2, <1>9 DEF Unrolls
  <2>2. ASSUME NEW k \in 1..n
        PROVE  g[k] = op(g[k - 1], k)
    <3>1. g[k] = step[<<g[k - 1], k>>] /\ k - 1 \in 0..n
      BY <1>1, <1>9 DEF Unrolls
    <3>2. g[k - 1] \in T
      BY <2>1, <3>1
    <3>. QED BY <3>1, <3>2 DEF step
  <2>. QED BY <2>1, <2>2
<1>. QED BY <1>1, <1>10 DEF n, T, op, SortedRun, is

(* Writing one sequence into another leaves a sequence. *)
LEMMA PutsType ==
  ASSUME NEW S, NEW s, NEW vs, NEW at, s \in Seq(S), vs \in Seq(S), at \in Nat, Undefined \in S
  PROVE  Puts(s, at, vs) \in Seq(S)
<1>1. PICK g : PutsRun(g, S, s, vs, at)
  BY PutsUnrolled
<1>2. Len(vs) \in 0..Len(vs)
  OBVIOUS
<1>. QED BY <1>1, <1>2 DEF PutsRun

(* A loop of moves leaves an array of the same elements. *)
LEMMA MovesType ==
  ASSUME NEW S, NEW s, NEW ks, NEW d, s \in Seq(S), ks \in Seq(Int), d \in Int, Undefined \in S
  PROVE  Moves(s, ks, d) \in Seq(S)
<1>1. PICK g : MovesRun(g, S, s, ks, d)
  BY MovesUnrolled
<1>2. Len(ks) \in 0..Len(ks)
  OBVIOUS
<1>. QED BY <1>1, <1>2 DEF MovesRun

(* reverse() leaves an array of the same elements. *)
LEMMA ReversedType ==
  ASSUME NEW S, NEW s, s \in Seq(S), Undefined \in S
  PROVE  Reversed(s) \in Seq(S)
<1>1. PICK g : ReversedRun(g, S, s)
  BY ReversedUnrolled
<1>2. Len(s) \div 2 \in 0..(Len(s) \div 2)
  OBVIOUS
<1>. QED BY <1>1, <1>2 DEF ReversedRun

(* A sequence cut to a length. *)
LEMMA TruncateForm ==
  ASSUME NEW S, NEW s, NEW n, s \in Seq(S), n \in Int
  PROVE  Truncate(s, n) \in Seq(S) /\ Len(Truncate(s, n)) <= Len(s)
<1> DEFINE m == IF n < 0 THEN 0 ELSE n
<1>1. CASE n < Len(s)
  <2>1. Truncate(s, n) = [k \in 1..m |-> s[k]] /\ m \in Nat /\ m <= Len(s) /\ \A k \in 1..m : s[k] \in S
    BY <1>1 DEF Truncate
  <2> HIDE DEF m
  <2>. QED BY <2>1
<1>2. CASE ~ (n < Len(s))
  BY <1>2 DEF Truncate
<1>. QED BY <1>1, <1>2

(* Index arguments are clamped to the array. *)
LEMMA Clamped ==
  ASSUME NEW i, NEW n, i \in Int, n \in Nat
  PROVE  ClampIndex(i, n) \in 0..n
BY DEF ClampIndex

(* The ends of a range lie in the array, whatever the arguments. *)
LEMMA StartEnd ==
  ASSUME NEW i, NEW n, i \in Int \cup {Undefined}, n \in Nat
  PROVE  StartOf(i, n) \in 0..n /\ EndOf(i, n) \in 0..n
BY Clamped DEF StartOf, EndOf

(* fill() leaves an array. *)
LEMMA FilledType ==
  ASSUME NEW S, NEW s, NEW v, NEW a, NEW b, s \in Seq(S), v \in S, Undefined \in S,
         a \in Int \cup {Undefined}, b \in Int \cup {Undefined}
  PROVE  Filled(s, v, a, b) \in Seq(S)
<1> DEFINE is == Up(StartOf(a, Len(s)), EndOf(b, Len(s)) - 1)
<1>0. Len(s) \in Nat
  OBVIOUS
<1>1. StartOf(a, Len(s)) \in Int /\ EndOf(b, Len(s)) \in Int /\ EndOf(b, Len(s)) - 1 \in Int
  BY <1>0, StartEnd
<1>2. PICK g : FilledRun(g, S, s, v, a, b)
  BY <1>1, FilledUnrolled
<1>3. is \in Seq(Int)
  BY <1>1, UpDownType
<1>4. Len(is) \in 0..Len(is)
  <2> HIDE DEF is
  <2>. QED BY <1>3
<1>. QED BY <1>2, <1>4 DEF FilledRun

(* The elements of a range. *)
LEMMA RangeType ==
  ASSUME NEW S, NEW s, NEW i, NEW n, s \in Seq(S), Undefined \in S, i \in Int, n \in Int
  PROVE  [k \in 1..n |-> Get(s, i + k - 1)] \in Seq(S)
<1>1. \A k \in 1..n : Get(s, i + k - 1) \in S
  BY GetType
<1>2. CASE n \in Nat
  BY <1>1, <1>2
<1>3. CASE n \notin Nat
  <2>1. 1..n = 1..0
    BY <1>3
  <2>2. [k \in 1..n |-> Get(s, i + k - 1)] = [k \in 1..0 |-> Get(s, i + k - 1)]
    BY <2>1
  <2>. QED BY <2>2
<1>. QED BY <1>2, <1>3

(* The smaller of two numbers. *)
LEMMA MinOfTwo ==
  ASSUME NEW a, NEW b, a \in Int, b \in Int
  PROVE  Min({a, b}) = IF a <= b THEN a ELSE b
<1> DEFINE m == IF a <= b THEN a ELSE b
<1>1. m \in {a, b} /\ m \in Int /\ \A y \in {a, b} : m <= y
  OBVIOUS
<1>2. \A x \in {a, b} : (\A y \in {a, b} : x <= y) => x = m
  OBVIOUS
<1> HIDE DEF m
<1>3. Min({a, b}) = m
  BY <1>1, <1>2 DEF Min
<1>. QED BY <1>3 DEF m

(* copyWithin() leaves an array. *)
LEMMA CopiedWithinType ==
  ASSUME NEW S, NEW s, NEW to, NEW a, NEW b, s \in Seq(S), Undefined \in S,
         to \in Int, a \in Int \cup {Undefined}, b \in Int \cup {Undefined}
  PROVE  CopiedWithin(s, to, a, b) \in Seq(S)
<1> DEFINE n == Len(s)
           target == ClampIndex(to, n)
           start == StartOf(a, n)
           p == EndOf(b, n) - start
           q == n - target
           count == Min({p, q})
           vs == [k \in 1..count |-> Get(s, start + k - 1)]
<1>1. n \in Nat
  OBVIOUS
<1>2. target \in Nat /\ start \in Int /\ p \in Int /\ q \in Int
  <2> HIDE DEF n
  <2>. QED BY <1>1, Clamped, StartEnd
<1>3. CopiedWithin(s, to, a, b) = Puts(s, target, vs)
  BY DEF CopiedWithin
<1> HIDE DEF target, start, p, q
<1>4. count \in Int
  BY <1>2, MinOfTwo
<1> HIDE DEF count
<1>5. vs \in Seq(S)
  BY <1>2, <1>4, RangeType
<1> HIDE DEF vs
<1>. QED BY <1>2, <1>3, <1>5, PutsType

(* shift() leaves an array. *)
LEMMA ShiftedType ==
  ASSUME NEW S, NEW s, s \in Seq(S), Undefined \in S
  PROVE  Shifted(s) \in Seq(S)
<1> DEFINE is == Up(1, Len(s) - 1)
           d == -1
           t == Moves(s, is, d)
<1>1. Len(s) - 1 \in Int /\ 1 \in Int /\ d \in Int
  OBVIOUS
<1>2. is \in Seq(Int)
  BY <1>1, UpDownType
<1>3. Shifted(s) = IF s = <<>> THEN s ELSE Truncate(t, Len(s) - 1)
  BY DEF Shifted
<1> HIDE DEF is, d
<1>4. t \in Seq(S)
  BY <1>1, <1>2, MovesType
<1> HIDE DEF t
<1>. QED BY <1>1, <1>3, <1>4, TruncateForm

(* unshift() leaves an array. *)
LEMMA UnshiftedType ==
  ASSUME NEW S, NEW s, NEW vs, s \in Seq(S), vs \in Seq(S), Undefined \in S
  PROVE  Unshifted(s, vs) \in Seq(S)
<1> DEFINE is == Down(Len(s) - 1, 0)
           u == [k \in 1..Len(vs) |-> Undefined]
           e == s \o u
           d == Len(vs)
           t == Moves(e, is, d)
<1>1. Len(s) - 1 \in Int /\ 0 \in Int /\ d \in Int
  OBVIOUS
<1>2. is \in Seq(Int)
  BY <1>1, UpDownType
<1>3. u \in Seq(S)
  OBVIOUS
<1> HIDE DEF is, u
<1>4. e \in Seq(S)
  BY <1>3, ConcatProperties
<1>6. Unshifted(s, vs) = Puts(t, 0, vs)
  BY DEF Unshifted, is, u
<1> HIDE DEF e, d
<1>5. Moves(e, is, d) \in Seq(S)
  BY <1>1, <1>2, <1>4, MovesType
<1>7. t \in Seq(S)
  BY <1>5
<1> HIDE DEF t
<1>. QED BY <1>6, <1>7, PutsType

(* A sort keeps the number of the elements. *)
LEMMA SortedForm ==
  ASSUME NEW S, NEW s, NEW before, s \in Seq(S)
  PROVE  Sorted(s, before) \in Seq(S) /\ Len(Sorted(s, before)) = Len(s)
<1> DEFINE n == Len(s)
<1>1. n \in Nat /\ n \in 0..n /\ \A k \in 1..n : s[k] \in S
  OBVIOUS
<1>2. PICK g : SortedRun(g, S, s, before)
  BY SortedUnrolled
<1>7. /\ g \in [0..n -> Seq(S)] /\ g[0] = <<>> /\ g[n] = Sorted(s, before)
      /\ \A k \in 1..n : g[k] = Inserted(g[k - 1], s[k], before)
  BY <1>2 DEF SortedRun
<1> HIDE DEF n
<1> DEFINE P == {k \in 0..n : Len(g[k]) = k}
<1>3. 0 \in P
  BY <1>1, <1>7
<1>4. ASSUME NEW k \in 1..n, k - 1 \in P
      PROVE  k \in P
  <2>1. g[k - 1] \in Seq(S) /\ Len(g[k - 1]) = k - 1 /\ k \in 0..n
    BY <1>1, <1>7, <1>4
  <2> DEFINE out == g[k - 1]
             x == s[k]
  <2>2. out \in Seq(S) /\ Len(out) = k - 1 /\ x \in S
    BY <1>1, <2>1
  <2> HIDE DEF out, x
  <2>3. Len(Inserted(out, x, before)) = Len(out) + 1
    BY <2>2, InsertedForm
  <2>4. Len(g[k]) = k
    BY <1>7, <2>2, <2>3 DEF out, x
  <2>. QED BY <2>1, <2>4
<1> HIDE DEF P
<1>5. \A k \in 0..n : k \in P
  BY <1>1, <1>3, <1>4, Rounds
<1>6. Len(g[n]) = n
  BY <1>1, <1>5 DEF P
<1>. QED BY <1>1, <1>7, <1>6 DEF n

(* Nothing is written yet. *)
LEMMA PutsNone ==
  ASSUME NEW S, NEW s, NEW vs, NEW at, s \in Seq(S), at \in Nat
  PROVE  PutsTo(s, at, vs, 0) = s
<1> DEFINE n == Len(s)
           e(k) == IF at < k /\ k <= at + 0 THEN vs[k - at] ELSE Get(s, k - 1)
<1>1. n \in Nat /\ s = [k \in 1..n |-> s[k]]
  OBVIOUS
<1>2. PutsTo(s, at, vs, 0) = [k \in 1..n |-> e(k)]
  BY DEF PutsTo
<1>3. ASSUME NEW k \in 1..n
      PROVE  e(k) = s[k]
  <2>1. ~ (at < k /\ k <= at + 0) /\ Get(s, k - 1) = s[k]
    BY <1>1 DEF Get
  <2>. QED BY <2>1
<1> HIDE DEF n, e
<1>. QED BY <1>1, <1>2, <1>3

PutsAll(S, s, vs, at) == Puts(s, at, vs) = PutsTo(s, at, vs, Len(vs))

(* What writing a run of elements leaves. *)
LEMMA PutsIs ==
  ASSUME NEW S, NEW s, NEW vs, NEW at, s \in Seq(S), vs \in Seq(S), at \in Nat, Undefined \in S
  PROVE  PutsAll(S, s, vs, at)
<1>1. PICK g : PutsRun(g, S, s, vs, at)
  BY PutsUnrolled
<1> DEFINE n == Len(vs)
           to(k) == PutsTo(s, at, vs, k)
           P == {k \in 0..n : g[k] = to(k) /\ to(k) \in Seq(S)}
<1>2. n \in Nat /\ n \in 0..n
  OBVIOUS
<1>3. /\ g[0] = s /\ g[n] = Puts(s, at, vs)
      /\ \A k \in 1..n : g[k] = Put(g[k - 1], at + k - 1, vs[k])
  BY <1>1 DEF PutsRun
<1>4. 0 \in P
  BY <1>2, <1>3, PutsNone
<1>5. ASSUME NEW k \in 1..n, k - 1 \in P
      PROVE  k \in P
  <2>1. PutsTo(s, at, vs, k - 1) \in Seq(S) /\ g[k - 1] = PutsTo(s, at, vs, k - 1) /\ k \in 0..n
    BY <1>2, <1>5
  <2>2. /\ Put(PutsTo(s, at, vs, k - 1), at + k - 1, vs[k]) = PutsTo(s, at, vs, k)
        /\ PutsTo(s, at, vs, k) \in Seq(S)
    BY <2>1, PutsNext
  <2>. QED BY <1>3, <2>1, <2>2
<1> HIDE DEF n, P
<1>6. \A k \in 0..n : k \in P
  BY <1>2, <1>4, <1>5, Rounds
<1>7. n \in P
  BY <1>2, <1>6
<1>8. g[n] = to(n)
  BY <1>7 DEF P
<1>. QED BY <1>3, <1>8 DEF n, PutsAll

(* Writing back what sort() put in order makes no array too long. *)
LEMMA SortedBack ==
  ASSUME NEW s, NEW t, NEW o, ArraysInv, s \in Seq(Elems), t \in Seq(Elems),
         Len(s) <= MaxLen, Len(t) <= MaxLen
  PROVE  /\ SortedBy(t, o) \in Seq(Elems) /\ Len(SortedBy(t, o)) = Len(t)
         /\ Puts(s, 0, SortedBy(t, o)) \in Seq(Elems) /\ Len(Puts(s, 0, SortedBy(t, o))) <= MaxLen
<1> DEFINE vs == SortedBy(t, o)
           n == Len(vs)
           m == IF n = 0 \/ 0 + n <= Len(s) THEN Len(s) ELSE 0 + n
<1>1. vs \in Seq(Elems) /\ Len(vs) = Len(t)
  BY SortedForm DEF SortedBy
<1> HIDE DEF vs
<1>2. Undefined \in Elems /\ 0 \in Nat /\ MaxLen \in Nat
  BY ArrayMethodsAssumption
<1>3. Puts(s, 0, vs) \in Seq(Elems)
  BY <1>1, <1>2, PutsType
<1>4. PutsAll(Elems, s, vs, 0)
  BY <1>1, <1>2, PutsIs
<1>5. m \in Nat /\ m <= MaxLen
  BY <1>1, <1>2
<1>6. Len(PutsTo(s, 0, vs, n)) = m
  BY <1>5 DEF PutsTo
<1>7. Puts(s, 0, vs) = PutsTo(s, 0, vs, n)
  BY <1>4 DEF PutsAll
<1>. QED BY <1>1, <1>3, <1>5, <1>6, <1>7 DEF vs

-----------------------------------------------------------------------------
(* Arrays: the steps. *)

ArrayKept == Kept /\ contents' = contents /\ ArraysInv'

(* The script or a callback changes one array. *)
LEMMA BecomesStep ==
  ASSUME CollInv, CallsInv, ArraysInv, NEW a \in ArrayIds, NEW s, s \in Seq(Elems), Becomes(a, s)
  PROVE  ArrayKept
<1>1. /\ Step(2) /\ Len(s) <= MaxLen /\ arrays' = [arrays EXCEPT ![a] = s] /\ calls' = Touched(a)
      /\ entries' = entries /\ size' = size /\ weak' = weak
  BY DEF Becomes
<1>2. steps' \in 0..MaxSteps /\ WalkEnds
  BY <1>1, Counts
<1>3. CallsFit(calls, entries) /\ a \notin Maps \cup Sets
  BY ArrayMethodsAssumption DEF CallsInv
<1>4. CallsFit(calls', entries)
  BY <1>1, <1>3, StackMarked DEF Touched
<1>5. ArraysInv'
  BY <1>1 DEF ArraysInv
<1>. QED BY <1>1, <1>2, <1>4, <1>5, OnlyCalls DEF ArrayKept

(* Every operation that changes one array and calls nothing back. *)
LEMMA OperationStep ==
  ASSUME CollInv, CallsInv, ArraysInv, NEW a \in ArrayIds,
         \/ ArrayPush(a) \/ ArrayPop(a) \/ ArrayShift(a) \/ ArrayUnshift(a) \/ ArrayReverse(a)
         \/ ArrayFill(a) \/ ArrayCopyWithin(a) \/ SetElement(a) \/ SortByString(a)
  PROVE  ArrayKept
<1> DEFINE s == arrays[a]
<1>1. /\ s \in Seq(Elems) /\ Len(s) <= MaxLen /\ Undefined \in Elems /\ MaxLen \in Nat
      /\ Written \subseteq Elems /\ Indices \subseteq Int \cup {Undefined}
  BY ArrayMethodsAssumption DEF ArraysInv
<1> HIDE DEF s
<1>2. CASE ArrayPush(a)
  <2>1. PICK v \in Written : Becomes(a, Pushed(s, <<v>>))
    BY <1>2 DEF ArrayPush, s
  <2>2. <<v>> \in Seq(Elems)
    BY <1>1
  <2>3. Pushed(s, <<v>>) \in Seq(Elems)
    BY <1>1, <2>2, ConcatProperties DEF Pushed
  <2>. QED BY <2>1, <2>3, BecomesStep
<1>3. CASE ArrayPop(a)
  <2>1. Len(s) - 1 \in Int
    BY <1>1
  <2>2. Popped(s) \in Seq(Elems)
    BY <1>1, <2>1, TruncateForm DEF Popped
  <2>. QED BY <1>3, <2>2, BecomesStep DEF ArrayPop, s
<1>4. CASE ArrayShift(a)
  BY <1>1, <1>4, ShiftedType, BecomesStep DEF ArrayShift, s
<1>5. CASE ArrayUnshift(a)
  <2>1. PICK v \in Written : Becomes(a, Unshifted(s, <<v, Undefined>>))
    BY <1>5 DEF ArrayUnshift, s
  <2>2. <<v, Undefined>> \in Seq(Elems)
    BY <1>1
  <2>3. Unshifted(s, <<v, Undefined>>) \in Seq(Elems)
    BY <1>1, <2>2, UnshiftedType
  <2>. QED BY <2>1, <2>3, BecomesStep
<1>6. CASE ArrayReverse(a)
  BY <1>1, <1>6, ReversedType, BecomesStep DEF ArrayReverse, s
<1>7. CASE ArrayFill(a)
  <2>1. PICK v \in Written, i \in Indices : Becomes(a, Filled(s, v, i, Undefined))
    BY <1>7 DEF ArrayFill, s
  <2>2. v \in Elems /\ i \in Int \cup {Undefined} /\ Undefined \in Int \cup {Undefined}
    BY <1>1
  <2>3. Filled(s, v, i, Undefined) \in Seq(Elems)
    BY <1>1, <2>2, FilledType
  <2>. QED BY <2>1, <2>3, BecomesStep
<1>8. CASE ArrayCopyWithin(a)
  <2>1. PICK i \in Indices \ {Undefined}, j \in Indices \ {Undefined} :
          Becomes(a, CopiedWithin(s, i, j, Undefined))
    BY <1>8 DEF ArrayCopyWithin, s
  <2>2. i \in Int /\ j \in Int \cup {Undefined} /\ Undefined \in Int \cup {Undefined}
    BY <1>1
  <2>3. CopiedWithin(s, i, j, Undefined) \in Seq(Elems)
    BY <1>1, <2>2, CopiedWithinType
  <2>. QED BY <2>1, <2>3, BecomesStep
<1>9. CASE SetElement(a)
  <2>1. PICK i \in 0..(MaxLen - 1), v \in Written : Becomes(a, Put(s, i, v))
    BY <1>9 DEF SetElement, s
  <2>2. v \in Elems /\ i \in Int
    BY <1>1
  <2>3. Put(s, i, v) \in Seq(Elems)
    BY <1>1, <2>2, PutType
  <2>. QED BY <2>1, <2>3, BecomesStep
<1>10. CASE SortByString(a)
  <2>1. Puts(s, 0, SortedBy(s, "ascending")) \in Seq(Elems)
    BY <1>1, SortedBack
  <2>. QED BY <1>10, <2>1, BecomesStep DEF SortByString, s
<1>. QED BY <1>2, <1>3, <1>4, <1>5, <1>6, <1>7, <1>8, <1>9, <1>10

-----------------------------------------------------------------------------
(* Arrays: the loops that call back. *)

(* About to look at position i, which may lie outside by now. *)
Ready(c) ==
  /\ c = [f \in CallFields |-> c[f]]
  /\ c.m \in Up1 \cup Down1 \cup Folding /\ c.id \in ArrayIds
  /\ IF c.m \in Down1 \cup {"reduceRight"} THEN c.i \in Int /\ c.i <= MaxLen ELSE c.i \in Nat
  /\ c.n \in 0..MaxLen /\ c.start \in Seq(Elems) /\ Len(c.start) <= MaxLen

(* c as far as the loop is concerned. *)
SameLoop(q, c) ==
  /\ q = [f \in CallFields |-> q[f]]
  /\ q.m = c.m /\ q.id = c.id /\ q.i = c.i /\ q.n = c.n /\ q.start = c.start

(* The callback is called for an element of the array. *)
LEMMA VisitedSound ==
  ASSUME NEW c, ArraysInv, Ready(c), More(c)
  PROVE  CallFits(Visited(c), entries)
<1> DEFINE q == Visited(c)
           s == arrays[c.id]
<1>1. c = [f \in CallFields |-> c[f]]
  BY DEF Ready
<1>2. /\ q = [f \in CallFields |-> q[f]] /\ q.m = c.m /\ q.id = c.id /\ q.i = c.i /\ q.n = c.n
      /\ q.start = c.start /\ q.item = Get(s, c.i)
  BY <1>1 DEF Visited, CallFields
<1>3. s \in Seq(Elems) /\ Len(s) <= MaxLen /\ Undefined \in Elems /\ MaxLen \in Nat
  BY ArrayMethodsAssumption DEF ArraysInv, Ready
<1>4. Get(s, c.i) \in Elems
  BY <1>3, GetType
<1>5. c.i \in 0..MaxLen
  BY <1>3 DEF Ready, More, Folding
<1>6. CallSound(q)
  BY <1>2, <1>4, <1>5 DEF Ready, CallSound
<1>. QED BY <1>6, CallMarked DEF CallFits

(* The callback's answer changes what is collected, not where the loop is. *)
LEMMA NotedSame ==
  ASSUME CallSound(top), NEW r, NEW o
  PROVE  /\ SameLoop(Noted(r), top) /\ SameLoop([Noted(r) EXCEPT !.out = o], top)
         /\ SameLoop([Noted(r) EXCEPT !.acc = o], top)
<1> DEFINE q == Noted(r)
<1>1. top = [f \in CallFields |-> top[f]]
  BY DEF CallSound
<1>2. SameLoop(q, top)
  BY <1>1 DEF Noted, CallFields, SameLoop
<1> HIDE DEF q
<1>3. SameLoop([q EXCEPT !.out = o], top) /\ SameLoop([q EXCEPT !.acc = o], top)
  BY <1>2 DEF CallFields, SameLoop
<1>. QED BY <1>2, <1>3 DEF q

(* The next position. *)
LEMMA ForwardReady ==
  ASSUME CallSound(top), NEW q, SameLoop(q, top), top.m \in Up1 \cup {"reduce"}
  PROVE  Ready(Forward(q))
<1> DEFINE c == Forward(q)
<1>1. /\ q = [f \in CallFields |-> q[f]]
      /\ q.m = top.m /\ q.id = top.id /\ q.i = top.i /\ q.n = top.n /\ q.start = top.start
  BY DEF SameLoop
<1>2. /\ c = [f \in CallFields |-> c[f]]
      /\ c.m = top.m /\ c.id = top.id /\ c.i = top.i + 1 /\ c.n = top.n /\ c.start = top.start
  BY <1>1 DEF Forward, CallFields
<1>3. MaxLen \in Nat /\ top.i + 1 \in Nat
  BY ArrayMethodsAssumption DEF CallSound
<1>4. top.m \in Up1 \cup Down1 \cup Folding /\ top.m \notin Down1 \cup {"reduceRight"}
  BY DEF Up1, Down1, Folding
<1> HIDE DEF c
<1>. QED BY <1>2, <1>3, <1>4 DEF Ready, CallSound, c

(* And the one before, for the loops that count down. *)
LEMMA BackwardReady ==
  ASSUME CallSound(top), NEW q, SameLoop(q, top), top.m \in Down1 \cup {"reduceRight"}
  PROVE  Ready(Backward(q))
<1> DEFINE c == Backward(q)
<1>1. /\ q = [f \in CallFields |-> q[f]]
      /\ q.m = top.m /\ q.id = top.id /\ q.i = top.i /\ q.n = top.n /\ q.start = top.start
  BY DEF SameLoop
<1>2. /\ c = [f \in CallFields |-> c[f]]
      /\ c.m = top.m /\ c.id = top.id /\ c.i = top.i - 1 /\ c.n = top.n /\ c.start = top.start
  BY <1>1 DEF Backward, CallFields
<1>3. MaxLen \in Nat /\ top.i - 1 \in Int /\ top.i - 1 <= MaxLen
  BY ArrayMethodsAssumption DEF CallSound
<1>4. top.m \in Up1 \cup Down1 \cup Folding
  BY DEF Folding
<1> HIDE DEF c
<1>. QED BY <1>2, <1>3, <1>4 DEF Ready, CallSound, c

(* Only the stack changes, and no walk ends. *)
LEMMA ArrayCalls ==
  ASSUME CollInv, ArraysInv, entries' = entries, size' = size, weak' = weak, arrays' = arrays,
         CallsFit(calls', entries), steps' \in 0..MaxSteps, WalkEnds
  PROVE  ArrayKept
<1>1. ArraysInv'
  BY DEF ArraysInv
<1>. QED BY <1>1, OnlyCalls DEF ArrayKept

(* A method's callback has answered: what waits is a method of an array. *)
LEMMA ReturningForm ==
  ASSUME CallsInv, NEW m \in Up1 \cup Down1 \cup Folding \cup Sorting, calls # <<>>, top.m = m
  PROVE  CallSound(top) /\ ~ Walking(top)
<1>1. ~ Walking(top)
  BY DEF Walking, Up1, Down1, Folding, Sorting
<1>. QED BY <1>1, TopOfStack DEF CallFits

(* It ends. *)
LEMMA EndsStep ==
  ASSUME CollInv, CallsInv, ArraysInv, NEW m \in Up1 \cup Down1 \cup Folding \cup Sorting,
         Returning(m), calls' = Below
  PROVE  ArrayKept
<1>1. /\ calls # <<>> /\ top.m = m /\ entries' = entries /\ size' = size /\ weak' = weak
      /\ arrays' = arrays /\ steps' = steps
  BY DEF Returning
<1>2. ~ Walking(top)
  BY <1>1, ReturningForm
<1>3. CallsFit(calls', entries)
  BY <1>1, TopOfStack
<1>4. steps' \in 0..MaxSteps /\ WalkEnds
  BY <1>1, <1>2 DEF CallsInv, WalkEnds
<1>. QED BY <1>1, <1>3, <1>4, ArrayCalls

(* It goes on, or has come to the end. *)
LEMMA GoOnStep ==
  ASSUME CollInv, CallsInv, ArraysInv, NEW m \in Up1 \cup Down1 \cup Folding \cup Sorting,
         Returning(m), NEW c, Ready(c), GoOn(c)
  PROVE  ArrayKept
<1>1. CASE ~ More(c)
  <2>1. calls' = Below
    BY <1>1 DEF GoOn, Ends
  <2>. QED BY <2>1, EndsStep
<1>2. CASE More(c)
  <2>1. /\ calls # <<>> /\ top.m = m /\ entries' = entries /\ size' = size /\ weak' = weak
        /\ arrays' = arrays /\ steps' = steps
    BY DEF Returning
  <2>2. ~ Walking(top)
    BY <2>1, ReturningForm
  <2>3. calls' = Append(Below, Visited(c))
    BY <1>2 DEF GoOn
  <2>4. CallFits(Visited(c), entries)
    BY <1>2, VisitedSound
  <2>5. CallsFit(Below, entries) /\ Len(Below) < MaxCalls
    BY <2>1, TopOfStack
  <2>6. CallsFit(calls', entries)
    BY <2>3, <2>4, <2>5, StackPushed
  <2>7. steps' \in 0..MaxSteps /\ WalkEnds
    BY <2>1, <2>2 DEF CallsInv, WalkEnds
  <2>. QED BY <2>1, <2>6, <2>7, ArrayCalls
<1>. QED BY <1>1, <1>2

(* A method begins. *)
LEMMA BeginsStep ==
  ASSUME CollInv, CallsInv, ArraysInv, NEW c, Ready(c), Begins(c)
  PROVE  ArrayKept
<1>1. /\ Step(2) /\ Len(calls) < MaxCalls /\ More(c) /\ calls' = Append(calls, Visited(c))
      /\ entries' = entries /\ size' = size /\ weak' = weak /\ arrays' = arrays
  BY DEF Begins
<1>2. CallFits(Visited(c), entries)
  BY <1>1, VisitedSound
<1>3. CallsFit(calls', entries)
  BY <1>1, <1>2, StackPushed DEF CallsInv
<1>4. steps' \in 0..MaxSteps /\ WalkEnds
  BY <1>1, Counts
<1>. QED BY <1>1, <1>3, <1>4, ArrayCalls

(* What a method begins with. *)
LEMMA CallForm ==
  ASSUME ArraysInv, NEW a \in ArrayIds, NEW m
  PROVE  /\ Call(m, a) = [f \in CallFields |-> Call(m, a)[f]]
         /\ Call(m, a).m = m /\ Call(m, a).id = a /\ Call(m, a).i = 0 /\ Call(m, a).n = Len(arrays[a])
         /\ Call(m, a).item = Undefined /\ Call(m, a).start = arrays[a]
         /\ arrays[a] \in Seq(Elems) /\ Len(arrays[a]) \in 0..MaxLen /\ MaxLen \in Nat
BY ArrayMethodsAssumption DEF Call, CallFields, ArraysInv

(* The methods that count up, and reduce(). *)
LEMMA UpReady ==
  ASSUME ArraysInv, NEW a \in ArrayIds, NEW m \in Up1 \cup {"reduce"}, NEW x, NEW y
  PROVE  /\ Ready(Call(m, a)) /\ Ready([Call(m, a) EXCEPT !.init = x])
         /\ Ready([Call(m, a) EXCEPT !.acc = y, !.i = 1])
<1> DEFINE c == Call(m, a)
           p == [c EXCEPT !.init = x]
           q == [c EXCEPT !.acc = y, !.i = 1]
<1>1. /\ c = [f \in CallFields |-> c[f]] /\ c.m = m /\ c.id = a /\ c.i = 0 /\ c.n = Len(arrays[a])
      /\ c.start = arrays[a] /\ arrays[a] \in Seq(Elems) /\ Len(arrays[a]) \in 0..MaxLen /\ MaxLen \in Nat
  BY CallForm
<1>2. m \in Up1 \cup Down1 \cup Folding /\ m \notin Down1 \cup {"reduceRight"}
  BY DEF Up1, Down1, Folding
<1> HIDE DEF c
<1>3. /\ p = [f \in CallFields |-> p[f]] /\ p.m = m /\ p.id = a /\ p.i = 0 /\ p.n = c.n /\ p.start = c.start
      /\ q = [f \in CallFields |-> q[f]] /\ q.m = m /\ q.id = a /\ q.i = 1 /\ q.n = c.n /\ q.start = c.start
  BY <1>1 DEF CallFields
<1> HIDE DEF p, q
<1>4. Ready(c)
  BY <1>1, <1>2 DEF Ready
<1>5. Ready(p)
  BY <1>1, <1>2, <1>3 DEF Ready
<1>6. Ready(q)
  BY <1>1, <1>2, <1>3 DEF Ready
<1>. QED BY <1>4, <1>5, <1>6 DEF c, p, q

(* The methods that count down. *)
LEMMA DownReady ==
  ASSUME ArraysInv, NEW a \in ArrayIds, NEW m \in Down1 \cup {"reduceRight"}, NEW x, NEW y
  PROVE  /\ Ready([Call(m, a) EXCEPT !.i = Len(arrays[a]) - 1])
         /\ Ready([Call(m, a) EXCEPT !.init = x, !.i = Len(arrays[a]) - 1])
         /\ Ready([Call(m, a) EXCEPT !.acc = y, !.i = Len(arrays[a]) - 2])
<1> DEFINE c == Call(m, a)
           n == Len(arrays[a])
           p == [c EXCEPT !.i = n - 1]
           q == [c EXCEPT !.init = x, !.i = n - 1]
           r == [c EXCEPT !.acc = y, !.i = n - 2]
<1>1. /\ c = [f \in CallFields |-> c[f]] /\ c.m = m /\ c.id = a /\ c.n = n
      /\ c.start = arrays[a] /\ arrays[a] \in Seq(Elems) /\ n \in 0..MaxLen /\ MaxLen \in Nat
  BY CallForm
<1>2. m \in Up1 \cup Down1 \cup Folding /\ m \in Down1 \cup {"reduceRight"}
  BY DEF Folding
<1>3. Len(c.start) = n
  BY <1>1
<1> HIDE DEF c, n
<1>4. p = [f \in CallFields |-> p[f]] /\ p.m = m /\ p.id = a /\ p.i = n - 1 /\ p.n = c.n /\ p.start = c.start
  BY <1>1 DEF CallFields
<1>5. q = [f \in CallFields |-> q[f]] /\ q.m = m /\ q.id = a /\ q.i = n - 1 /\ q.n = c.n /\ q.start = c.start
  BY <1>1 DEF CallFields
<1>6. r = [f \in CallFields |-> r[f]] /\ r.m = m /\ r.id = a /\ r.i = n - 2 /\ r.n = c.n /\ r.start = c.start
  BY <1>1 DEF CallFields
<1>7. n - 1 \in Int /\ n - 1 <= MaxLen /\ n - 2 \in Int /\ n - 2 <= MaxLen /\ n <= MaxLen
  BY <1>1
<1> HIDE DEF p, q, r
<1>8. Ready(p)
  BY <1>1, <1>2, <1>3, <1>4, <1>7 DEF Ready
<1>9. Ready(q)
  BY <1>1, <1>2, <1>3, <1>5, <1>7 DEF Ready
<1>10. Ready(r)
  BY <1>1, <1>2, <1>3, <1>6, <1>7 DEF Ready
<1>. QED BY <1>8, <1>9, <1>10 DEF c, n, p, q, r

(* Every method that calls back begins so. *)
LEMMA CallStep ==
  ASSUME CollInv, CallsInv, ArraysInv, NEW a \in ArrayIds,
         CallUp(a) \/ CallDown(a) \/ CallReduce(a) \/ CallReduceRight(a)
  PROVE  ArrayKept
<1>1. CASE CallUp(a)
  <2>1. PICK m \in Up1 : Begins(Call(m, a))
    BY <1>1 DEF CallUp
  <2>2. Ready(Call(m, a))
    BY UpReady
  <2>. QED BY <2>1, <2>2, BeginsStep
<1>2. CASE CallDown(a)
  <2>1. PICK m \in Down1 : Begins([Call(m, a) EXCEPT !.i = Len(arrays[a]) - 1])
    BY <1>2 DEF CallDown
  <2>2. Ready([Call(m, a) EXCEPT !.i = Len(arrays[a]) - 1])
    BY DownReady
  <2>. QED BY <2>1, <2>2, BeginsStep
<1>3. CASE CallReduce(a)
  <2>1. \/ Begins([Call("reduce", a) EXCEPT !.init = TRUE])
        \/ Begins([Call("reduce", a) EXCEPT !.acc = Get(arrays[a], 0), !.i = 1])
    BY <1>3 DEF CallReduce
  <2>2. /\ Ready([Call("reduce", a) EXCEPT !.init = TRUE])
        /\ Ready([Call("reduce", a) EXCEPT !.acc = Get(arrays[a], 0), !.i = 1])
    BY UpReady
  <2>. QED BY <2>1, <2>2, BeginsStep
<1>4. CASE CallReduceRight(a)
  <2> DEFINE v == Get(arrays[a], Len(arrays[a]) - 1)
  <2>1. \/ Begins([Call("reduceRight", a) EXCEPT !.init = TRUE, !.i = Len(arrays[a]) - 1])
        \/ Begins([Call("reduceRight", a) EXCEPT !.acc = v, !.i = Len(arrays[a]) - 2])
    BY <1>4 DEF CallReduceRight
  <2>2. /\ Ready([Call("reduceRight", a) EXCEPT !.init = TRUE, !.i = Len(arrays[a]) - 1])
        /\ Ready([Call("reduceRight", a) EXCEPT !.acc = v, !.i = Len(arrays[a]) - 2])
    BY DownReady
  <2>. QED BY <2>1, <2>2, BeginsStep
<1>. QED BY <1>1, <1>2, <1>3, <1>4

(* sort() and toSorted() call their comparator. *)
LEMMA CallSortStep ==
  ASSUME CollInv, CallsInv, ArraysInv, NEW a \in ArrayIds, CallSort(a)
  PROVE  ArrayKept
<1>1. PICK m \in Sorting, o \in Orders :
        /\ Step(2) /\ Len(calls) < MaxCalls
        /\ calls' = Append(calls, [Call(m, a) EXCEPT !.acc = o])
        /\ entries' = entries /\ size' = size /\ weak' = weak /\ arrays' = arrays
  BY DEF CallSort
<1> DEFINE c == Call(m, a)
           q == [c EXCEPT !.acc = o]
<1>2. /\ c = [f \in CallFields |-> c[f]] /\ c.m = m /\ c.id = a /\ c.i = 0 /\ c.n = Len(arrays[a])
      /\ c.item = Undefined /\ c.start = arrays[a]
      /\ arrays[a] \in Seq(Elems) /\ Len(arrays[a]) \in 0..MaxLen /\ MaxLen \in Nat
  BY CallForm
<1> HIDE DEF c
<1>3. /\ q = [f \in CallFields |-> q[f]] /\ q.m = m /\ q.id = a /\ q.i = 0 /\ q.n = c.n
      /\ q.item = Undefined /\ q.start = c.start
  BY <1>2 DEF CallFields
<1> HIDE DEF q
<1>4. CallSound(q)
  BY <1>2, <1>3, ArrayMethodsAssumption DEF CallSound
<1>5. CallFits(q, entries)
  BY <1>4, CallMarked DEF CallFits
<1>6. CallsFit(calls', entries)
  BY <1>1, <1>5, StackPushed DEF CallsInv, q, c
<1>7. steps' \in 0..MaxSteps /\ WalkEnds
  BY <1>1, Counts
<1>. QED BY <1>1, <1>6, <1>7, ArrayCalls

(* sort() writes back what it has put in order, whatever became of the array. *)
LEMMA ArraySortStep ==
  ASSUME CollInv, CallsInv, ArraysInv, ArraySort
  PROVE  ArrayKept
<1> DEFINE a == top.id
           s == Puts(arrays[a], 0, SortedBy(top.start, top.acc))
           t == Touched(a)
<1>1. /\ calls # <<>> /\ top.m = "sort" /\ arrays' = [arrays EXCEPT ![a] = s] /\ calls' = Front(t)
      /\ entries' = entries /\ size' = size /\ weak' = weak /\ steps' = steps
  BY DEF ArraySort
<1>2. CallSound(top) /\ ~ Walking(top)
  BY <1>1, ReturningForm DEF Sorting
<1>3. a \in ArrayIds /\ a \notin Maps \cup Sets /\ top.start \in Seq(Elems) /\ Len(top.start) <= MaxLen
  BY <1>2, ArrayMethodsAssumption DEF CallSound
<1>4. arrays[a] \in Seq(Elems) /\ Len(arrays[a]) <= MaxLen
  BY <1>3 DEF ArraysInv
<1>5. s \in Seq(Elems) /\ Len(s) <= MaxLen
  BY <1>3, <1>4, SortedBack
<1> HIDE DEF s
<1>6. ArraysInv'
  BY <1>1, <1>5 DEF ArraysInv
<1>7. CallsFit(calls, entries) /\ CallsFit(t, entries)
  BY <1>3, StackMarked DEF Touched, CallsInv
<1>8. Len(t) = Len(calls)
  BY <1>7, MarkedLength DEF Touched
<1>9. Len(calls) \in Nat \ {0}
  BY <1>1, TopOfStack
<1> HIDE DEF t
<1>10. Len(t) - 1 \in 0..Len(t)
  BY <1>8, <1>9
<1>11. CallsFit(calls', entries)
  BY <1>1, <1>7, <1>10, StackLeft DEF Front
<1>12. steps' \in 0..MaxSteps /\ WalkEnds
  BY <1>1, <1>2 DEF CallsInv, WalkEnds
<1>. QED BY <1>1, <1>6, <1>11, <1>12, OnlyCalls DEF ArrayKept

(* A callback of a method that counts up has answered, and the loop goes on. *)
LEMMA ForwardStep ==
  ASSUME CollInv, CallsInv, ArraysInv, NEW m \in Up1 \cup {"reduce"}, Returning(m), NEW q,
         SameLoop(q, top), GoOn(Forward(q))
  PROVE  ArrayKept
<1>1. m \in Up1 \cup Down1 \cup Folding \cup Sorting /\ calls # <<>> /\ top.m = m
  BY DEF Folding, Returning
<1>2. CallSound(top)
  BY <1>1, ReturningForm
<1>3. Ready(Forward(q))
  BY <1>1, <1>2, ForwardReady
<1>. QED BY <1>1, <1>3, GoOnStep

(* The same of one that counts down. *)
LEMMA BackwardStep ==
  ASSUME CollInv, CallsInv, ArraysInv, NEW m \in Down1 \cup {"reduceRight"}, Returning(m), NEW q,
         SameLoop(q, top), GoOn(Backward(q))
  PROVE  ArrayKept
<1>1. m \in Up1 \cup Down1 \cup Folding \cup Sorting /\ calls # <<>> /\ top.m = m
  BY DEF Folding, Returning
<1>2. CallSound(top)
  BY <1>1, ReturningForm
<1>3. Ready(Backward(q))
  BY <1>1, <1>2, BackwardReady
<1>. QED BY <1>1, <1>3, GoOnStep

(* What the methods below know when the callback has answered. *)
LEMMA Answered ==
  ASSUME CallsInv, NEW m \in Up1 \cup Down1 \cup Folding \cup Sorting, Returning(m)
  PROVE  \A r, o : /\ SameLoop(Noted(r), top) /\ SameLoop([Noted(r) EXCEPT !.out = o], top)
                   /\ SameLoop([Noted(r) EXCEPT !.acc = o], top)
<1>1. CallSound(top)
  BY ReturningForm DEF Returning
<1>. QED BY <1>1, NotedSame

(* A callback of a method that collects has answered. *)
LEMMA CollectingStep ==
  ASSUME CollInv, CallsInv, ArraysInv,
         ArrayMap \/ ArrayFrom \/ ArrayFilter \/ ArrayFlatMap \/ ArrayForEach
  PROVE  ArrayKept
<1>1. CASE ArrayMap
  <2>1. Returning("map") /\ \E r \in Results : GoOn(Forward([Noted(r) EXCEPT !.out = Append(@, r)]))
    BY <1>1 DEF ArrayMap
  <2>2. "map" \in Up1 \cup {"reduce"} /\ "map" \in Up1 \cup Down1 \cup Folding \cup Sorting
    BY DEF Up1
  <2>. QED BY <2>1, <2>2, Answered, ForwardStep
<1>2. CASE ArrayFrom
  <2>1. Returning("from") /\ \E r \in Results : GoOn(Forward([Noted(r) EXCEPT !.out = Append(@, r)]))
    BY <1>2 DEF ArrayFrom
  <2>2. "from" \in Up1 \cup {"reduce"} /\ "from" \in Up1 \cup Down1 \cup Folding \cup Sorting
    BY DEF Up1
  <2>. QED BY <2>1, <2>2, Answered, ForwardStep
<1>3. CASE ArrayFilter
  <2>1. Returning("filter") /\ \E r \in Results :
          GoOn(Forward([Noted(r) EXCEPT !.out = IF Truthy(r) THEN Append(@, top.item) ELSE @]))
    BY <1>3 DEF ArrayFilter
  <2>2. "filter" \in Up1 \cup {"reduce"} /\ "filter" \in Up1 \cup Down1 \cup Folding \cup Sorting
    BY DEF Up1
  <2>. QED BY <2>1, <2>2, Answered, ForwardStep
<1>4. CASE ArrayFlatMap
  <2>1. Returning("flatMap") /\ \E vs, o : GoOn(Forward([Noted(vs) EXCEPT !.out = o]))
    BY <1>4 DEF ArrayFlatMap
  <2>2. "flatMap" \in Up1 \cup {"reduce"} /\ "flatMap" \in Up1 \cup Down1 \cup Folding \cup Sorting
    BY DEF Up1
  <2>. QED BY <2>1, <2>2, Answered, ForwardStep
<1>5. CASE ArrayForEach
  <2>1. Returning("forEach") /\ \E r \in Results : GoOn(Forward(Noted(r)))
    BY <1>5 DEF ArrayForEach
  <2>2. "forEach" \in Up1 \cup {"reduce"} /\ "forEach" \in Up1 \cup Down1 \cup Folding \cup Sorting
    BY DEF Up1
  <2>. QED BY <2>1, <2>2, Answered, ForwardStep
<1>. QED BY <1>1, <1>2, <1>3, <1>4, <1>5

(* A callback of reduce() or reduceRight() has answered. *)
LEMMA FoldingStep ==
  ASSUME CollInv, CallsInv, ArraysInv, ArrayReduce \/ ArrayReduceRight
  PROVE  ArrayKept
<1>1. CASE ArrayReduce
  <2>1. Returning("reduce") /\ \E r \in Results : GoOn(Forward([Noted(r) EXCEPT !.acc = r]))
    BY <1>1 DEF ArrayReduce
  <2>2. "reduce" \in Up1 \cup {"reduce"} /\ "reduce" \in Up1 \cup Down1 \cup Folding \cup Sorting
    BY DEF Folding
  <2>. QED BY <2>1, <2>2, Answered, ForwardStep
<1>2. CASE ArrayReduceRight
  <2>1. Returning("reduceRight") /\ \E r \in Results : GoOn(Backward([Noted(r) EXCEPT !.acc = r]))
    BY <1>2 DEF ArrayReduceRight
  <2>2. /\ "reduceRight" \in Down1 \cup {"reduceRight"}
        /\ "reduceRight" \in Up1 \cup Down1 \cup Folding \cup Sorting
    BY DEF Folding
  <2>. QED BY <2>1, <2>2, Answered, BackwardStep
<1>. QED BY <1>1, <1>2

(* A search: it ends with the answer that decides it, or goes on. *)
LEMMA SearchingStep ==
  ASSUME CollInv, CallsInv, ArraysInv,
         \/ ArrayFind \/ ArrayFindIndex \/ ArrayEvery \/ ArraySome
         \/ ArrayFindLast \/ ArrayFindLastIndex
  PROVE  ArrayKept
<1>1. \/ \E m \in {"find", "findIndex", "every", "some"} :
           Returning(m) /\ \E r : (\E v : Ends(Noted(r), v)) \/ GoOn(Forward(Noted(r)))
      \/ \E m \in {"findLast", "findLastIndex"} :
           Returning(m) /\ \E r : (\E v : Ends(Noted(r), v)) \/ GoOn(Backward(Noted(r)))
  BY DEF ArrayFind, ArrayFindIndex, ArrayEvery, ArraySome, ArrayFindLast, ArrayFindLastIndex
<1>2. CASE \E m \in {"find", "findIndex", "every", "some"} :
             Returning(m) /\ \E r : (\E v : Ends(Noted(r), v)) \/ GoOn(Forward(Noted(r)))
  <2>1. PICK m \in {"find", "findIndex", "every", "some"} :
          Returning(m) /\ \E r : (\E v : Ends(Noted(r), v)) \/ GoOn(Forward(Noted(r)))
    BY <1>2
  <2>2. m \in Up1 \cup {"reduce"} /\ m \in Up1 \cup Down1 \cup Folding \cup Sorting
    BY DEF Up1
  <2>3. PICK r : (\E v : Ends(Noted(r), v)) \/ GoOn(Forward(Noted(r)))
    BY <2>1
  <2>4. CASE \E v : Ends(Noted(r), v)
    <3>1. calls' = Below
      BY <2>4 DEF Ends
    <3>. QED BY <2>1, <2>2, <3>1, EndsStep
  <2>5. CASE GoOn(Forward(Noted(r)))
    BY <2>1, <2>2, <2>5, Answered, ForwardStep
  <2>. QED BY <2>3, <2>4, <2>5
<1>3. CASE \E m \in {"findLast", "findLastIndex"} :
             Returning(m) /\ \E r : (\E v : Ends(Noted(r), v)) \/ GoOn(Backward(Noted(r)))
  <2>1. PICK m \in {"findLast", "findLastIndex"} :
          Returning(m) /\ \E r : (\E v : Ends(Noted(r), v)) \/ GoOn(Backward(Noted(r)))
    BY <1>3
  <2>2. m \in Down1 \cup {"reduceRight"} /\ m \in Up1 \cup Down1 \cup Folding \cup Sorting
    BY DEF Down1
  <2>3. PICK r : (\E v : Ends(Noted(r), v)) \/ GoOn(Backward(Noted(r)))
    BY <2>1
  <2>4. CASE \E v : Ends(Noted(r), v)
    <3>1. calls' = Below
      BY <2>4 DEF Ends
    <3>. QED BY <2>1, <2>2, <3>1, EndsStep
  <2>5. CASE GoOn(Backward(Noted(r)))
    BY <2>1, <2>2, <2>5, Answered, BackwardStep
  <2>. QED BY <2>3, <2>4, <2>5
<1>. QED BY <1>1, <1>2, <1>3

(* Every operation of an array. *)
LEMMA ArrayStep ==
  ASSUME CollInv, CallsInv, ArraysInv, ArrayNext
  PROVE  ArrayKept
<1>1. ASSUME NEW a \in ArrayIds,
             \/ ArrayPush(a) \/ ArrayPop(a) \/ ArrayShift(a) \/ ArrayUnshift(a) \/ ArrayReverse(a)
             \/ ArrayFill(a) \/ ArrayCopyWithin(a) \/ SetElement(a) \/ SortByString(a)
      PROVE  ArrayKept
  BY <1>1, OperationStep
<1>2. ASSUME NEW a \in ArrayIds, CallUp(a) \/ CallDown(a) \/ CallReduce(a) \/ CallReduceRight(a)
      PROVE  ArrayKept
  BY <1>2, CallStep
<1>3. ASSUME NEW a \in ArrayIds, CallSort(a)
      PROVE  ArrayKept
  BY <1>3, CallSortStep
<1>4. ASSUME ArrayMap \/ ArrayFrom \/ ArrayFilter \/ ArrayFlatMap \/ ArrayForEach
      PROVE  ArrayKept
  BY <1>4, CollectingStep
<1>5. ASSUME ArrayReduce \/ ArrayReduceRight
      PROVE  ArrayKept
  BY <1>5, FoldingStep
<1>6. ASSUME \/ ArrayFind \/ ArrayFindIndex \/ ArrayEvery \/ ArraySome
             \/ ArrayFindLast \/ ArrayFindLastIndex
      PROVE  ArrayKept
  BY <1>6, SearchingStep
<1>7. ASSUME ArraySort
      PROVE  ArrayKept
  BY <1>7, ArraySortStep
<1>8. ASSUME ArrayToSorted
      PROVE  ArrayKept
  <2>1. Returning("toSorted") /\ calls' = Below
    BY <1>8 DEF ArrayToSorted
  <2>2. "toSorted" \in Up1 \cup Down1 \cup Folding \cup Sorting
    BY DEF Sorting
  <2>. QED BY <2>1, <2>2, EndsStep
<1>. QED BY <1>1, <1>2, <1>3, <1>4, <1>5, <1>6, <1>7, <1>8, Zenon DEF ArrayNext

-----------------------------------------------------------------------------
(* What LibraryInv says of the runs' invariants. *)

(* Maps and Sets as they are read. *)
LEMMA ContentForm ==
  ASSUME CollInv, NEW d \in Maps \cup Sets, Constructed(d)
  PROVE  /\ Rows(d, entries[d]) /\ Content(d) = FnOf(d, entries[d])
         /\ DOMAIN Content(d) = KeysOf(KeySeq(d, entries[d]))
         /\ KeySeq(d, entries[d]) \in Seq(Keys) /\ Distinct(KeySeq(d, entries[d]))
         /\ size[d] = Len(KeySeq(d, entries[d]))
         /\ DOMAIN KeySeq(d, entries[d]) = 1..size[d] /\ size[d] \in Nat
<1>1. Rows(d, entries[d]) /\ size[d] = Len(KeySeq(d, entries[d]))
  BY DEF CollInv
<1>2. Content(d) = FnOf(d, entries[d])
  BY <1>1, ContentOfArray, ArrayContentIs
<1>3. DOMAIN Content(d) = KeysOf(KeySeq(d, entries[d]))
  BY <1>2 DEF FnOf, ContentOf
<1>4. KeySeq(d, entries[d]) \in Seq(Keys) /\ Distinct(KeySeq(d, entries[d]))
  BY <1>1 DEF Rows
<1>. QED BY <1>1, <1>2, <1>3, <1>4

(* A key is found exactly when some row has it. *)
LEMMA KeyFound ==
  ASSUME NEW ks \in Seq(Keys), NEW k \in Keys
  PROVE  /\ (\A j \in DOMAIN ks : ~ KeyMatch(ks[j], k)) => k \notin KeysOf(ks)
         /\ \A j \in DOMAIN ks : ks[j] = k /\ k \notin Opaque => k \in KeysOf(ks)
BY DEF KeysOf, KeyMatch

(* get(), has(), keys() and values() of a Map. *)
LEMMA MapReads ==
  ASSUME CollInv, NEW d \in Maps, Constructed(d)
  PROVE  /\ \A k \in Keys : /\ MapHas(d, k) <=> k \in DOMAIN Content(d)
                            /\ MapGet(d, k) = IF k \in DOMAIN Content(d) THEN Content(d)[k] ELSE Undefined
         /\ Len(MapKeys(d)) = size[d] /\ Len(MapValues(d)) = size[d]
         /\ \A k \in DOMAIN Content(d) : \E j \in 1..size[d] :
              MapKeys(d)[j] = k /\ MapValues(d)[j] = Content(d)[k]
<1> DEFINE s == entries[d]
           ks == KeySeq(d, s)
           vs == RowVals(d, s)
           n == size[d]
<1>1. /\ Rows(d, s) /\ Content(d) = ContentOf(ks, vs) /\ DOMAIN Content(d) = KeysOf(ks)
      /\ ks \in Seq(Keys) /\ Distinct(ks) /\ DOMAIN ks = 1..n /\ n \in Nat /\ n = Len(ks)
  BY ContentForm DEF FnOf
<1>2. /\ Len(s) = 2 * n /\ n = Len(s) \div 2
      /\ \A j \in 1..n : ks[j] = s[2 * j - 1] /\ vs[j] = s[2 * j]
  <2> HIDE DEF s, n
  <2>1. /\ Len(s) = 2 * Len(ks) /\ Len(ks) = Len(s) \div 2
        /\ \A j \in DOMAIN ks : ks[j] = s[2 * j - 1] /\ vs[j] = s[2 * j]
    BY <1>1, MapRowsForm
  <2> HIDE DEF ks, vs
  <2>. QED BY <1>1, <2>1
<1>3. \A j \in 1..n : Get(s, 2 * j - 2) = ks[j] /\ Get(s, 2 * j - 1) = vs[j]
  <2> HIDE DEF s, ks, vs, n
  <2> TAKE j \in 1..n
  <2>1. /\ 2 * j - 2 \in 0..(Len(s) - 1) /\ (2 * j - 2) + 1 = 2 * j - 1
        /\ 2 * j - 1 \in 0..(Len(s) - 1) /\ (2 * j - 1) + 1 = 2 * j
    BY <1>1, <1>2
  <2>. QED BY <1>2, <2>1 DEF Get
<1>4. ASSUME NEW k \in Keys
      PROVE  /\ MapHas(d, k) <=> k \in DOMAIN Content(d)
             /\ MapGet(d, k) = IF k \in DOMAIN Content(d) THEN Content(d)[k] ELSE Undefined
  <2> DEFINE i == MapIndexOfKey(s, k)
  <2>1. \/ i = -1 /\ \A j \in DOMAIN ks : ~ KeyMatch(ks[j], k)
        \/ \E j \in DOMAIN ks : i = 2 * j - 2 /\ ks[j] = k /\ k \notin Opaque
    BY <1>1, MapFind
  <2>2. /\ MapHas(d, k) <=> i >= 0
        /\ MapGet(d, k) = IF i >= 0 THEN Get(s, i + 1) ELSE Undefined
    BY DEF MapHas, MapGet
  <2> HIDE DEF s, ks, vs, i, n
  <2>3. CASE i = -1 /\ \A j \in DOMAIN ks : ~ KeyMatch(ks[j], k)
    <3>1. k \notin DOMAIN Content(d)
      BY <1>1, <2>3, KeyFound
    <3>. QED BY <2>2, <2>3, <3>1
  <2>4. CASE \E j \in DOMAIN ks : i = 2 * j - 2 /\ ks[j] = k /\ k \notin Opaque
    <3>1. PICK j \in 1..n : i = 2 * j - 2 /\ ks[j] = k /\ k \notin Opaque
      BY <1>1, <2>4
    <3>2. i >= 0 /\ i + 1 = 2 * j - 1
      BY <3>1
    <3>3. k \in DOMAIN Content(d) /\ Content(d)[k] = vs[j]
      BY <1>1, <3>1, ContentAt
    <3>4. Get(s, i + 1) = vs[j]
      BY <1>3, <3>2
    <3>. QED BY <2>2, <3>2, <3>3, <3>4
  <2>. QED BY <2>1, <2>3, <2>4
<1>5. /\ MapKeys(d) = [j \in 1..n |-> Get(s, 2 * j - 2)]
      /\ MapValues(d) = [j \in 1..n |-> Get(s, 2 * j - 1)]
  BY <1>2 DEF MapKeys, MapValues
<1> HIDE DEF s, ks, vs, n
<1>6. Len(MapKeys(d)) = n /\ Len(MapValues(d)) = n
  BY <1>1, <1>5
<1>7. ASSUME NEW k \in DOMAIN Content(d)
      PROVE  \E j \in 1..n : MapKeys(d)[j] = k /\ MapValues(d)[j] = Content(d)[k]
  <2>1. PICK j \in 1..n : ks[j] = k /\ ContentOf(ks, vs)[k] = vs[j]
    BY <1>1, ContentRow
  <2>2. MapKeys(d)[j] = ks[j] /\ MapValues(d)[j] = vs[j]
    BY <1>3, <1>5
  <2>. QED BY <1>1, <2>1, <2>2
<1>. QED BY <1>4, <1>6, <1>7 DEF n

(* has() and values() of a Set. *)
LEMMA SetReads ==
  ASSUME CollInv, NEW d \in Sets, Constructed(d)
  PROVE  /\ \A k \in Keys : SetHas(d, k) <=> k \in DOMAIN Content(d)
         /\ Len(SetValues(d)) = size[d]
<1> DEFINE s == entries[d]
<1>1. /\ KeySeq(d, s) = s
  BY SetRowsForm
<1>2. /\ s \in Seq(Keys) /\ Distinct(s) /\ DOMAIN s = 1..size[d] /\ size[d] = Len(s)
      /\ DOMAIN Content(d) = KeysOf(s)
  BY <1>1, ContentForm
<1>3. ASSUME NEW k \in Keys
      PROVE  SetHas(d, k) <=> k \in DOMAIN Content(d)
  <2>1. SetHas(d, k) <=> SetIndex(s, k) >= 0
    BY DEF SetHas
  <2>2. \/ SetIndex(s, k) = -1 /\ \A j \in DOMAIN s : ~ KeyMatch(s[j], k)
        \/ \E j \in DOMAIN s : SetIndex(s, k) = j - 1 /\ s[j] = k /\ k \notin Opaque
    BY <1>2, SetFind
  <2> HIDE DEF s
  <2>3. CASE SetIndex(s, k) = -1 /\ \A j \in DOMAIN s : ~ KeyMatch(s[j], k)
    <3>1. k \notin DOMAIN Content(d)
      BY <1>2, <2>3, KeyFound
    <3>. QED BY <2>1, <2>3, <3>1
  <2>4. CASE \E j \in DOMAIN s : SetIndex(s, k) = j - 1 /\ s[j] = k /\ k \notin Opaque
    <3>1. k \in DOMAIN Content(d)
      BY <1>2, <2>4, KeyFound
    <3>2. SetIndex(s, k) >= 0
      BY <1>2, <2>4
    <3>. QED BY <2>1, <3>1, <3>2
  <2>. QED BY <2>2, <2>3, <2>4
<1>. QED BY <1>2, <1>3 DEF SetValues

(* The flat arrays are whole, and no key is there twice. *)
LEMMA StoresHold ==
  ASSUME CollInv
  PROVE  StoresSound
<1> SUFFICES ASSUME NEW d \in Maps \cup Sets, Constructed(d)
             PROVE  /\ d \in Maps => Len(entries[d]) % 2 = 0
                    /\ size[d] = Count(d)
                    /\ \A i, j \in 1..Count(d) :
                         i # j /\ KeyMatch(KeyAt(d, i), KeyAt(d, i)) => KeyAt(d, i) # KeyAt(d, j)
  BY DEF StoresSound
<1> DEFINE s == entries[d]
           ks == KeySeq(d, s)
<1>1. Rows(d, s) /\ Distinct(ks) /\ size[d] = Len(ks) /\ DOMAIN ks = 1..size[d]
  BY ContentForm
<1>2. CountOf(d, s) = Len(ks) /\ \A j \in DOMAIN ks : KeyIn(d, s, j) = ks[j]
  BY <1>1, RowsAt
<1>3. Count(d) = CountOf(d, s) /\ \A j : KeyAt(d, j) = KeyIn(d, s, j)
  BY DEF Count, CountOf, KeyAt, KeyIn
<1>4. d \in Maps => Len(s) % 2 = 0
  BY <1>1 DEF Rows
<1> HIDE DEF s, ks
<1>5. \A i, j \in DOMAIN ks : i # j /\ KeyMatch(ks[i], ks[i]) => ks[i] # ks[j]
  BY <1>1 DEF Distinct, KeyMatch
<1>6. 1..Count(d) = DOMAIN ks /\ size[d] = Count(d) /\ \A j \in DOMAIN ks : KeyAt(d, j) = ks[j]
  BY <1>1, <1>2, <1>3
<1>7. d \in Maps => Len(entries[d]) % 2 = 0
  BY <1>4 DEF s
<1>. QED BY <1>5, <1>6, <1>7

(* Types, with the loops of the arrays' methods. *)
LEMMA TypesHold ==
  ASSUME LibraryInv
  PROVE  TypeOK
<1>1. CollInv /\ CallsFit(calls, entries) /\ steps \in 0..MaxSteps /\ ArraysInv
  BY DEF LibraryInv, CallsInv
<1>2. \A d \in Maps \cup Sets : (entries[d] = Absent \/ entries[d] \in Seq(Keys \cup Vals)) /\ size[d] \in Nat
  BY <1>1 DEF CollInv
<1>3. \A w \in WeakMaps \cup WeakSets :
        weak[w] # Absent => DOMAIN weak[w].kept \subseteq Objs /\ weak[w].lost \in Nat
  <2> SUFFICES ASSUME NEW w \in WeakMaps \cup WeakSets, weak[w] # Absent
               PROVE  DOMAIN weak[w].kept \subseteq Objs /\ weak[w].lost \in Nat
    OBVIOUS
  <2>1. weak[w] \in Stores
    BY <1>1 DEF CollInv
  <2>2. PICK K \in SUBSET Objs : weak[w].kept \in [K -> Vals \cup Keys]
    BY <2>1 DEF Stores
  <2>3. weak[w].lost \in Nat
    BY <2>1 DEF Stores
  <2>. QED BY <2>2, <2>3
<1>4. Len(calls) <= MaxCalls
  BY <1>1 DEF CallsFit
<1>5. \A a \in ArrayIds : arrays[a] \in Seq(Elems) /\ Len(arrays[a]) <= MaxLen
  BY <1>1 DEF ArraysInv
<1>6. ASSUME NEW j \in DOMAIN calls, calls[j].id \in ArrayIds
      PROVE  calls[j].i \in 0..MaxLen /\ (calls[j].m \notin Sorting => calls[j].item \in Elems)
  <2>1. CallFits(calls[j], entries)
    BY <1>1 DEF CallsFit
  <2>2. ~ Walking(calls[j])
    BY <1>6, <2>1, ArrayMethodsAssumption DEF CallFits, WalkOn, WalkFields
  <2>. QED BY <2>1, <2>2 DEF CallFits, CallSound
<1>. QED BY <1>1, <1>2, <1>3, <1>4, <1>5, <1>6 DEF TypeOK, CollTypeOK

-----------------------------------------------------------------------------
(* The specification. *)

(* The script starts with the invariant. *)
LEMMA LibraryBegins ==
  ASSUME AllInit
  PROVE  LibraryInv /\ D!Init
<1>1. /\ entries = [d \in Maps \cup Sets |-> Absent] /\ size = [d \in Maps \cup Sets |-> 0]
      /\ weak = [w \in WeakMaps \cup WeakSets |-> Absent] /\ calls = <<>> /\ steps = 0
      /\ arrays \in [ArrayIds -> Contents]
  BY DEF AllInit, Init
<1>2. CollInv
  BY <1>1 DEF CollInv, Constructed
<1>3. CallsInv
  <2>1. <<>> \in Seq(Range(<<>>)) /\ Len(<<>>) <= MaxCalls /\ DOMAIN <<>> = {} /\ 0 \in 0..MaxSteps
    BY CollectionsAssumption
  <2>. QED BY <1>1, <2>1 DEF CallsInv, CallsFit
<1>4. ArraysInv
  BY <1>1, ArrayMethodsAssumption DEF ArraysInv
<1>5. ASSUME NEW d \in AllIds
      PROVE  Content(d) = Absent
  <2>1. CASE d \in Maps \cup Sets
    BY <1>1, <2>1, ContentOfArray DEF Constructed
  <2>2. CASE d \in WeakMaps \cup WeakSets
    BY <1>1, <2>2, ContentOfWeak
  <2>. QED BY <2>1, <2>2 DEF AllIds
<1>6. contents = [d \in AllIds |-> Absent]
  BY <1>5 DEF contents
<1>. QED BY <1>2, <1>3, <1>4, <1>6 DEF LibraryInv, D!Init

(* What every step does. *)
LEMMA LibraryStep ==
  ASSUME LibraryInv, Next
  PROVE  LibraryInv' /\ KeysStep /\ WalkEnds /\ (D!Next \/ contents' = contents)
<1>1. CollInv /\ CallsInv /\ ArraysInv
  BY DEF LibraryInv
<1>2. CASE CollNext /\ UNCHANGED <<arrays, answer>>
  <2>1. Kept /\ Refined
    BY <1>1, <1>2, CollectionStep
  <2>2. ArraysInv'
    BY <1>1, <1>2 DEF ArraysInv
  <2>. QED BY <2>1, <2>2 DEF Kept, Refined, LibraryInv
<1>3. CASE ArrayNext
  <2>1. ArrayKept
    BY <1>1, <1>3, ArrayStep
  <2>. QED BY <2>1 DEF ArrayKept, Kept, LibraryInv
<1>. QED BY <1>2, <1>3 DEF Next

(* A step that changes nothing. *)
LEMMA LibraryStays ==
  ASSUME LibraryInv, UNCHANGED vars
  PROVE  LibraryInv' /\ contents' = contents /\ UNCHANGED collVars
<1>1. /\ entries' = entries /\ size' = size /\ weak' = weak /\ calls' = calls /\ steps' = steps
      /\ arrays' = arrays
  BY DEF vars, collVars
<1>2. LibraryInv'
  BY <1>1 DEF LibraryInv, CollInv, CallsInv, ArraysInv, Constructed
<1>. QED BY <1>1, <1>2, ContentsKept DEF collVars

(* Whatever runs in the middle of a walk or of a method of an array
   (internal/builtins/map.go, set.go, weak.go, array.go), the flat arrays stay
   rows of distinct keys, every waiting walk is inside what it walks, and every
   loop over an array inside the bounds of what it reads. *)
THEOREM LibraryHolds == Spec => []LibraryInv
<1>1. AllInit => LibraryInv
  BY LibraryBegins
<1>2. LibraryInv /\ [Next]_vars => LibraryInv'
  BY LibraryStep, LibraryStays
<1>. QED BY <1>1, <1>2, PTL DEF Spec

(* Types are kept, size is the number of the entries, no key has two, and get(),
   has(), keys() and values() answer from the contents. *)
THEOREM CollectionsHold == Spec => []CollectionsSound
<1>1. LibraryInv => CollectionsSound
  <2> SUFFICES ASSUME LibraryInv
               PROVE  CollectionsSound
    OBVIOUS
  <2>1. CollInv
    BY DEF LibraryInv
  <2>2. TypeOK
    BY TypesHold
  <2>3. StoresSound
    BY <2>1, StoresHold
  <2>4. ReadsAgree
    BY <2>1, MapReads, SetReads, Zenon DEF ReadsAgree
  <2>. QED BY <2>2, <2>3, <2>4 DEF CollectionsSound
<1>. QED BY <1>1, LibraryHolds, PTL

(* Map, Set, WeakMap and WeakSet implement finite maps: one operation changes
   one collection at one key, whatever their arrays go through. *)
THEOREM DictionaryRefined == Spec => ImplementsDictionary
<1>1. AllInit => D!Init
  BY LibraryBegins
<1>2. LibraryInv /\ [Next]_vars => [D!Next]_contents
  BY LibraryStep, LibraryStays
<1>. QED BY <1>1, <1>2, LibraryHolds, PTL DEF Spec, ImplementsDictionary, D!Spec

(* Keys stay where insertion put them, and a forEach during which nothing is
   taken out visits what was there when it began, in order, each once. *)
THEOREM OrderHolds == Spec => OrderKept
<1> DEFINE A == \A d \in Maps \cup Sets : Constructed(d) => KeysGoOn(d, entries[d], entries'[d])
           B == /\ \A j \in DOMAIN calls' : Walking(calls'[j]) /\ ~ calls'[j].touched => InOrder(calls'[j])
                /\ Len(calls') < Len(calls) /\ steps' = steps /\ Walking(top) /\ ~ top.touched
                     => Len(top.seen) = Len(KeySeq(top.id, top.start))
<1>1. ASSUME LibraryInv, Next
      PROVE  A /\ B
  <2>1. LibraryInv' /\ KeysStep /\ WalkEnds
    BY <1>1, LibraryStep
  <2>2. ASSUME NEW j \in DOMAIN calls', Walking(calls'[j]), ~ calls'[j].touched
        PROVE  InOrder(calls'[j])
    <3>1. CallFits(calls'[j], entries')
      BY <2>1 DEF LibraryInv, CallsInv, CallsFit
    <3>. QED BY <2>2, <3>1 DEF CallFits, WalkOn
  <2>. QED BY <2>1, <2>2 DEF KeysStep, WalkEnds
<1>2. LibraryInv /\ [Next]_vars => [A]_collVars /\ [B]_collVars
  BY <1>1, LibraryStays
<1>. QED BY <1>2, LibraryHolds, PTL DEF Spec, OrderKept, InsertionOrder, ForEachCovers

-----------------------------------------------------------------------------
(* Methods of arrays that call back: how far a loop has come. *)

CountsDown == Down1 \cup {"reduceRight"}
Searches == {"find", "findIndex", "findLast", "findLastIndex", "every", "some"}
Decides(m, v) == IF m = "every" THEN ~ Truthy(v) ELSE Truthy(v)

Answers(c) == [k \in DOMAIN c.seen |-> c.seen[k][2]]
OrderOf(c) == IF c.m \in CountsDown THEN Reverse(c.start) ELSE c.start
SkipOf(c) == IF c.m \in Folding /\ ~ c.init THEN 1 ELSE 0
Dealt(c) == Len(c.seen) + SkipOf(c)

(* e enumerates the elements that filter() has kept. *)
Picks(e, out, s, rs) ==
  /\ \A k \in 1..Len(out) : e[k] \in DOMAIN rs /\ Truthy(rs[e[k]]) /\ out[k] = s[e[k]]
  /\ \A k, l \in 1..Len(out) : k < l => e[k] < e[l]
  /\ \A j \in DOMAIN rs : Truthy(rs[j]) => \E k \in 1..Len(out) : e[k] = j

Picked(out, s, rs) == out \in Seq(Elems) /\ \E e \in [1..Len(out) -> Nat] : Picks(e, out, s, rs)

Collected(m, start, out, acc, rs) ==
  /\ m \in {"map", "from"} => out = rs
  /\ m = "filter" => Picked(out, start, rs)
  /\ m = "flatMap" => rs \in Seq(Seq(Elems \cup Results)) /\ out = FlattenSeq(rs)
  /\ m \in Folding /\ rs # <<>> => acc = rs[Len(rs)]

OnWay(c) ==
  /\ c.n = Len(c.start) /\ Dealt(c) <= Len(c.start)
  /\ c.i = IF c.m \in CountsDown THEN Len(c.start) - 1 - Dealt(c) ELSE Dealt(c)
  /\ c.seen \in Seq(Range(c.seen))
  /\ \A k \in DOMAIN c.seen : c.seen[k][1] = OrderOf(c)[k + SkipOf(c)]
  /\ c.m \in Searches => \A k \in DOMAIN c.seen : ~ Decides(c.m, c.seen[k][2])
  /\ Collected(c.m, c.start, c.out, c.acc, Answers(c))

Waits(c) == OnWay(c) /\ Dealt(c) < Len(c.start) /\ c.item = OrderOf(c)[Dealt(c) + 1]

LoopFits(c, as) ==
  ~ Walking(c) => /\ c.m \in Sorting => c.acc \in Orders
                  /\ ~ c.touched => c.start = as[c.id] /\ (c.m \notin Sorting => Waits(c))

LoopsFit(cs, as) == \A j \in DOMAIN cs : LoopFits(cs[j], as)
LoopsHold == LoopsFit(calls, arrays)

(* By the comparator always, as ECMAScript says without an undefined. *)
SortsBoth(s, t, o) ==
  /\ SortsStably(s, t, Before(o))
  /\ Undefined \notin Range(s) => SortsStably(s, t, UndefinedLast(o))

(* IterationsExact, of one answer. *)
Exact(a) ==
  a.m # "none" /\ ~ a.touched =>
    IF a.m \in Sorting THEN SortsBoth(a.start, a.value, a.acc)
    ELSE /\ CallsOf(a.m, Len(a.start), a.init, Answers(a))
         /\ \A k \in DOMAIN Answers(a) : a.seen[k][1] = OrderOf(a)[k + SkipOf(a)]
         /\ a.value = AnswerOf(a.m, a.start, Answers(a))

(* It is that. *)
LEMMA ExactAnswer == IterationsExact <=> Exact(answer)
BY DEF IterationsExact, Exact, SortsBoth, Answers, OrderOf, SkipOf, CountsDown

(* The answers of the callbacks are a sequence, and one more is put behind. *)
SeenNext(c, d, x, v) ==
  /\ Answers(c) \in Seq(Range(Answers(c))) /\ Len(Answers(c)) = Len(c.seen)
  /\ DOMAIN Answers(c) = 1..Len(c.seen) /\ Len(c.seen) \in Nat
  /\ DOMAIN c.seen = 1..Len(c.seen)
  /\ \A k \in DOMAIN c.seen : Answers(c)[k] = c.seen[k][2]
  /\ d.seen \in Seq(Range(d.seen)) /\ Len(d.seen) = Len(c.seen) + 1
  /\ DOMAIN d.seen = 1..(Len(c.seen) + 1)
  /\ \A k \in DOMAIN c.seen : d.seen[k] = c.seen[k]
  /\ d.seen[Len(c.seen) + 1] = <<x, v>>
  /\ Answers(d) = Append(Answers(c), v)

(* So they are. *)
LEMMA AnswersForm ==
  ASSUME NEW c, NEW d, NEW x, NEW v, c.seen \in Seq(Range(c.seen)), d.seen = Append(c.seen, <<x, v>>)
  PROVE  SeenNext(c, d, x, v)
<1> DEFINE s == c.seen
           t == d.seen
           n == Len(s)
           rs == Answers(c)
<1>1. /\ n \in Nat /\ DOMAIN s = 1..n /\ s \in Seq(Range(s))
  OBVIOUS
<1>2. /\ t \in Seq(Range(s) \cup {<<x, v>>}) /\ Len(t) = n + 1 /\ DOMAIN t = 1..(n + 1)
      /\ \A k \in 1..n : t[k] = s[k]
  BY <1>1
<1>3. t[n + 1] = <<x, v>>
  BY <1>1
<1>4. t \in Seq(Range(t))
  <2> HIDE DEF t
  <2>. QED BY <1>2, OfItsElements
<1>5. rs = [k \in 1..n |-> s[k][2]]
  BY <1>1 DEF Answers
<1>6. Answers(d) = [k \in 1..(n + 1) |-> t[k][2]]
  BY <1>2 DEF Answers
<1> HIDE DEF s, t, n, rs
<1>7. rs \in Seq(Range(rs)) /\ Len(rs) = n /\ DOMAIN rs = 1..n
  <2>1. rs \in Seq({s[k][2] : k \in 1..n})
    BY <1>1, <1>5
  <2>2. Len(rs) = n /\ DOMAIN rs = 1..n
    BY <1>1, <1>5
  <2>. QED BY <2>1, <2>2, OfItsElements
<1>8. Answers(d) = Append(rs, v)
  <2> DEFINE u == Append(rs, v)
  <2>1. /\ u \in Seq(Range(rs) \cup {v}) /\ Len(u) = n + 1 /\ DOMAIN u = 1..(n + 1)
        /\ \A k \in 1..n : u[k] = rs[k]
    BY <1>1, <1>7
  <2>2. u[n + 1] = v
    BY <1>1, <1>7
  <2> HIDE DEF u
  <2>3. u = [k \in 1..(n + 1) |-> u[k]]
    BY <1>1, <2>1
  <2>4. \A k \in 1..(n + 1) : u[k] = t[k][2]
    <3> TAKE k \in 1..(n + 1)
    <3>1. k \in 1..n \/ k = n + 1
      BY <1>1
    <3>. QED BY <1>2, <1>3, <1>5, <2>1, <2>2, <3>1
  <2>. QED BY <1>6, <2>3, <2>4 DEF u
<1>9. \A k \in 1..n : rs[k] = s[k][2]
  BY <1>5
<1>10. Len(t) = Len(s) + 1 /\ DOMAIN t = 1..(Len(s) + 1) /\ t[Len(s) + 1] = <<x, v>> /\ DOMAIN s = 1..Len(s)
  BY <1>1, <1>2, <1>3 DEF n
<1>11. \A k \in DOMAIN s : t[k] = s[k] /\ rs[k] = s[k][2]
  BY <1>1, <1>2, <1>9
<1>12. Len(rs) = Len(s) /\ DOMAIN rs = 1..Len(s) /\ Len(s) \in Nat
  BY <1>1, <1>7 DEF n
<1>. QED BY <1>4, <1>7, <1>8, <1>10, <1>11, <1>12 DEF s, t, rs, SeenNext

(* The next element: what the loop has dealt with grows by one. *)
LEMMA NextOnWay ==
  ASSUME NEW c, NEW q, NEW v, CallSound(c), Waits(c), c.m \notin Sorting,
         q.m = c.m, q.start = c.start, q.n = c.n, q.init = c.init,
         q.seen = Append(c.seen, <<c.item, v>>),
         q.i = IF c.m \in CountsDown THEN c.i - 1 ELSE c.i + 1,
         c.m \in Searches => ~ Decides(c.m, v),
         Collected(c.m, c.start, q.out, q.acc, Append(Answers(c), v))
  PROVE  OnWay(q) /\ Len(q.seen) >= 1
<1> DEFINE n == Len(c.start)
           k0 == Len(c.seen)
           skip == SkipOf(c)
           ord == OrderOf(c)
<1>1. /\ Len(c.seen) \in Nat /\ DOMAIN c.seen = 1..k0
      /\ q.seen \in Seq(Range(q.seen)) /\ Len(q.seen) = Len(c.seen) + 1
      /\ DOMAIN q.seen = 1..(k0 + 1)
      /\ \A k \in DOMAIN c.seen : q.seen[k] = c.seen[k]
      /\ q.seen[Len(c.seen) + 1] = <<c.item, v>>
      /\ Answers(q) = Append(Answers(c), v)
  <2>1. c.seen \in Seq(Range(c.seen))
    BY DEF Waits, OnWay
  <2>2. SeenNext(c, q, c.item, v)
    BY <2>1, AnswersForm
  <2>. QED BY <2>2 DEF SeenNext
<1>2. SkipOf(q) = skip /\ OrderOf(q) = ord /\ skip \in {0, 1}
  BY DEF SkipOf, OrderOf
<1>3. n \in Nat
  BY DEF CallSound
<1>4. /\ c.n = n /\ k0 + skip < n /\ c.item = ord[k0 + skip + 1]
      /\ c.i = IF c.m \in CountsDown THEN n - 1 - (k0 + skip) ELSE k0 + skip
      /\ \A k \in DOMAIN c.seen : c.seen[k][1] = ord[k + skip]
      /\ c.m \in Searches => \A k \in DOMAIN c.seen : ~ Decides(c.m, c.seen[k][2])
  BY DEF Waits, OnWay, Dealt
<1>5. Dealt(q) = k0 + skip + 1
  BY <1>1, <1>2 DEF Dealt
<1> HIDE DEF n, skip, ord
<1>6. k0 \in Nat /\ k0 + 1 + skip = k0 + skip + 1
  BY <1>1, <1>2
<1>7. \A k \in DOMAIN q.seen : q.seen[k][1] = ord[k + skip]
  <2> TAKE k \in DOMAIN q.seen
  <2>1. k \in DOMAIN c.seen \/ k = k0 + 1
    BY <1>1, <1>6
  <2>2. CASE k \in DOMAIN c.seen
    BY <1>1, <1>4, <2>2
  <2>3. CASE k = k0 + 1
    <3>1. q.seen[k][1] = c.item
      BY <1>1, <2>3
    <3>. QED BY <1>4, <1>6, <2>3, <3>1
  <2>. QED BY <2>1, <2>2, <2>3
<1>8. c.m \in Searches => \A k \in DOMAIN q.seen : ~ Decides(c.m, q.seen[k][2])
  <2> SUFFICES ASSUME c.m \in Searches, NEW k \in DOMAIN q.seen
               PROVE  ~ Decides(c.m, q.seen[k][2])
    OBVIOUS
  <2>1. k \in DOMAIN c.seen \/ k = k0 + 1
    BY <1>1, <1>6
  <2>2. CASE k \in DOMAIN c.seen
    BY <1>1, <1>4, <2>2
  <2>3. CASE k = k0 + 1
    <3>1. q.seen[k][2] = v
      BY <1>1, <2>3
    <3>. QED BY <3>1
  <2>. QED BY <2>1, <2>2, <2>3
<1>9. /\ q.n = Len(q.start) /\ Dealt(q) <= Len(q.start)
      /\ q.i = IF q.m \in CountsDown THEN Len(q.start) - 1 - Dealt(q) ELSE Dealt(q)
  <2>1. Len(q.start) = n
    BY DEF n
  <2>2. k0 + skip + 1 <= n /\ n - 1 - (k0 + skip) - 1 = n - 1 - (k0 + skip + 1)
    BY <1>2, <1>3, <1>4, <1>6
  <2> DEFINE d == k0 + skip
  <2>3. c.i = (IF c.m \in CountsDown THEN n - 1 - d ELSE d) /\ d \in Nat /\ q.m = c.m
    BY <1>2, <1>4, <1>6
  <2>4. q.i = IF c.m \in CountsDown THEN c.i - 1 ELSE c.i + 1
    OBVIOUS
  <2>5. CASE c.m \in CountsDown
    BY <1>4, <1>5, <2>1, <2>2, <2>3, <2>4, <2>5
  <2>6. CASE c.m \notin CountsDown
    BY <1>4, <1>5, <2>1, <2>2, <2>3, <2>4, <2>6
  <2>. QED BY <2>5, <2>6
<1>10. Collected(q.m, q.start, q.out, q.acc, Answers(q))
  BY <1>1
<1>11. \A k \in DOMAIN q.seen : q.seen[k][1] = OrderOf(q)[k + SkipOf(q)]
  BY <1>2, <1>7
<1>. QED BY <1>1, <1>6, <1>8, <1>9, <1>10, <1>11 DEF OnWay


-----------------------------------------------------------------------------
(* What the methods that collect have collected. *)

(* The concatenation of sequences, one after the other. *)
Joining(f, S, rs) ==
  /\ f \in [1..Len(rs) -> Seq(S)]
  /\ \A i \in 1..Len(rs) : f[i] = IF i = 1 THEN rs[i] ELSE f[i - 1] \o rs[i]

(* It can be computed. *)
LEMMA JoiningExists ==
  ASSUME NEW S, NEW rs, rs \in Seq(Seq(S))
  PROVE  \E f : Joining(f, S, rs)
<1> DEFINE n == Len(rs)
           Joins(f, m) == /\ f \in [1..m -> Seq(S)]
                          /\ \A i \in 1..m : f[i] = IF i = 1 THEN rs[i] ELSE f[i - 1] \o rs[i]
           P == {m \in 0..n : \E f : Joins(f, m)}
<1>1. n \in Nat /\ \A i \in 1..n : rs[i] \in Seq(S)
  OBVIOUS
<1>2. 0 \in P
  <2>1. Joins([i \in 1..0 |-> <<>>], 0)
    OBVIOUS
  <2>2. \E f : Joins(f, 0)
    <3> HIDE DEF Joins
    <3>. QED BY <2>1
  <2> HIDE DEF Joins
  <2>. QED BY <1>1, <2>2
<1>3. ASSUME NEW k \in 1..n, k - 1 \in P
      PROVE  k \in P
  <2>1. PICK g : Joins(g, k - 1)
    BY <1>3
  <2> DEFINE x == IF k = 1 THEN rs[k] ELSE g[k - 1] \o rs[k]
             h == [i \in 1..k |-> IF i = k THEN x ELSE g[i]]
  <2>2. /\ \A i \in 1..(k - 1) : i \in 1..k /\ i # k
        /\ \A i \in 1..k : i = k \/ i \in 1..(k - 1)
        /\ \A i \in 1..k : i # 1 => i - 1 \in 1..(k - 1)
        /\ k \in 0..n /\ k \in 1..k
    BY <1>1
  <2>3. x \in Seq(S)
    <3>1. CASE k = 1
      BY <1>1, <3>1
    <3>2. CASE k # 1
      <4>1. k - 1 \in 1..(k - 1)
        BY <2>2, <3>2
      <4>2. g[k - 1] \in Seq(S) /\ rs[k] \in Seq(S)
        BY <1>1, <2>1, <4>1
      <4>. QED BY <3>2, <4>2, ConcatProperties
    <3>. QED BY <3>1, <3>2
  <2>4. h[k] = x /\ \A i \in 1..(k - 1) : h[i] = g[i]
    BY <2>2
  <2>5. h \in [1..k -> Seq(S)]
    BY <2>1, <2>2, <2>3
  <2> HIDE DEF h
  <2>6. ASSUME NEW i \in 1..k
        PROVE  h[i] = IF i = 1 THEN rs[i] ELSE h[i - 1] \o rs[i]
    <3>1. CASE i = k
      <4>1. i # 1 => h[i - 1] = g[i - 1]
        BY <2>2, <2>4
      <4>. QED BY <2>4, <3>1, <4>1
    <3>2. CASE i # k
      <4>1. i \in 1..(k - 1) /\ (i # 1 => i - 1 \in 1..(k - 1))
        BY <2>2, <3>2
      <4>2. h[i] = g[i] /\ (i # 1 => h[i - 1] = g[i - 1])
        BY <2>4, <4>1
      <4>. QED BY <2>1, <4>1, <4>2
    <3>. QED BY <3>1, <3>2
  <2>7. Joins(h, k)
    BY <2>5, <2>6
  <2>. QED BY <2>2, <2>7
<1> HIDE DEF P
<1>4. \A k \in 0..n : k \in P
  <2> HIDE DEF n
  <2>. QED BY <1>1, <1>2, <1>3, Rounds
<1>5. n \in P
  BY <1>1, <1>4
<1>. QED BY <1>5 DEF Joining, P

(* In one way only, as far as the sequences are the same. *)
JoinAlike(f, g, rs, us, n) ==
  \A i \in 1..n : /\ f[i] = IF i = 1 THEN rs[i] ELSE f[i - 1] \o rs[i]
                  /\ g[i] = IF i = 1 THEN us[i] ELSE g[i - 1] \o us[i]
                  /\ rs[i] = us[i]

(* So two of them are the same. *)
LEMMA JoiningUnique ==
  ASSUME NEW f, NEW g, NEW rs, NEW us, NEW n, n \in Nat, JoinAlike(f, g, rs, us, n)
  PROVE  \A i \in 1..n : f[i] = g[i]
<1> DEFINE P == {k \in 0..n : k # 0 => f[k] = g[k]}
<1>1. 0 \in P
  OBVIOUS
<1>2. ASSUME NEW k \in 1..n, k - 1 \in P
      PROVE  k \in P
  <2>1. k \in 0..n /\ k # 0
    OBVIOUS
  <2>2. CASE k = 1
    BY <2>1, <2>2 DEF JoinAlike
  <2>3. CASE k # 1
    <3>1. k - 1 # 0
      BY <2>3
    <3>2. f[k - 1] = g[k - 1]
      BY <1>2, <3>1
    <3>. QED BY <2>1, <2>3, <3>2 DEF JoinAlike
  <2>. QED BY <2>2, <2>3
<1> HIDE DEF P
<1>3. \A k \in 0..n : k \in P
  BY <1>1, <1>2, Rounds
<1>4. \A i \in 1..n : i \in 0..n /\ i # 0
  OBVIOUS
<1>. QED BY <1>3, <1>4 DEF P

(* Where one sequence of sequences leads the other, so do what is computed. *)
LEMMA JoiningLeads ==
  ASSUME NEW S, NEW rs, NEW us, NEW f, NEW g, Joining(f, S, rs), Joining(g, S, us),
         Len(rs) \in Nat, \A i \in 1..Len(rs) : i \in 1..Len(us) /\ us[i] = rs[i]
  PROVE  \A i \in 1..Len(rs) : f[i] = g[i]
<1>1. JoinAlike(f, g, rs, us, Len(rs))
  BY DEF Joining, JoinAlike
<1>. QED BY <1>1, JoiningUnique

(* FlattenSeq() computes it. *)
LEMMA FlattenIs ==
  ASSUME NEW S, NEW rs, rs \in Seq(Seq(S)), NEW f, Joining(f, S, rs)
  PROVE  FlattenSeq(rs) = IF Len(rs) = 0 THEN <<>> ELSE f[Len(rs)]
<1> DEFINE n == Len(rs)
           h == CHOOSE flat : flat = [i \in 1..n |-> IF i = 1 THEN rs[i] ELSE flat[i - 1] \o rs[i]]
<1>1. n \in Nat /\ (n = 0 => rs = <<>>)
  OBVIOUS
<1>2. FlattenSeq(rs) = IF n = 0 THEN rs ELSE h[n]
  BY DEF FlattenSeq
<1> HIDE DEF n
<1>3. f = [i \in 1..n |-> IF i = 1 THEN rs[i] ELSE f[i - 1] \o rs[i]]
  BY DEF Joining, n
<1>4. h = [i \in 1..n |-> IF i = 1 THEN rs[i] ELSE h[i - 1] \o rs[i]]
  BY <1>3
<1> HIDE DEF h
<1>5. \A i \in 1..n : h[i] = f[i]
  <2>1. JoinAlike(h, f, rs, rs, n)
    BY <1>3, <1>4 DEF JoinAlike
  <2>. QED BY <1>1, <2>1, JoiningUnique
<1>6. CASE n = 0
  BY <1>1, <1>2, <1>6 DEF n
<1>7. CASE n # 0
  <2>1. n \in 1..n
    BY <1>1, <1>7
  <2>. QED BY <1>2, <1>5, <1>7, <2>1 DEF n
<1>. QED BY <1>6, <1>7

(* One sequence more is joined to the others. *)
LEMMA FlattenNext ==
  ASSUME NEW S, NEW rs, NEW vs, rs \in Seq(Seq(S)), vs \in Seq(S)
  PROVE  Append(rs, vs) \in Seq(Seq(S)) /\ FlattenSeq(Append(rs, vs)) = FlattenSeq(rs) \o vs
<1> DEFINE us == Append(rs, vs)
           n == Len(rs)
<1>1. /\ n \in Nat /\ us \in Seq(Seq(S)) /\ Len(us) = n + 1
      /\ \A i \in 1..n : us[i] = rs[i]
  OBVIOUS
<1>2. us[n + 1] = vs
  OBVIOUS
<1> HIDE DEF us
<1>3. PICK f : Joining(f, S, rs)
  BY JoiningExists
<1>4. PICK g : Joining(g, S, us)
  BY <1>1, JoiningExists
<1>5. FlattenSeq(rs) = IF n = 0 THEN <<>> ELSE f[n]
  BY <1>3, FlattenIs
<1>6. FlattenSeq(us) = IF Len(us) = 0 THEN <<>> ELSE g[Len(us)]
  BY <1>1, <1>4, FlattenIs
<1> HIDE DEF n
<1>7. FlattenSeq(us) = g[n + 1]
  BY <1>1, <1>6
<1>8. n + 1 \in 1..(n + 1) /\ (n + 1) - 1 = n /\ \A i \in 1..n : i \in 1..(n + 1)
  BY <1>1
<1>9. g[n + 1] = IF n + 1 = 1 THEN vs ELSE g[n] \o vs
  BY <1>1, <1>2, <1>4, <1>8 DEF Joining
<1>10. \A i \in 1..n : f[i] = g[i]
  <2>1. Len(rs) \in Nat /\ \A i \in 1..Len(rs) : i \in 1..Len(us) /\ us[i] = rs[i]
    BY <1>1, <1>8 DEF n
  <2>2. \A i \in 1..Len(rs) : f[i] = g[i]
    BY <1>3, <1>4, <2>1, JoiningLeads
  <2>. QED BY <2>2 DEF n
<1>11. n = 0 => FlattenSeq(us) = FlattenSeq(rs) \o vs
  <2>1. <<>> \o vs = vs
    OBVIOUS
  <2>. QED BY <1>5, <1>7, <1>9, <2>1
<1>12. n # 0 => FlattenSeq(us) = FlattenSeq(rs) \o vs
  <2>1. n # 0 => n \in 1..n /\ n + 1 # 1
    BY <1>1
  <2>. QED BY <1>5, <1>7, <1>9, <1>10, <2>1
<1>. QED BY <1>1, <1>11, <1>12 DEF us


(* What filter() keeps of the next element. *)
LEMMA PicksNext ==
  ASSUME NEW s, NEW rs, NEW out, NEW r, NEW x, NEW out2, x \in Elems,
         rs \in Seq(Range(rs)), Picked(out, s, rs),
         x = s[Len(rs) + 1], out2 = IF Truthy(r) THEN Append(out, x) ELSE out
  PROVE  Picked(out2, s, Append(rs, r))
<1> DEFINE n == Len(rs)
           m == Len(out)
           us == Append(rs, r)
<1>0. out \in Seq(Elems)
  BY DEF Picked
<1>1. PICK e \in [1..m -> Nat] : Picks(e, out, s, rs)
  BY DEF Picked
<1>2. /\ n \in Nat /\ DOMAIN rs = 1..n /\ DOMAIN us = 1..(n + 1)
      /\ \A k \in 1..n : us[k] = rs[k]
  OBVIOUS
<1>3. us[n + 1] = r
  OBVIOUS
<1>4. m \in Nat /\ DOMAIN out = 1..m
  BY <1>0
<1>5. /\ \A k \in 1..m : e[k] \in 1..n /\ Truthy(rs[e[k]]) /\ out[k] = s[e[k]]
      /\ \A k, l \in 1..m : k < l => e[k] < e[l]
      /\ \A j \in 1..n : Truthy(rs[j]) => \E k \in 1..m : e[k] = j
  BY <1>1, <1>2 DEF Picks
<1> HIDE DEF n, us
<1>6. CASE ~ Truthy(r)
  <2>1. \A k \in 1..m : e[k] \in 1..(n + 1) /\ Truthy(us[e[k]])
    BY <1>2, <1>5
  <2>2. \A j \in 1..(n + 1) : Truthy(us[j]) => \E k \in 1..m : e[k] = j
    <3> TAKE j \in 1..(n + 1)
    <3>1. j \in 1..n \/ j = n + 1
      BY <1>2
    <3>. QED BY <1>2, <1>3, <1>5, <1>6, <3>1
  <2>3. Picks(e, out, s, us)
    BY <1>2, <1>5, <2>1, <2>2 DEF Picks
  <2>4. out2 = out
    BY <1>6
  <2>. QED BY <1>0, <1>1, <2>3, <2>4 DEF us, Picked
<1>7. CASE Truthy(r)
  <2> DEFINE e2 == [k \in 1..(m + 1) |-> IF k = m + 1 THEN n + 1 ELSE e[k]]
  <2>1. /\ out2 = Append(out, x) /\ out2 \in Seq(Elems) /\ Len(out2) = m + 1
        /\ \A k \in 1..m : out2[k] = out[k]
    BY <1>0, <1>7
  <2>2. out2[m + 1] = x
    BY <1>0, <1>4, <2>1
  <2> HIDE DEF m
  <2>3. /\ \A k \in 1..m : k \in 1..(m + 1) /\ k # m + 1
        /\ \A k \in 1..(m + 1) : k \in 1..m \/ k = m + 1
        /\ m + 1 \in 1..(m + 1)
    BY <1>4
  <2>4. e2[m + 1] = n + 1 /\ \A k \in 1..m : e2[k] = e[k]
    BY <2>3
  <2>5. e2 \in [1..(m + 1) -> Nat]
    BY <1>2, <2>3
  <2> HIDE DEF e2
  <2>6. ASSUME NEW k \in 1..(m + 1)
        PROVE  e2[k] \in 1..(n + 1) /\ Truthy(us[e2[k]]) /\ out2[k] = s[e2[k]]
    <3>1. CASE k \in 1..m
      BY <1>2, <1>5, <2>1, <2>4, <3>1
    <3>2. CASE k = m + 1
      <4>1. x = s[n + 1] /\ n + 1 \in 1..(n + 1)
        BY <1>2 DEF n
      <4>. QED BY <1>3, <1>7, <2>2, <2>4, <3>2, <4>1
    <3>. QED BY <2>3, <3>1, <3>2
  <2>7. ASSUME NEW k \in 1..(m + 1), NEW l \in 1..(m + 1), k < l
        PROVE  e2[k] < e2[l]
    <3>1. k \in 1..m
      BY <1>4, <2>7
    <3>2. e2[k] = e[k] /\ e[k] \in 1..n
      BY <1>5, <2>4, <3>1
    <3>3. CASE l \in 1..m
      BY <1>5, <2>4, <2>7, <3>1, <3>3
    <3>4. CASE l = m + 1
      BY <1>2, <2>4, <3>2, <3>4
    <3>. QED BY <2>3, <3>3, <3>4
  <2>8. ASSUME NEW j \in 1..(n + 1), Truthy(us[j])
        PROVE  \E k \in 1..(m + 1) : e2[k] = j
    <3>1. CASE j \in 1..n
      <4>1. PICK k \in 1..m : e[k] = j
        BY <1>2, <1>5, <2>8, <3>1
      <4>. QED BY <2>3, <2>4, <4>1
    <3>2. CASE j = n + 1
      BY <2>3, <2>4, <3>2
    <3>. QED BY <1>2, <3>1, <3>2
  <2>9. Picks(e2, out2, s, us)
    BY <1>2, <2>1, <2>6, <2>7, <2>8 DEF Picks
  <2>. QED BY <2>1, <2>5, <2>9 DEF us, Picked
<1>. QED BY <1>6, <1>7

(* What a method that collects does with the answer of its callback. *)
Collects(m, q, c, v) ==
  /\ m \in {"map", "from"} => q.out = Append(c.out, v)
  /\ m = "filter" => q.out = IF Truthy(v) THEN Append(c.out, c.item) ELSE c.out
  /\ m = "flatMap" => v \in Seq(Elems \cup Results) /\ q.out = c.out \o v
  /\ m \in Folding => q.acc = v

(* Then it has collected what it should. *)
LEMMA CollectedNext ==
  ASSUME NEW c, NEW q, NEW v, CallSound(c), Waits(c), Collects(c.m, q, c, v)
  PROVE  Collected(c.m, c.start, q.out, q.acc, Append(Answers(c), v))
<1> DEFINE rs == Answers(c)
           n == Len(rs)
<1>1. /\ rs \in Seq(Range(rs)) /\ n = Len(c.seen) /\ n \in Nat
      /\ Collected(c.m, c.start, c.out, c.acc, rs) /\ c.item = OrderOf(c)[Dealt(c) + 1]
  <2> DEFINE d == [c EXCEPT !.seen = Append(c.seen, <<c.item, v>>)]
  <2>1. c.seen \in Seq(Range(c.seen)) /\ Collected(c.m, c.start, c.out, c.acc, rs)
        /\ c.item = OrderOf(c)[Dealt(c) + 1]
    BY DEF Waits, OnWay
  <2>2. d.seen = Append(c.seen, <<c.item, v>>)
    BY DEF CallSound, CallFields
  <2>3. SeenNext(c, d, c.item, v)
    <3> HIDE DEF d
    <3>. QED BY <2>1, <2>2, AnswersForm
  <2>. QED BY <2>1, <2>3 DEF SeenNext
<1> HIDE DEF rs
<1>2. /\ Len(Append(rs, v)) = n + 1
  BY <1>1
<1>3. Append(rs, v)[n + 1] = v
  BY <1>1
<1>4. c.m \in {"map", "from"} => q.out = Append(rs, v)
  BY <1>1 DEF Collected, Collects
<1>5. c.m = "filter" => Picked(q.out, c.start, Append(rs, v))
  <2> SUFFICES ASSUME c.m = "filter"
               PROVE  Picked(q.out, c.start, Append(rs, v))
    OBVIOUS
  <2>1. c.m \notin CountsDown /\ c.m \notin Folding
    BY DEF CountsDown, Down1, Folding
  <2>2. c.item = c.start[n + 1]
    BY <1>1, <2>1 DEF OrderOf, SkipOf, Dealt
  <2>3. c.item \in Elems /\ Picked(c.out, c.start, rs)
    BY <1>1 DEF Collected, CallSound
  <2>4. q.out = IF Truthy(v) THEN Append(c.out, c.item) ELSE c.out
    BY DEF Collects
  <2>. QED BY <1>1, <2>2, <2>3, <2>4, PicksNext
<1>6. c.m = "flatMap" => /\ Append(rs, v) \in Seq(Seq(Elems \cup Results))
                         /\ q.out = FlattenSeq(Append(rs, v))
  <2> SUFFICES ASSUME c.m = "flatMap"
               PROVE  /\ Append(rs, v) \in Seq(Seq(Elems \cup Results))
                      /\ q.out = FlattenSeq(Append(rs, v))
    OBVIOUS
  <2>1. /\ v \in Seq(Elems \cup Results) /\ q.out = c.out \o v
        /\ rs \in Seq(Seq(Elems \cup Results)) /\ c.out = FlattenSeq(rs)
    BY <1>1 DEF Collected, Collects
  <2>. QED BY <2>1, FlattenNext
<1>7. c.m \in Folding => q.acc = Append(rs, v)[Len(Append(rs, v))]
  BY <1>2, <1>3 DEF Collects
<1>. QED BY <1>4, <1>5, <1>6, <1>7 DEF Collected, rs


-----------------------------------------------------------------------------
(* The head of a loop. *)

(* A loop that has counted this far is about to look at that element. *)
LEMMA HeadForm ==
  ASSUME NEW c, ArraysInv, Ready(c), OnWay(c), c.start = arrays[c.id]
  PROVE  /\ Dealt(c) \in 0..Len(c.start) /\ Len(c.start) \in Nat
         /\ More(c) <=> Dealt(c) < Len(c.start)
         /\ Dealt(c) < Len(c.start) => Get(arrays[c.id], c.i) = OrderOf(c)[Dealt(c) + 1]
<1> DEFINE n == Len(c.start)
           d == Dealt(c)
<1>1. c.start \in Seq(Elems) /\ n \in Nat /\ c.m \in Up1 \cup Down1 \cup Folding
  BY DEF Ready
<1>2. Len(c.seen) \in Nat
  BY DEF OnWay
<1>3. d \in Nat
  <2>1. SkipOf(c) \in {0, 1}
    BY DEF SkipOf
  <2>. QED BY <1>2, <2>1 DEF Dealt
<1>4. c.n = n /\ d <= n /\ c.i = IF c.m \in CountsDown THEN n - 1 - d ELSE d
  BY DEF OnWay
<1>5. /\ c.m \in CountsDown => (More(c) <=> c.i >= 0)
      /\ c.m \notin CountsDown => (More(c) <=> c.i < n)
  <2>1. "reduce" \notin CountsDown
    BY DEF CountsDown, Down1
  <2>. QED BY <1>4, <2>1 DEF More, CountsDown
<1>6. /\ c.m \in CountsDown => OrderOf(c) = [i \in 1..n |-> c.start[(n - i) + 1]]
      /\ c.m \notin CountsDown => OrderOf(c) = c.start
  BY DEF OrderOf, Reverse
<1> HIDE DEF d
<1>7. CASE c.m \in CountsDown
  <2>1. c.i = n - 1 - d
    BY <1>4, <1>7
  <2>2. ASSUME d < n
        PROVE  Get(arrays[c.id], c.i) = OrderOf(c)[d + 1]
    <3>1. c.i \in 0..(n - 1) /\ c.i + 1 = n - d /\ (n - (d + 1)) + 1 = n - d /\ d + 1 \in 1..n
      BY <1>1, <1>3, <2>1, <2>2
    <3>2. Get(arrays[c.id], c.i) = c.start[n - d]
      BY <3>1 DEF Get
    <3>3. OrderOf(c)[d + 1] = c.start[n - d]
      <4> HIDE DEF n
      <4>. QED BY <1>6, <1>7, <3>1
    <3>. QED BY <3>2, <3>3
  <2>3. More(c) <=> d < n
    <3> HIDE DEF n
    <3>. QED BY <1>1, <1>3, <1>5, <1>7, <2>1
  <2>. QED BY <1>1, <1>3, <1>4, <2>2, <2>3 DEF d
<1>8. CASE c.m \notin CountsDown
  <2>1. c.i = d
    BY <1>4, <1>8
  <2>2. ASSUME d < n
        PROVE  Get(arrays[c.id], c.i) = OrderOf(c)[d + 1]
    <3>1. c.i \in 0..(n - 1)
      BY <1>1, <1>3, <2>1, <2>2
    <3>. QED BY <1>6, <1>8, <2>1, <3>1 DEF Get
  <2>3. More(c) <=> d < n
    BY <1>5, <1>8, <2>1
  <2>. QED BY <1>1, <1>3, <1>4, <2>2, <2>3 DEF d
<1>. QED BY <1>7, <1>8

(* The callback is called: the loop waits where it should. *)
LEMMA VisitedWaits ==
  ASSUME NEW c, ArraysInv, Ready(c), More(c), ~ c.touched => OnWay(c) /\ c.start = arrays[c.id]
  PROVE  LoopFits(Visited(c), arrays)
<1> DEFINE q == Visited(c)
<1>1. c = [f \in CallFields |-> c[f]] /\ c.m \in Up1 \cup Down1 \cup Folding
  BY DEF Ready
<1>2. /\ q.m = c.m /\ q.id = c.id /\ q.i = c.i /\ q.n = c.n /\ q.start = c.start /\ q.out = c.out
      /\ q.acc = c.acc /\ q.init = c.init /\ q.seen = c.seen /\ q.touched = c.touched
      /\ q.item = Get(arrays[c.id], c.i)
  BY <1>1 DEF Visited, CallFields
<1> HIDE DEF q
<1>3. q.m \notin Sorting
  BY <1>1, <1>2 DEF Up1, Down1, Folding, Sorting
<1>4. ASSUME ~ c.touched
      PROVE  Waits(q)
  <2>1. OnWay(c) /\ c.start = arrays[c.id]
    BY <1>4
  <2>2. Dealt(c) < Len(c.start) /\ Get(arrays[c.id], c.i) = OrderOf(c)[Dealt(c) + 1]
    BY <2>1, HeadForm
  <2>3. Answers(q) = Answers(c) /\ OrderOf(q) = OrderOf(c) /\ SkipOf(q) = SkipOf(c)
    BY <1>2 DEF Answers, OrderOf, SkipOf
  <2>4. Dealt(q) = Dealt(c)
    BY <1>2, <2>3 DEF Dealt
  <2>5. OnWay(q)
    BY <1>2, <2>1, <2>3, <2>4 DEF OnWay
  <2>. QED BY <1>2, <2>2, <2>3, <2>4, <2>5 DEF Waits
<1>. QED BY <1>2, <1>3, <1>4 DEF LoopFits, q


-----------------------------------------------------------------------------
(* The end of a loop. *)

(* The answer of a method that ends with v. *)
Outcome(c, v) ==
  [m |-> c.m, start |-> c.start, seen |-> c.seen, acc |-> c.acc,
   init |-> c.init, touched |-> c.touched, value |-> v]

(* Positions that filter() keeps, counted up to one of them. *)
UpTo(K, j) == {x \in K : x <= j}

(* They number as many as were collected by then. *)
LEMMA CountedUp ==
  ASSUME NEW e, NEW m, NEW K, m \in Nat, e \in [1..m -> Nat],
         \A k, l \in 1..m : k < l => e[k] < e[l], K = {e[k] : k \in 1..m}
  PROVE  Cardinality(K) = m /\ \A k \in 1..m : Cardinality(UpTo(K, e[k])) = k
<1>1. \A k, l \in 1..m : e[k] = e[l] => k = l
  <2> TAKE k, l \in 1..m
  <2>1. k < l \/ l < k \/ k = l
    OBVIOUS
  <2>2. e[k] \in Nat /\ e[l] \in Nat
    OBVIOUS
  <2>. QED BY <2>1, <2>2
<1>2. ASSUME NEW k \in 0..m
      PROVE  Cardinality({e[i] : i \in 1..k}) = k
  <2> DEFINE S == 1..k
             T == {e[i] : i \in 1..k}
             f == [i \in 1..k |-> e[i]]
  <2>1. \A i \in 1..k : i \in 1..m
    OBVIOUS
  <2>2. IsFiniteSet(S) /\ Cardinality(S) = k
    BY FS_Interval
  <2>3. f \in [S -> T] /\ (\A a, b \in S : f[a] = f[b] => a = b) /\ \A t \in T : \E s \in S : f[s] = t
    BY <1>1, <2>1
  <2> HIDE DEF f, S, T
  <2>4. f \in Bijection(S, T)
    BY <2>3, Fun_IsBij
  <2>5. ExistsBijection(S, T)
    BY <2>4, Fun_ExistsBij
  <2>6. Cardinality(T) = Cardinality(S)
    BY <2>2, <2>5, FS_Bijection
  <2>. QED BY <2>2, <2>6 DEF T
<1>3. ASSUME NEW k \in 1..m
      PROVE  UpTo(K, e[k]) = {e[i] : i \in 1..k}
  <2>1. \A i \in 1..m : e[i] <= e[k] <=> i \in 1..k
    <3> TAKE i \in 1..m
    <3>1. e[i] \in Nat /\ e[k] \in Nat /\ (i < k \/ i = k \/ k < i)
      OBVIOUS
    <3>2. i < k => e[i] < e[k]
      OBVIOUS
    <3>3. k < i => e[k] < e[i]
      OBVIOUS
    <3>. QED BY <3>1, <3>2, <3>3
  <2>2. \A i \in 1..k : i \in 1..m
    OBVIOUS
  <2>. QED BY <2>1, <2>2 DEF UpTo
<1>4. m \in 0..m /\ \A k \in 1..m : k \in 0..m
  OBVIOUS
<1>. QED BY <1>2, <1>3, <1>4

(* What filter() has kept in the end is what ECMAScript says. *)
LEMMA FilterAnswer ==
  ASSUME NEW s, NEW rs, NEW out, s \in Seq(Elems), rs \in Seq(Range(rs)), Len(rs) = Len(s), Picked(out, s, rs)
  PROVE  out = AnswerOf("filter", s, rs)
<1> DEFINE n == Len(s)
           m == Len(out)
           K == {k \in 1..n : Truthy(rs[k])}
           at(k) == CHOOSE j \in K : Cardinality({x \in K : x <= j}) = k
<1>1. PICK e \in [1..m -> Nat] : Picks(e, out, s, rs)
  BY DEF Picked
<1>2. n \in Nat /\ m \in Nat /\ DOMAIN rs = 1..n /\ out = [k \in 1..m |-> out[k]]
  BY DEF Picked
<1>3. /\ \A k \in 1..m : e[k] \in 1..n /\ Truthy(rs[e[k]]) /\ out[k] = s[e[k]]
      /\ \A k, l \in 1..m : k < l => e[k] < e[l]
      /\ \A j \in 1..n : Truthy(rs[j]) => \E k \in 1..m : e[k] = j
  BY <1>1, <1>2 DEF Picks
<1>4. AnswerOf("filter", s, rs) = [k \in 1..Cardinality(K) |-> s[at(k)]]
  BY DEF AnswerOf
<1> HIDE DEF n, m
<1>5. K = {e[k] : k \in 1..m}
  BY <1>3
<1> HIDE DEF K
<1>6. Cardinality(K) = m /\ \A k \in 1..m : Cardinality(UpTo(K, e[k])) = k
  BY <1>2, <1>3, <1>5, CountedUp
<1>7. ASSUME NEW k \in 1..m
      PROVE  at(k) = e[k]
  <2>1. e[k] \in K /\ Cardinality({x \in K : x <= e[k]}) = k
    BY <1>5, <1>6 DEF UpTo
  <2>2. ASSUME NEW j \in K, Cardinality({x \in K : x <= j}) = k
        PROVE  j = e[k]
    <3>1. PICK l \in 1..m : j = e[l]
      BY <1>5
    <3>2. Cardinality({x \in K : x <= j}) = l
      BY <1>6, <3>1 DEF UpTo
    <3>. QED BY <2>2, <3>1, <3>2
  <2>. QED BY <2>1, <2>2
<1> HIDE DEF at
<1>. QED BY <1>2, <1>3, <1>4, <1>6, <1>7


(* The answers that a loop has had. *)
LEMMA AnswersHad ==
  ASSUME NEW c, c.seen \in Seq(Range(c.seen))
  PROVE  /\ Answers(c) \in Seq(Range(Answers(c))) /\ Len(Answers(c)) = Len(c.seen)
         /\ Len(c.seen) \in Nat /\ DOMAIN Answers(c) = 1..Len(c.seen) /\ DOMAIN c.seen = 1..Len(c.seen)
         /\ \A k \in DOMAIN c.seen : Answers(c)[k] = c.seen[k][2]
<1> DEFINE d == [seen |-> Append(c.seen, <<0, 0>>)]
<1>1. d.seen = Append(c.seen, <<0, 0>>)
  OBVIOUS
<1> HIDE DEF d
<1>2. SeenNext(c, d, 0, 0)
  BY <1>1, AnswersForm
<1>. QED BY <1>2 DEF SeenNext

(* The least of one number. *)
LEMMA MinOfOne ==
  ASSUME NEW x, x \in Int
  PROVE  Min({x}) = x
BY DEF Min

(* What is asked of the answer of a method that is not a sort. *)
Exactly(a) ==
  /\ CallsOf(a.m, Len(a.start), a.init, Answers(a))
  /\ \A k \in DOMAIN Answers(a) : a.seen[k][1] = OrderOf(a)[k + SkipOf(a)]
  /\ a.value = AnswerOf(a.m, a.start, Answers(a))

(* An answer is that of its loop. *)
LEMMA OutcomeForm ==
  ASSUME NEW c, NEW v
  PROVE  /\ Outcome(c, v).m = c.m /\ Outcome(c, v).start = c.start /\ Outcome(c, v).seen = c.seen
         /\ Outcome(c, v).acc = c.acc /\ Outcome(c, v).init = c.init
         /\ Outcome(c, v).touched = c.touched /\ Outcome(c, v).value = v
         /\ Answers(Outcome(c, v)) = Answers(c) /\ OrderOf(Outcome(c, v)) = OrderOf(c)
         /\ SkipOf(Outcome(c, v)) = SkipOf(c)
<1> DEFINE a == Outcome(c, v)
<1>1. /\ a.m = c.m /\ a.start = c.start /\ a.seen = c.seen /\ a.acc = c.acc /\ a.init = c.init
      /\ a.touched = c.touched /\ a.value = v
  BY DEF Outcome
<1> HIDE DEF a
<1>2. Answers(a) = Answers(c) /\ OrderOf(a) = OrderOf(c) /\ SkipOf(a) = SkipOf(c)
  BY <1>1 DEF Answers, OrderOf, SkipOf
<1>. QED BY <1>1, <1>2 DEF a

(* A loop that has been through the array. *)
LEMMA ExhaustedExact ==
  ASSUME NEW c, ArraysInv, Ready(c), OnWay(c), c.start = arrays[c.id], ~ More(c), Len(c.seen) >= 1
  PROVE  Exactly(Outcome(c, Exhausted(c)))
<1> DEFINE n == Len(c.start)
           rs == Answers(c)
           L == Len(c.seen)
           hits == {k \in DOMAIN rs : Truthy(rs[k])}
<1>1. c.start \in Seq(Elems) /\ n \in Nat /\ c.m \in Up1 \cup Down1 \cup Folding
  BY DEF Ready
<1>2. c.seen \in Seq(Range(c.seen))
  BY DEF OnWay
<1>3. /\ rs \in Seq(Range(rs)) /\ Len(rs) = L /\ L \in Nat /\ DOMAIN rs = 1..L
      /\ DOMAIN c.seen = 1..L /\ \A k \in DOMAIN c.seen : rs[k] = c.seen[k][2]
  BY <1>2, AnswersHad
<1>4. L + SkipOf(c) = n
  <2>1. Dealt(c) \in 0..n /\ ~ (Dealt(c) < n)
    BY HeadForm
  <2>2. Dealt(c) = n
    BY <1>1, <2>1
  <2>. QED BY <2>2 DEF Dealt
<1>5. SkipOf(c) = IF c.m \in Folding /\ ~ c.init THEN 1 ELSE 0
  BY DEF SkipOf
<1>6. /\ \A k \in DOMAIN c.seen : c.seen[k][1] = OrderOf(c)[k + SkipOf(c)]
      /\ c.m \in Searches => \A k \in DOMAIN c.seen : ~ Decides(c.m, c.seen[k][2])
      /\ Collected(c.m, c.start, c.out, c.acc, rs)
  BY DEF OnWay
<1>7. Searches \cap Folding = {}
  BY DEF Searches, Folding
<1> HIDE DEF n, rs, L
<1>8. c.m \in Searches => L = n /\ \A k \in 1..L : ~ Decides(c.m, rs[k])
  BY <1>1, <1>3, <1>4, <1>5, <1>6, <1>7
<1>9. CallsOf(c.m, n, c.init, rs)
  <2>1. CASE c.m \in Searches
    <3>1. \A k \in 1..(Len(rs) - 1) : ~ (IF c.m = "every" THEN ~ Truthy(rs[k]) ELSE Truthy(rs[k]))
      BY <1>3, <1>8, <2>1 DEF Decides
    <3>2. Len(rs) = n
      BY <1>3, <1>8, <2>1
    <3>. QED BY <2>1, <3>1, <3>2 DEF CallsOf, Searches
  <2>2. CASE c.m \notin Searches
    <3>1. Len(rs) = IF c.m \in Folding /\ ~ c.init THEN n - 1 ELSE n
      BY <1>1, <1>3, <1>4, <1>5
    <3>. QED BY <2>2, <3>1 DEF CallsOf, Searches
  <2>. QED BY <2>1, <2>2
<1>10. Exhausted(c) = AnswerOf(c.m, c.start, rs)
  <2>1. CASE c.m \in {"map", "from"}
    <3>1. c.out = rs
      BY <1>6, <2>1 DEF Collected
    <3>2. Exhausted(c) = c.out
      BY <2>1 DEF Exhausted, Folding
    <3>3. AnswerOf(c.m, c.start, rs) = rs
      BY <2>1 DEF AnswerOf
    <3>. QED BY <3>1, <3>2, <3>3
  <2>2. CASE c.m = "filter"
    <3>1. Len(rs) = Len(c.start) /\ Picked(c.out, c.start, rs)
      BY <1>1, <1>3, <1>4, <1>5, <1>6, <2>2 DEF Collected, Folding, n
    <3>2. c.out = AnswerOf("filter", c.start, rs)
      BY <1>1, <1>3, <3>1, FilterAnswer
    <3>. QED BY <2>2, <3>2 DEF Exhausted, Folding
  <2>3. CASE c.m = "flatMap"
    <3>1. c.out = FlattenSeq(rs)
      BY <1>6, <2>3 DEF Collected
    <3>2. Exhausted(c) = c.out
      BY <2>3 DEF Exhausted, Folding
    <3>3. AnswerOf(c.m, c.start, rs) = FlattenSeq(rs)
      BY <2>3 DEF AnswerOf
    <3>. QED BY <3>1, <3>2, <3>3
  <2>4. CASE c.m = "forEach"
    <3>1. Exhausted(c) = <<Undefined>>
      BY <2>4 DEF Exhausted, Folding
    <3>2. AnswerOf(c.m, c.start, rs) = <<Undefined>>
      BY <2>4 DEF AnswerOf
    <3>. QED BY <3>1, <3>2
  <2>5. CASE c.m \in {"find", "findIndex", "findLast", "findLastIndex", "some"}
    <3>1. hits = {}
      BY <1>3, <1>8, <2>5 DEF Searches, Decides
    <3>2. c.m \in {"find", "findLast"} => AnswerOf(c.m, c.start, rs) = <<Undefined>>
      BY <3>1 DEF AnswerOf
    <3>3. c.m = "findIndex" => AnswerOf(c.m, c.start, rs) = <<0 - 1>>
      BY <3>1 DEF AnswerOf
    <3>4. c.m = "findLastIndex" => AnswerOf(c.m, c.start, rs) = <<-1>>
      BY <3>1 DEF AnswerOf
    <3>5. c.m = "some" => AnswerOf(c.m, c.start, rs) = <<FALSE>>
      BY <3>1 DEF AnswerOf
    <3>6. <<0 - 1>> = <<-1>>
      OBVIOUS
    <3>7. /\ c.m \in {"find", "findLast"} => Exhausted(c) = <<Undefined>>
          /\ c.m \in {"findIndex", "findLastIndex"} => Exhausted(c) = <<-1>>
          /\ c.m = "some" => Exhausted(c) = <<FALSE>>
      BY DEF Exhausted, Folding
    <3>. QED BY <2>5, <3>2, <3>3, <3>4, <3>5, <3>6, <3>7
  <2>6. CASE c.m = "every"
    <3>1. \A k \in DOMAIN rs : Truthy(rs[k])
      BY <1>3, <1>8, <2>6 DEF Searches, Decides
    <3>2. AnswerOf(c.m, c.start, rs) = <<TRUE>>
      BY <2>6, <3>1 DEF AnswerOf
    <3>3. Exhausted(c) = <<TRUE>>
      BY <2>6 DEF Exhausted, Folding
    <3>. QED BY <3>2, <3>3
  <2>7. CASE c.m \in Folding
    <3>1. rs # <<>>
      BY <1>3 DEF L
    <3>2. c.acc = rs[Len(rs)]
      BY <1>6, <2>7, <3>1 DEF Collected
    <3>3. Exhausted(c) = <<c.acc>>
      BY <2>7 DEF Exhausted, Folding
    <3>4. AnswerOf(c.m, c.start, rs) = <<rs[Len(rs)]>>
      BY <2>7 DEF AnswerOf, Folding
    <3>. QED BY <3>2, <3>3, <3>4
  <2>. QED BY <1>1, <2>1, <2>2, <2>3, <2>4, <2>5, <2>6, <2>7 DEF Up1, Down1
<1>11. \A k \in DOMAIN rs : c.seen[k][1] = OrderOf(c)[k + SkipOf(c)]
  BY <1>3, <1>6
<1>. QED BY <1>9, <1>10, <1>11, OutcomeForm DEF Exactly, n, rs


(* The result of a search that its last answer decides. *)
Decision(c) ==
  CASE c.m \in {"find", "findLast"} -> <<c.item>>
    [] c.m \in {"findIndex", "findLastIndex"} -> <<c.i>>
    [] c.m = "every" -> <<FALSE>>
    [] OTHER -> <<TRUE>>

(* A loop whose callback has answered v. *)
HadAnswer(q, c, v) ==
  /\ q.m = c.m /\ q.id = c.id /\ q.start = c.start /\ q.n = c.n /\ q.init = c.init
  /\ q.touched = c.touched /\ q.seen = Append(c.seen, <<c.item, v>>)

(* Where a search is. *)
LEMMA SearchAt ==
  ASSUME NEW c, CallSound(c), Waits(c), c.m \in Searches
  PROVE  /\ SkipOf(c) = 0 /\ Len(c.seen) \in Nat /\ Len(c.seen) + 1 \in 1..Len(c.start)
         /\ c.m \in Down1 => /\ c.i = Len(c.start) - 1 - Len(c.seen)
                             /\ c.item = c.start[Len(c.start) + 1 - (Len(c.seen) + 1)]
         /\ c.m \notin Down1 => c.i = Len(c.seen) /\ c.item = c.start[Len(c.seen) + 1]
<1> DEFINE n == Len(c.start)
           L == Len(c.seen)
<1>1. n \in Nat
  BY DEF CallSound
<1>2. L \in Nat
  BY DEF Waits, OnWay
<1>3. SkipOf(c) = 0 /\ (c.m \in CountsDown <=> c.m \in Down1)
  BY DEF SkipOf, Folding, Searches, CountsDown
<1>4. Dealt(c) = L
  BY <1>2, <1>3 DEF Dealt
<1>5. /\ L < n /\ c.item = OrderOf(c)[L + 1]
      /\ c.i = IF c.m \in CountsDown THEN n - 1 - L ELSE L
  BY <1>4 DEF Waits, OnWay
<1>6. OrderOf(c) = IF c.m \in Down1 THEN [i \in 1..n |-> c.start[(n - i) + 1]] ELSE c.start
  BY <1>3 DEF OrderOf, Reverse
<1> HIDE DEF n, L
<1>7. L + 1 \in 1..n /\ (n - (L + 1)) + 1 = n + 1 - (L + 1)
  BY <1>1, <1>2, <1>5
<1>8. c.m \in Down1 => c.item = c.start[n + 1 - (L + 1)]
  BY <1>5, <1>6, <1>7
<1>. QED BY <1>2, <1>3, <1>5, <1>6, <1>7, <1>8 DEF n, L

(* A search stops at the answer that decides it, with the element it is for. *)
LEMMA DecidedExact ==
  ASSUME NEW c, NEW q, NEW v, CallSound(c), Waits(c), c.m \in Searches, Decides(c.m, v), HadAnswer(q, c, v)
  PROVE  Exactly(Outcome(q, Decision(c)))
<1> DEFINE n == Len(c.start)
           L == Len(c.seen) + 1
           rs == Answers(q)
           hits == {k \in DOMAIN rs : Truthy(rs[k])}
<1>1. /\ SkipOf(c) = 0 /\ Len(c.seen) \in Nat /\ L \in 1..n /\ n \in Nat
      /\ c.m \in Down1 => c.i = n - 1 - Len(c.seen) /\ c.item = c.start[n + 1 - L]
      /\ c.m \notin Down1 => c.i = Len(c.seen) /\ c.item = c.start[L]
  <2>1. n \in Nat
    BY DEF CallSound
  <2>2. SkipOf(c) = 0 /\ Len(c.seen) \in Nat /\ Len(c.seen) + 1 \in 1..Len(c.start)
    BY SearchAt, Zenon
  <2>3. c.m \in Down1 => /\ c.i = Len(c.start) - 1 - Len(c.seen)
                         /\ c.item = c.start[Len(c.start) + 1 - (Len(c.seen) + 1)]
    BY SearchAt, Zenon
  <2>4. c.m \notin Down1 => c.i = Len(c.seen) /\ c.item = c.start[Len(c.seen) + 1]
    BY SearchAt, Zenon
  <2>. QED BY <2>1, <2>2, <2>3, <2>4
<1>2. SeenNext(c, q, c.item, v)
  <2>1. c.seen \in Seq(Range(c.seen)) /\ q.seen = Append(c.seen, <<c.item, v>>)
    BY DEF Waits, OnWay, HadAnswer
  <2>. QED BY <2>1, AnswersForm
<1>3. q.seen \in Seq(Range(q.seen))
  BY <1>2 DEF SeenNext
<1>4. /\ Len(rs) = L /\ DOMAIN rs = 1..L /\ DOMAIN q.seen = 1..L
      /\ \A k \in 1..L : rs[k] = q.seen[k][2]
  <2>1. Len(q.seen) = L
    BY <1>2 DEF SeenNext
  <2>. QED BY <1>3, <2>1, AnswersHad
<1>5. /\ \A k \in 1..(L - 1) : q.seen[k] = c.seen[k] /\ k \in DOMAIN c.seen
      /\ q.seen[L] = <<c.item, v>>
  BY <1>1, <1>2 DEF SeenNext
<1>6. /\ q.m = c.m /\ q.start = c.start /\ OrderOf(q) = OrderOf(c) /\ SkipOf(q) = 0
  BY <1>1 DEF HadAnswer, OrderOf, SkipOf
<1>7. /\ \A k \in DOMAIN c.seen : c.seen[k][1] = OrderOf(c)[k + 0]
      /\ \A k \in DOMAIN c.seen : ~ Decides(c.m, c.seen[k][2])
      /\ c.item = OrderOf(c)[Len(c.seen) + 1]
  <2>1. Dealt(c) = Len(c.seen)
    BY <1>1 DEF Dealt
  <2>. QED BY <1>1, <2>1 DEF Waits, OnWay
<1> HIDE DEF rs
<1>8. /\ \A k \in 1..(L - 1) : ~ Decides(c.m, rs[k])
      /\ rs[L] = v
  <2>1. \A k \in 1..(L - 1) : k \in 1..L
    BY <1>1
  <2>2. L \in 1..L
    BY <1>1
  <2> HIDE DEF L
  <2>3. rs[L] = v
    BY <1>4, <1>5, <2>2
  <2>4. ASSUME NEW k \in 1..(L - 1)
        PROVE  ~ Decides(c.m, rs[k])
    <3>1. rs[k] = c.seen[k][2] /\ k \in DOMAIN c.seen
      BY <1>4, <1>5, <2>1
    <3>. QED BY <1>7, <3>1, Zenon
  <2>. QED BY <2>3, <2>4
<1>9. \A k \in DOMAIN rs : q.seen[k][1] = OrderOf(q)[k + SkipOf(q)]
  <2> TAKE k \in DOMAIN rs
  <2>1. k \in 1..(L - 1) \/ k = L
    BY <1>1, <1>4
  <2>2. CASE k \in 1..(L - 1)
    BY <1>5, <1>6, <1>7, <2>2
  <2>3. CASE k = L
    <3>1. k + 0 = Len(c.seen) + 1
      BY <1>1, <2>3
    <3>. QED BY <1>5, <1>6, <1>7, <2>3, <3>1
  <2>. QED BY <2>1, <2>2, <2>3
<1> HIDE DEF L, n
<1>10. CallsOf(c.m, n, q.init, rs)
  <2>1. \A k \in 1..(Len(rs) - 1) : ~ (IF c.m = "every" THEN ~ Truthy(rs[k]) ELSE Truthy(rs[k]))
    BY <1>4, <1>8 DEF Decides
  <2>2. IF c.m = "every" THEN ~ Truthy(rs[Len(rs)]) ELSE Truthy(rs[Len(rs)])
    BY <1>4, <1>8 DEF Decides
  <2>. QED BY <2>1, <2>2 DEF CallsOf, Searches
<1>11. c.m # "every" => hits = {L} /\ Min(hits) = L /\ hits # {} /\ L # 0
  <2> SUFFICES ASSUME c.m # "every"
               PROVE  hits = {L} /\ Min(hits) = L /\ hits # {} /\ L # 0
    OBVIOUS
  <2>1. \A k \in 1..L : Truthy(rs[k]) <=> k = L
    <3> TAKE k \in 1..L
    <3>1. k \in 1..(L - 1) \/ k = L
      BY <1>1
    <3>2. k \in 1..(L - 1) => ~ Truthy(rs[k]) /\ k # L
      BY <1>1, <1>8 DEF Decides
    <3>3. Truthy(rs[L])
      BY <1>8 DEF Decides
    <3>. QED BY <3>1, <3>2, <3>3
  <2>2. L \in 1..L /\ L \in Int /\ L # 0
    BY <1>1
  <2>3. hits = {L}
    BY <1>4, <2>1, <2>2
  <2>. QED BY <2>2, <2>3, MinOfOne
<1>12. Decision(c) = AnswerOf(c.m, c.start, rs)
  <2>1. CASE c.m = "every"
    <3>1. ~ (\A k \in DOMAIN rs : Truthy(rs[k]))
      <4>1. L \in DOMAIN rs /\ ~ Truthy(rs[L])
        BY <1>1, <1>4, <1>8, <2>1 DEF Decides
      <4>. QED BY <4>1
    <3>2. AnswerOf(c.m, c.start, rs) = <<FALSE>>
      BY <2>1, <3>1 DEF AnswerOf
    <3>3. Decision(c) = <<FALSE>>
      BY <2>1 DEF Decision
    <3>. QED BY <3>2, <3>3
  <2>2. CASE c.m = "some"
    <3>1. AnswerOf(c.m, c.start, rs) = <<TRUE>>
      BY <1>11, <2>2 DEF AnswerOf
    <3>2. Decision(c) = <<TRUE>>
      BY <2>2 DEF Decision
    <3>. QED BY <3>1, <3>2
  <2>3. CASE c.m = "find"
    <3>1. AnswerOf(c.m, c.start, rs) = <<c.start[L]>>
      BY <1>11, <2>3 DEF AnswerOf
    <3>2. Decision(c) = <<c.item>> /\ c.m \notin Down1
      BY <2>3 DEF Decision, Down1
    <3>. QED BY <1>1, <3>1, <3>2
  <2>4. CASE c.m = "findLast"
    <3>1. AnswerOf(c.m, c.start, rs) = <<c.start[n + 1 - L]>>
      BY <1>11, <2>4 DEF AnswerOf, n
    <3>2. Decision(c) = <<c.item>> /\ c.m \in Down1
      BY <2>4 DEF Decision, Down1
    <3>. QED BY <1>1, <3>1, <3>2
  <2>5. CASE c.m = "findIndex"
    <3>1. AnswerOf(c.m, c.start, rs) = <<L - 1>>
      BY <1>11, <2>5 DEF AnswerOf
    <3>2. Decision(c) = <<c.i>> /\ c.m \notin Down1
      BY <2>5 DEF Decision, Down1
    <3>3. c.i = L - 1
      BY <1>1, <3>2 DEF L
    <3>. QED BY <3>1, <3>2, <3>3
  <2>6. CASE c.m = "findLastIndex"
    <3>1. AnswerOf(c.m, c.start, rs) = <<(n + 1 - L) - 1>>
      BY <1>11, <2>6 DEF AnswerOf, n
    <3>2. Decision(c) = <<c.i>> /\ c.m \in Down1
      BY <2>6 DEF Decision, Down1
    <3>3. c.i = n - 1 - Len(c.seen) /\ n \in Nat /\ Len(c.seen) \in Nat
      BY <1>1, <3>2
    <3>4. (n + 1 - L) - 1 = n - 1 - Len(c.seen)
      BY <3>3 DEF L
    <3>. QED BY <3>1, <3>2, <3>3, <3>4
  <2>. QED BY <2>1, <2>2, <2>3, <2>4, <2>5, <2>6 DEF Searches
<1>. QED BY <1>6, <1>9, <1>10, <1>12, OutcomeForm DEF Exactly, n, rs


-----------------------------------------------------------------------------
(* The stack of loops. *)

LoopsKept == LoopsHold' /\ Exact(answer')

(* The loop on top, and those below it. *)
LEMMA LoopsBelow ==
  ASSUME CallsInv, LoopsHold, calls # <<>>
  PROVE  /\ LoopFits(top, arrays) /\ LoopsFit(Below, arrays)
         /\ Below \in Seq(Range(Below)) /\ top = calls[Len(calls)] /\ Len(calls) \in DOMAIN calls
<1>1. /\ Len(calls) \in Nat \ {0} /\ CallsFit(Below, entries)
  BY TopOfStack
<1>2. CallsFit(calls, entries)
  BY DEF CallsInv
<1>3. /\ DOMAIN calls = 1..Len(calls) /\ Len(calls) \in DOMAIN calls
      /\ DOMAIN Below = 1..(Len(calls) - 1) /\ \A j \in 1..(Len(calls) - 1) : Below[j] = calls[j]
  <2>1. Len(calls) - 1 \in 0..Len(calls)
    BY <1>1
  <2>. QED BY <1>1, <1>2, <2>1, StackForm DEF Below
<1>4. LoopFits(top, arrays)
  BY <1>3 DEF LoopsHold, LoopsFit, top
<1>5. \A j \in DOMAIN Below : j \in DOMAIN calls
  BY <1>1, <1>3
<1>6. LoopsFit(Below, arrays)
  BY <1>3, <1>5 DEF LoopsHold, LoopsFit
<1>7. Below \in Seq(Range(Below))
  BY <1>1 DEF CallsFit
<1>. QED BY <1>3, <1>4, <1>6, <1>7 DEF top

(* One that fits is put on top. *)
LEMMA LoopsPushed ==
  ASSUME NEW cs, NEW c, NEW as, cs \in Seq(Range(cs)), LoopsFit(cs, as), LoopFits(c, as)
  PROVE  LoopsFit(Append(cs, c), as)
<1> DEFINE t == Append(cs, c)
<1>1. Len(cs) \in Nat /\ DOMAIN cs = 1..Len(cs) /\ DOMAIN t = 1..(Len(cs) + 1)
      /\ \A j \in 1..Len(cs) : t[j] = cs[j]
  OBVIOUS
<1>2. t[Len(cs) + 1] = c
  OBVIOUS
<1> HIDE DEF t
<1>3. ASSUME NEW j \in DOMAIN t
      PROVE  LoopFits(t[j], as)
  <2>1. j \in 1..Len(cs) \/ j = Len(cs) + 1
    BY <1>1
  <2>. QED BY <1>1, <1>2, <2>1 DEF LoopsFit
<1>. QED BY <1>3 DEF LoopsFit, t

(* What ends below the others leaves them. *)
LEMMA LoopsEnded ==
  ASSUME CallsInv, LoopsHold, calls # <<>>, arrays' = arrays, NEW q, NEW v, Ends(q, v),
         q.m \notin Sorting, ~ q.touched => Exactly(Outcome(q, v))
  PROVE  LoopsKept
<1>1. calls' = Below /\ answer' = Outcome(q, v)
  BY DEF Ends, Outcome
<1>2. LoopsHold'
  BY <1>1, LoopsBelow DEF LoopsHold
<1>3. Outcome(q, v).m = q.m /\ Outcome(q, v).touched = q.touched
  BY OutcomeForm
<1>4. Exact(Outcome(q, v))
  BY <1>3 DEF Exact, Exactly
<1>. QED BY <1>1, <1>2, <1>4 DEF LoopsKept

(* At the head of a loop: it waits again, or it has been through the array. *)
LEMMA LoopsGoOn ==
  ASSUME CallsInv, ArraysInv, LoopsHold, Exact(answer), calls # <<>>, arrays' = arrays,
         NEW c, Ready(c), GoOn(c),
         ~ c.touched => OnWay(c) /\ c.start = arrays[c.id] /\ Len(c.seen) >= 1
  PROVE  LoopsKept
<1>1. CASE More(c)
  <2>1. calls' = Append(Below, Visited(c)) /\ answer' = answer
    BY <1>1 DEF GoOn
  <2>2. LoopFits(Visited(c), arrays)
    BY <1>1, VisitedWaits
  <2>3. LoopsFit(calls', arrays)
    BY <2>1, <2>2, LoopsBelow, LoopsPushed
  <2>. QED BY <2>1, <2>3 DEF LoopsKept, LoopsHold
<1>2. CASE ~ More(c)
  <2>1. Ends(c, Exhausted(c))
    BY <1>2 DEF GoOn
  <2>2. c.m \notin Sorting
    BY DEF Ready, Up1, Down1, Folding, Sorting
  <2>3. ~ c.touched => Exactly(Outcome(c, Exhausted(c)))
    BY <1>2, ExhaustedExact
  <2>. QED BY <2>1, <2>2, <2>3, LoopsEnded
<1>. QED BY <1>1, <1>2

(* The loop on top, whose callback has answered v, at the next position. *)
NextPlace(c) == IF c.m \in CountsDown THEN Backward(c) ELSE Forward(c)

(* It goes on from there. *)
LEMMA LoopAdvances ==
  ASSUME CallsInv, ArraysInv, LoopsHold, Exact(answer), NEW m \in Up1 \cup Down1 \cup Folding, Returning(m),
         NEW q, NEW v, SameLoop(q, top), HadAnswer(q, top, v), Collects(m, q, top, v),
         m \in Searches => ~ Decides(m, v), GoOn(NextPlace(q))
  PROVE  LoopsKept
<1> DEFINE d == NextPlace(q)
<1>1. calls # <<>> /\ top.m = m /\ arrays' = arrays
  BY DEF Returning
<1>2. CallSound(top) /\ ~ Walking(top)
  BY <1>1, ReturningForm
<1>3. LoopFits(top, arrays)
  BY <1>1, LoopsBelow
<1>4. m \notin Sorting
  BY DEF Up1, Down1, Folding, Sorting
<1>5. q = [f \in CallFields |-> q[f]] /\ q.m = m /\ q.id = top.id /\ q.i = top.i
  BY <1>1 DEF SameLoop
<1>6. /\ d.m = m /\ d.id = q.id /\ d.start = q.start /\ d.n = q.n /\ d.init = q.init /\ d.seen = q.seen
      /\ d.out = q.out /\ d.acc = q.acc /\ d.touched = q.touched
      /\ d.i = IF m \in CountsDown THEN top.i - 1 ELSE top.i + 1
  BY <1>5 DEF NextPlace, Forward, Backward, CallFields
<1>7. Ready(d)
  <2>1. CASE m \in CountsDown
    <3>1. d = Backward(q) /\ top.m \in Down1 \cup {"reduceRight"}
      BY <1>1, <1>5, <2>1 DEF NextPlace, CountsDown
    <3>. QED BY <1>2, <3>1, BackwardReady
  <2>2. CASE m \notin CountsDown
    <3>1. d = Forward(q) /\ top.m \in Up1 \cup {"reduce"}
      BY <1>1, <1>5, <2>2 DEF NextPlace, CountsDown, Folding
    <3>. QED BY <1>2, <3>1, ForwardReady
  <2>. QED BY <2>1, <2>2
<1> HIDE DEF d
<1>8. ASSUME ~ d.touched
      PROVE  OnWay(d) /\ d.start = arrays[d.id] /\ Len(d.seen) >= 1
  <2>1. /\ q.start = top.start /\ q.n = top.n /\ q.init = top.init /\ q.touched = top.touched
        /\ q.id = top.id /\ q.seen = Append(top.seen, <<top.item, v>>)
    BY DEF HadAnswer
  <2>2. Waits(top) /\ top.start = arrays[top.id]
    BY <1>1, <1>2, <1>3, <1>4, <1>6, <1>8, <2>1 DEF LoopFits
  <2>3. Collected(top.m, top.start, d.out, d.acc, Append(Answers(top), v))
    <3>1. Collected(top.m, top.start, q.out, q.acc, Append(Answers(top), v))
      BY <1>1, <1>2, <2>2, CollectedNext
    <3>. QED BY <1>6, <3>1
  <2>4. /\ d.m = top.m /\ d.start = top.start /\ d.n = top.n /\ d.init = top.init
        /\ d.seen = Append(top.seen, <<top.item, v>>)
        /\ d.i = IF top.m \in CountsDown THEN top.i - 1 ELSE top.i + 1
        /\ top.m \in Searches => ~ Decides(top.m, v)
        /\ top.m \notin Sorting
    BY <1>1, <1>4, <1>6, <2>1
  <2>5. OnWay(d) /\ Len(d.seen) >= 1
    BY <1>2, <2>2, <2>3, <2>4, NextOnWay
  <2>. QED BY <1>6, <2>1, <2>2, <2>5
<1>9. GoOn(d)
  BY DEF d
<1>. QED BY <1>1, <1>7, <1>8, <1>9, LoopsGoOn


(* What is noted of the answer of the callback on top. *)
LEMMA NotedHad ==
  ASSUME CallSound(top), NEW r, NEW o
  PROVE  /\ HadAnswer(Noted(r), top, r) /\ Noted(r).out = top.out
         /\ HadAnswer([Noted(r) EXCEPT !.out = o], top, r) /\ [Noted(r) EXCEPT !.out = o].out = o
         /\ HadAnswer([Noted(r) EXCEPT !.acc = o], top, r) /\ [Noted(r) EXCEPT !.acc = o].acc = o
<1> DEFINE q == Noted(r)
<1>1. top = [f \in CallFields |-> top[f]]
  BY DEF CallSound
<1>2. /\ q = [f \in CallFields |-> q[f]]
      /\ q.m = top.m /\ q.id = top.id /\ q.start = top.start /\ q.n = top.n /\ q.init = top.init
      /\ q.touched = top.touched /\ q.seen = Append(top.seen, <<top.item, r>>) /\ q.out = top.out
  BY <1>1 DEF Noted, CallFields
<1> HIDE DEF q
<1>3. HadAnswer(q, top, r)
  BY <1>2 DEF HadAnswer
<1>4. HadAnswer([q EXCEPT !.out = o], top, r) /\ [q EXCEPT !.out = o].out = o
  BY <1>2 DEF HadAnswer, CallFields
<1>5. HadAnswer([q EXCEPT !.acc = o], top, r) /\ [q EXCEPT !.acc = o].acc = o
  BY <1>2 DEF HadAnswer, CallFields
<1>. QED BY <1>2, <1>3, <1>4, <1>5 DEF q

(* A callback of a method that collects has answered. *)
LEMMA CollectingLoop ==
  ASSUME CallsInv, ArraysInv, LoopsHold, Exact(answer), NEW m \in {"map", "from", "filter", "flatMap"},
         Returning(m), NEW v, NEW o, GoOn(Forward([Noted(v) EXCEPT !.out = o])),
         m \in {"map", "from"} => o = Append(top.out, v),
         m = "filter" => o = IF Truthy(v) THEN Append(top.out, top.item) ELSE top.out,
         m = "flatMap" => v \in Seq(Elems \cup Results) /\ o = top.out \o v
  PROVE  LoopsKept
<1> DEFINE q == [Noted(v) EXCEPT !.out = o]
<1>1. top.m = m /\ calls # <<>>
  BY DEF Returning
<1>2. m \in Up1 /\ m \notin CountsDown /\ m \notin Folding /\ m \notin Searches
  BY DEF Up1, Folding, CountsDown, Down1, Searches
<1>3. CallSound(top)
  BY <1>1, <1>2, ReturningForm
<1>4. SameLoop(q, top) /\ HadAnswer(q, top, v) /\ q.out = o
  BY <1>3, NotedHad, NotedSame
<1>5. Collects(m, q, top, v)
  BY <1>2, <1>4 DEF Collects
<1>6. NextPlace(q) = Forward(q)
  BY <1>1, <1>2, <1>4 DEF NextPlace, HadAnswer
<1>7. GoOn(NextPlace(q))
  BY <1>6
<1> HIDE DEF q
<1>. QED BY <1>2, <1>4, <1>5, <1>7, LoopAdvances

(* A callback of a method that folds, or only calls, has answered. *)
LEMMA FoldingLoop ==
  ASSUME CallsInv, ArraysInv, LoopsHold, Exact(answer), NEW m \in Folding \cup {"forEach"},
         Returning(m), NEW r, NEW q, q = IF m = "forEach" THEN Noted(r) ELSE [Noted(r) EXCEPT !.acc = r],
         GoOn(IF m = "reduceRight" THEN Backward(q) ELSE Forward(q))
  PROVE  LoopsKept
<1>1. top.m = m /\ calls # <<>>
  BY DEF Returning
<1>2. /\ m \in Up1 \cup Down1 \cup Folding
      /\ m \notin {"map", "from", "filter", "flatMap"} /\ m \notin Searches
      /\ m \in CountsDown <=> m = "reduceRight"
      /\ m \in Folding <=> m # "forEach"
  BY DEF Up1, Folding, CountsDown, Down1, Searches
<1>3. CallSound(top)
  BY <1>1, <1>2, ReturningForm
<1>4. SameLoop(q, top) /\ HadAnswer(q, top, r) /\ (m # "forEach" => q.acc = r)
  <2>1. CASE m = "forEach"
    BY <1>3, <2>1, NotedHad, NotedSame
  <2>2. CASE m # "forEach"
    BY <1>3, <2>2, NotedHad, NotedSame
  <2>. QED BY <2>1, <2>2
<1>5. Collects(m, q, top, r)
  BY <1>2, <1>4 DEF Collects
<1>6. GoOn(NextPlace(q))
  <2>1. q.m = m
    BY <1>1, <1>4 DEF HadAnswer
  <2>2. NextPlace(q) = IF m = "reduceRight" THEN Backward(q) ELSE Forward(q)
    BY <1>2, <2>1 DEF NextPlace
  <2>. QED BY <2>2
<1>. QED BY <1>2, <1>4, <1>5, <1>6, LoopAdvances

(* A callback of a search has answered. *)
LEMMA SearchingLoop ==
  ASSUME CallsInv, ArraysInv, LoopsHold, Exact(answer), NEW m \in Searches, Returning(m), NEW r, NEW v,
         IF Decides(m, r) THEN Ends(Noted(r), v)
         ELSE GoOn(IF m \in Down1 THEN Backward(Noted(r)) ELSE Forward(Noted(r))),
         v = Decision(top)
  PROVE  LoopsKept
<1> DEFINE q == Noted(r)
<1>1. top.m = m /\ calls # <<>> /\ arrays' = arrays
  BY DEF Returning
<1>2. /\ m \in Up1 \cup Down1 \cup Folding
      /\ m \notin {"map", "from", "filter", "flatMap"} /\ m \notin Folding
      /\ m \in CountsDown <=> m \in Down1
      /\ m \notin Sorting
  BY DEF Up1, Folding, CountsDown, Down1, Searches, Sorting
<1>3. CallSound(top) /\ ~ Walking(top)
  BY <1>1, <1>2, ReturningForm
<1>4. SameLoop(q, top) /\ HadAnswer(q, top, r)
  BY <1>3, NotedHad, NotedSame
<1> HIDE DEF q
<1>5. CASE Decides(m, r)
  <2>1. Ends(q, v)
    BY <1>5 DEF q
  <2>2. q.m = m /\ q.touched = top.touched
    BY <1>1, <1>4 DEF HadAnswer
  <2>3. ASSUME ~ q.touched
        PROVE  Exactly(Outcome(q, v))
    <3>1. Waits(top)
      BY <1>1, <1>2, <1>3, <2>2, <2>3, LoopsBelow DEF LoopFits
    <3>. QED BY <1>1, <1>3, <1>4, <1>5, <3>1, DecidedExact
  <2>. QED BY <1>1, <1>2, <2>1, <2>2, <2>3, LoopsEnded
<1>6. CASE ~ Decides(m, r)
  <2>1. q.m = m
    BY <1>1, <1>4 DEF HadAnswer
  <2>2. NextPlace(q) = IF m \in Down1 THEN Backward(q) ELSE Forward(q)
    BY <1>2, <2>1 DEF NextPlace
  <2>3. GoOn(NextPlace(q))
    BY <1>6, <2>2 DEF q
  <2>4. Collects(m, q, top, r)
    BY <1>2 DEF Collects
  <2>. QED BY <1>2, <1>4, <1>6, <2>3, <2>4, LoopAdvances
<1>. QED BY <1>5, <1>6


(* The callback of a method that collects. *)
LEMMA CollectedLoops ==
  ASSUME CallsInv, ArraysInv, LoopsHold, Exact(answer), ArrayMap \/ ArrayFrom \/ ArrayFilter \/ ArrayFlatMap
  PROVE  LoopsKept
<1>1. PICK m \in {"map", "from", "filter", "flatMap"} :
        /\ Returning(m)
        /\ m = "map" => ArrayMap
        /\ m = "from" => ArrayFrom
        /\ m = "filter" => ArrayFilter
        /\ m = "flatMap" => ArrayFlatMap
  BY DEF ArrayMap, ArrayFrom, ArrayFilter, ArrayFlatMap
<1>2. \A r : Noted(r).out = top.out
  <2>1. CallSound(top)
    BY <1>1, ReturningForm DEF Returning, Up1
  <2>. QED BY <2>1, NotedHad
<1>3. CASE m \in {"map", "from"}
  <2>1. PICK r \in Results : GoOn(Forward([Noted(r) EXCEPT !.out = Append(@, r)]))
    BY <1>1, <1>3 DEF ArrayMap, ArrayFrom
  <2>2. GoOn(Forward([Noted(r) EXCEPT !.out = Append(top.out, r)]))
    BY <1>2, <2>1
  <2>. QED BY <1>1, <1>3, <2>2, CollectingLoop
<1>4. CASE m = "filter"
  <2>1. PICK r \in Results :
          GoOn(Forward([Noted(r) EXCEPT !.out = IF Truthy(r) THEN Append(@, top.item) ELSE @]))
    BY <1>1, <1>4 DEF ArrayFilter
  <2> DEFINE o == IF Truthy(r) THEN Append(top.out, top.item) ELSE top.out
  <2>2. GoOn(Forward([Noted(r) EXCEPT !.out = o]))
    BY <1>2, <2>1
  <2>3. o = IF Truthy(r) THEN Append(top.out, top.item) ELSE top.out
    OBVIOUS
  <2> HIDE DEF o
  <2>. QED BY <1>1, <1>4, <2>2, <2>3, CollectingLoop
<1>5. CASE m = "flatMap"
  <2>1. PICK r \in Results :
          LET vs == IF r \in ArrayIds THEN arrays[r] ELSE <<r>>
          IN GoOn(Forward([Noted(vs) EXCEPT !.out = @ \o vs]))
    BY <1>1, <1>5 DEF ArrayFlatMap
  <2> DEFINE vs == IF r \in ArrayIds THEN arrays[r] ELSE <<r>>
             o == top.out \o vs
  <2>2. GoOn(Forward([Noted(vs) EXCEPT !.out = o]))
    <3>1. GoOn(Forward([Noted(vs) EXCEPT !.out = @ \o vs]))
      BY <2>1
    <3> HIDE DEF vs
    <3>2. Noted(vs).out = top.out
      BY <1>2
    <3>3. [Noted(vs) EXCEPT !.out = @ \o vs] = [Noted(vs) EXCEPT !.out = o]
      BY <3>2
    <3>. QED BY <3>1, <3>3, Zenon
  <2>3. vs \in Seq(Elems \cup Results)
    <3>1. CASE r \in ArrayIds
      <4>1. arrays[r] \in Seq(Elems)
        BY <3>1 DEF ArraysInv
      <4>. QED BY <3>1, <4>1
    <3>2. CASE r \notin ArrayIds
      BY <3>2
    <3>. QED BY <3>1, <3>2
  <2>4. o = top.out \o vs
    OBVIOUS
  <2> HIDE DEF o, vs
  <2>. QED BY <1>1, <1>5, <2>2, <2>3, <2>4, CollectingLoop
<1>. QED BY <1>3, <1>4, <1>5

(* The callback of a method that folds, or of forEach(). *)
LEMMA FoldedLoops ==
  ASSUME CallsInv, ArraysInv, LoopsHold, Exact(answer), ArrayForEach \/ ArrayReduce \/ ArrayReduceRight
  PROVE  LoopsKept
<1>1. CASE ArrayForEach
  <2>1. PICK r \in Results : GoOn(Forward(Noted(r)))
    BY <1>1 DEF ArrayForEach
  <2> DEFINE q == Noted(r)
  <2>2. /\ q = IF "forEach" = "forEach" THEN Noted(r) ELSE [Noted(r) EXCEPT !.acc = r]
        /\ GoOn(IF "forEach" = "reduceRight" THEN Backward(q) ELSE Forward(q))
    BY <2>1
  <2>3. Returning("forEach")
    BY <1>1 DEF ArrayForEach
  <2> HIDE DEF q
  <2>. QED BY <2>2, <2>3, FoldingLoop
<1>2. CASE ArrayReduce
  <2>1. PICK r \in Results : GoOn(Forward([Noted(r) EXCEPT !.acc = r]))
    BY <1>2 DEF ArrayReduce
  <2> DEFINE q == [Noted(r) EXCEPT !.acc = r]
  <2>2. /\ q = IF "reduce" = "forEach" THEN Noted(r) ELSE [Noted(r) EXCEPT !.acc = r]
        /\ GoOn(IF "reduce" = "reduceRight" THEN Backward(q) ELSE Forward(q))
    BY <2>1
  <2>3. Returning("reduce") /\ "reduce" \in Folding \cup {"forEach"}
    BY <1>2 DEF ArrayReduce, Folding
  <2> HIDE DEF q
  <2>. QED BY <2>2, <2>3, FoldingLoop
<1>3. CASE ArrayReduceRight
  <2>1. PICK r \in Results : GoOn(Backward([Noted(r) EXCEPT !.acc = r]))
    BY <1>3 DEF ArrayReduceRight
  <2> DEFINE q == [Noted(r) EXCEPT !.acc = r]
  <2>2. /\ q = IF "reduceRight" = "forEach" THEN Noted(r) ELSE [Noted(r) EXCEPT !.acc = r]
        /\ GoOn(IF "reduceRight" = "reduceRight" THEN Backward(q) ELSE Forward(q))
    BY <2>1
  <2>3. Returning("reduceRight") /\ "reduceRight" \in Folding \cup {"forEach"}
    BY <1>3 DEF ArrayReduceRight, Folding
  <2> HIDE DEF q
  <2>. QED BY <2>2, <2>3, FoldingLoop
<1>. QED BY <1>1, <1>2, <1>3

(* The callback of a search. *)
LEMMA SearchedLoops ==
  ASSUME CallsInv, ArraysInv, LoopsHold, Exact(answer),
         \/ ArrayFind \/ ArrayFindIndex \/ ArrayEvery \/ ArraySome
         \/ ArrayFindLast \/ ArrayFindLastIndex
  PROVE  LoopsKept
<1>1. PICK m \in Searches :
        /\ Returning(m)
        /\ m = "find" => ArrayFind
        /\ m = "findIndex" => ArrayFindIndex
        /\ m = "findLast" => ArrayFindLast
        /\ m = "findLastIndex" => ArrayFindLastIndex
        /\ m = "every" => ArrayEvery
        /\ m = "some" => ArraySome
  BY DEF ArrayFind, ArrayFindIndex, ArrayEvery, ArraySome, ArrayFindLast, ArrayFindLastIndex, Searches
<1>2. top.m = m
  BY <1>1 DEF Returning
<1>3. \E r : IF Decides(m, r) THEN Ends(Noted(r), Decision(top))
             ELSE GoOn(IF m \in Down1 THEN Backward(Noted(r)) ELSE Forward(Noted(r)))
  <2>1. CASE m = "find"
    <3>1. Decision(top) = <<top.item>> /\ m \notin Down1
      BY <1>2, <2>1 DEF Decision, Down1
    <3>2. PICK r : IF Truthy(r) THEN Ends(Noted(r), <<top.item>>) ELSE GoOn(Forward(Noted(r)))
      BY <1>1, <2>1 DEF ArrayFind
    <3>. QED BY <2>1, <3>1, <3>2 DEF Decides
  <2>2. CASE m = "findIndex"
    <3>1. Decision(top) = <<top.i>> /\ m \notin Down1
      BY <1>2, <2>2 DEF Decision, Down1
    <3>2. PICK r : IF Truthy(r) THEN Ends(Noted(r), <<top.i>>) ELSE GoOn(Forward(Noted(r)))
      BY <1>1, <2>2 DEF ArrayFindIndex
    <3>. QED BY <2>2, <3>1, <3>2 DEF Decides
  <2>3. CASE m = "findLast"
    <3>1. Decision(top) = <<top.item>> /\ m \in Down1
      BY <1>2, <2>3 DEF Decision, Down1
    <3>2. PICK r : IF Truthy(r) THEN Ends(Noted(r), <<top.item>>) ELSE GoOn(Backward(Noted(r)))
      BY <1>1, <2>3 DEF ArrayFindLast
    <3>. QED BY <2>3, <3>1, <3>2 DEF Decides
  <2>4. CASE m = "findLastIndex"
    <3>1. Decision(top) = <<top.i>> /\ m \in Down1
      BY <1>2, <2>4 DEF Decision, Down1
    <3>2. PICK r : IF Truthy(r) THEN Ends(Noted(r), <<top.i>>) ELSE GoOn(Backward(Noted(r)))
      BY <1>1, <2>4 DEF ArrayFindLastIndex
    <3>. QED BY <2>4, <3>1, <3>2 DEF Decides
  <2>5. CASE m = "every"
    <3>1. Decision(top) = <<FALSE>> /\ m \notin Down1
      BY <1>2, <2>5 DEF Decision, Down1
    <3>2. PICK r : IF ~ Truthy(r) THEN Ends(Noted(r), <<FALSE>>) ELSE GoOn(Forward(Noted(r)))
      BY <1>1, <2>5 DEF ArrayEvery
    <3>. QED BY <2>5, <3>1, <3>2 DEF Decides
  <2>6. CASE m = "some"
    <3>1. Decision(top) = <<TRUE>> /\ m \notin Down1
      BY <1>2, <2>6 DEF Decision, Down1
    <3>2. PICK r : IF Truthy(r) THEN Ends(Noted(r), <<TRUE>>) ELSE GoOn(Forward(Noted(r)))
      BY <1>1, <2>6 DEF ArraySome
    <3>. QED BY <2>6, <3>1, <3>2 DEF Decides
  <2>. QED BY <2>1, <2>2, <2>3, <2>4, <2>5, <2>6 DEF Searches
<1>4. PICK r : IF Decides(m, r) THEN Ends(Noted(r), Decision(top))
               ELSE GoOn(IF m \in Down1 THEN Backward(Noted(r)) ELSE Forward(Noted(r)))
  BY <1>3
<1>. QED BY <1>1, <1>4, SearchingLoop


-----------------------------------------------------------------------------
(* Loops that begin, and steps that leave them where they are. *)

(* What a loop begins with. *)
LEMMA Fresh ==
  ASSUME ArraysInv, NEW a \in ArrayIds, NEW c, c = [f \in CallFields |-> c[f]],
         c.m \in Up1 \cup Down1 \cup Folding, c.id = a, c.n = Len(arrays[a]), c.start = arrays[a],
         c.seen = <<>>, c.out = <<>>, SkipOf(c) <= Len(arrays[a]),
         c.i = IF c.m \in CountsDown THEN Len(arrays[a]) - 1 - SkipOf(c) ELSE SkipOf(c)
  PROVE  OnWay(c)
<1>1. Len(arrays[a]) \in Nat /\ SkipOf(c) \in {0, 1}
  BY DEF ArraysInv, SkipOf
<1>2. c.seen \in Seq(Range(c.seen)) /\ DOMAIN c.seen = {} /\ Len(c.seen) = 0
  <2>1. <<>> \in Seq(Range(<<>>)) /\ DOMAIN <<>> = {} /\ Len(<<>>) = 0
    OBVIOUS
  <2>. QED BY <2>1
<1>3. Dealt(c) = SkipOf(c)
  BY <1>1, <1>2 DEF Dealt
<1>4. Answers(c) = <<>>
  BY <1>2 DEF Answers
<1>5. Collected(c.m, c.start, c.out, c.acc, Answers(c))
  <2>1. Picked(<<>>, c.start, <<>>)
    <3> DEFINE e == [k \in 1..0 |-> 0]
    <3>1. Len(<<>>) = 0 /\ <<>> \in Seq(Elems) /\ e \in [1..Len(<<>>) -> Nat] /\ Picks(e, <<>>, c.start, <<>>)
      BY DEF Picks
    <3> HIDE DEF e
    <3>. QED BY <3>1 DEF Picked
  <2>2. FlattenSeq(<<>>) = <<>> /\ <<>> \in Seq(Seq(Elems \cup Results))
    BY DEF FlattenSeq
  <2>. QED BY <1>4, <2>1, <2>2 DEF Collected
<1>. QED BY <1>1, <1>2, <1>3, <1>5 DEF OnWay

(* A method begins. *)
LEMMA LoopBegins ==
  ASSUME CallsInv, ArraysInv, LoopsHold, Exact(answer), NEW c, Ready(c), Begins(c), OnWay(c),
         c.start = arrays[c.id]
  PROVE  LoopsKept
<1>1. More(c) /\ calls' = Append(calls, Visited(c)) /\ arrays' = arrays /\ answer' = answer
  BY DEF Begins
<1>2. LoopFits(Visited(c), arrays)
  BY <1>1, VisitedWaits
<1>3. calls \in Seq(Range(calls)) /\ LoopsFit(calls, arrays)
  BY DEF CallsInv, CallsFit, LoopsHold
<1>4. LoopsFit(calls', arrays)
  BY <1>1, <1>2, <1>3, LoopsPushed
<1>. QED BY <1>1, <1>4 DEF LoopsKept, LoopsHold

(* Every method that calls back but the sorts. *)
LEMMA CalledLoops ==
  ASSUME CallsInv, ArraysInv, LoopsHold, Exact(answer), NEW a \in ArrayIds,
         CallUp(a) \/ CallDown(a) \/ CallReduce(a) \/ CallReduceRight(a)
  PROVE  LoopsKept
<1> DEFINE n == Len(arrays[a])
<1>1. n \in Nat
  BY DEF ArraysInv
<1>2. \A m : /\ Call(m, a) = [f \in CallFields |-> Call(m, a)[f]]
             /\ Call(m, a).m = m /\ Call(m, a).id = a /\ Call(m, a).i = 0 /\ Call(m, a).n = n
             /\ Call(m, a).start = arrays[a] /\ Call(m, a).seen = <<>> /\ Call(m, a).out = <<>>
             /\ Call(m, a).init = FALSE
  BY DEF Call, CallFields
<1> HIDE DEF n
<1>3. CASE CallUp(a)
  <2>1. PICK m \in Up1 : Begins(Call(m, a))
    BY <1>3 DEF CallUp
  <2> DEFINE c == Call(m, a)
  <2>2. m \notin Folding /\ m \notin CountsDown /\ Ready(c)
    BY UpReady DEF Up1, Folding, CountsDown, Down1
  <2>3. /\ c = [f \in CallFields |-> c[f]] /\ c.m = m /\ c.id = a /\ c.i = 0 /\ c.n = n
        /\ c.start = arrays[a] /\ c.seen = <<>> /\ c.out = <<>>
    BY <1>2
  <2>4. Begins(c)
    BY <2>1
  <2> HIDE DEF c
  <2>5. SkipOf(c) = 0
    BY <2>2, <2>3 DEF SkipOf
  <2>6. OnWay(c)
    BY <1>1, <2>2, <2>3, <2>5, Fresh DEF n
  <2>. QED BY <2>2, <2>3, <2>4, <2>6, LoopBegins
<1>4. CASE CallDown(a)
  <2>1. PICK m \in Down1 : Begins([Call(m, a) EXCEPT !.i = Len(arrays[a]) - 1])
    BY <1>4 DEF CallDown
  <2> DEFINE c0 == Call(m, a)
             c == [c0 EXCEPT !.i = n - 1]
  <2>2. m \notin Folding /\ m \in CountsDown /\ Ready(c) /\ Begins(c)
    BY <2>1, DownReady DEF Folding, CountsDown, Down1, n
  <2>3. /\ c0 = [f \in CallFields |-> c0[f]] /\ c0.m = m /\ c0.id = a /\ c0.n = n
        /\ c0.start = arrays[a] /\ c0.seen = <<>> /\ c0.out = <<>>
    BY <1>2
  <2> HIDE DEF c0
  <2>4. /\ c = [f \in CallFields |-> c[f]] /\ c.m = m /\ c.id = a /\ c.i = n - 1 /\ c.n = n
        /\ c.start = arrays[a] /\ c.seen = <<>> /\ c.out = <<>>
    BY <2>3 DEF CallFields
  <2> HIDE DEF c
  <2>5. SkipOf(c) = 0
    BY <2>2, <2>4 DEF SkipOf
  <2>6. n - 1 - 0 = n - 1 /\ 0 <= n
    BY <1>1
  <2>7. OnWay(c)
    BY <1>1, <2>2, <2>4, <2>5, <2>6, Fresh DEF n
  <2>. QED BY <2>2, <2>4, <2>7, LoopBegins
<1>5. ASSUME NEW m \in Folding, NEW c, Ready(c), Begins(c),
             \/ /\ c = [Call(m, a) EXCEPT !.init = TRUE, !.i = IF m = "reduce" THEN 0 ELSE n - 1]
             \/ \E v : c = [Call(m, a) EXCEPT !.acc = v, !.i = IF m = "reduce" THEN 1 ELSE n - 2]
      PROVE  LoopsKept
  <2> DEFINE c0 == Call(m, a)
             i1 == IF m = "reduce" THEN 0 ELSE n - 1
             i2 == IF m = "reduce" THEN 1 ELSE n - 2
  <2>1. /\ c0 = [f \in CallFields |-> c0[f]] /\ c0.m = m /\ c0.id = a /\ c0.n = n
        /\ c0.start = arrays[a] /\ c0.seen = <<>> /\ c0.out = <<>> /\ c0.init = FALSE
    BY <1>2
  <2>2. c = [c0 EXCEPT !.init = TRUE, !.i = i1] \/ \E v : c = [c0 EXCEPT !.acc = v, !.i = i2]
    BY <1>5
  <2> HIDE DEF c0, i1, i2
  <2>3. /\ c = [f \in CallFields |-> c[f]] /\ c.m = m /\ c.id = a /\ c.n = n
        /\ c.start = arrays[a] /\ c.seen = <<>> /\ c.out = <<>>
        /\ \/ c.init = TRUE /\ c.i = i1
           \/ c.init = FALSE /\ c.i = i2
    BY <2>1, <2>2 DEF CallFields
  <2>4. More(c)
    BY <1>5 DEF Begins
  <2>5. m \in CountsDown <=> m # "reduce"
    BY DEF Folding, CountsDown, Down1
  <2>6. More(c) => IF m = "reduce" THEN c.i < n ELSE c.i >= 0
    BY <2>3, <2>5 DEF More, CountsDown
  <2>7. SkipOf(c) = IF c.init THEN 0 ELSE 1
    BY <2>3 DEF SkipOf
  <2>8. /\ SkipOf(c) <= n
        /\ c.i = IF c.m \in CountsDown THEN n - 1 - SkipOf(c) ELSE SkipOf(c)
    <3>1. CASE c.init = TRUE /\ c.i = i1
      BY <1>1, <2>3, <2>5, <2>7, <3>1 DEF i1
    <3>2. CASE c.init = FALSE /\ c.i = i2
      BY <1>1, <2>3, <2>4, <2>5, <2>6, <2>7, <3>2 DEF i2
    <3>. QED BY <2>3, <3>1, <3>2
  <2>9. OnWay(c)
    BY <2>3, <2>8, Fresh DEF n
  <2>. QED BY <1>5, <2>3, <2>9, LoopBegins
<1>6. CASE CallReduce(a)
  <2> DEFINE c0 == Call("reduce", a)
             v == Get(arrays[a], 0)
             p == [c0 EXCEPT !.init = TRUE]
             q == [c0 EXCEPT !.acc = v, !.i = 1]
  <2>1. Begins(p) \/ Begins(q)
    BY <1>6 DEF CallReduce
  <2>2. Ready(p) /\ Ready(q) /\ "reduce" \in Folding
    BY UpReady DEF Folding
  <2>3. c0 = [f \in CallFields |-> c0[f]] /\ c0.i = 0
    BY <1>2
  <2> DEFINE i1 == IF "reduce" = "reduce" THEN 0 ELSE n - 1
             i2 == IF "reduce" = "reduce" THEN 1 ELSE n - 2
  <2>4. p = [c0 EXCEPT !.init = TRUE, !.i = i1]
    <3> HIDE DEF c0
    <3>1. i1 = 0
      OBVIOUS
    <3> HIDE DEF i1
    <3>. QED BY <2>3, <3>1 DEF CallFields
  <2>5. q = [c0 EXCEPT !.acc = v, !.i = i2]
    <3>1. i2 = 1
      OBVIOUS
    <3>. QED BY <3>1
  <2> HIDE DEF p, q, v
  <2>6. \/ Begins(p) /\ p = [c0 EXCEPT !.init = TRUE, !.i = i1]
        \/ Begins(q) /\ \E w : q = [c0 EXCEPT !.acc = w, !.i = i2]
    BY <2>1, <2>4, <2>5
  <2>. QED BY <1>5, <2>2, <2>6
<1>7. CASE CallReduceRight(a)
  <2> DEFINE c0 == Call("reduceRight", a)
             v == Get(arrays[a], Len(arrays[a]) - 1)
             p == [c0 EXCEPT !.init = TRUE, !.i = Len(arrays[a]) - 1]
             q == [c0 EXCEPT !.acc = v, !.i = Len(arrays[a]) - 2]
             i1 == IF "reduceRight" = "reduce" THEN 0 ELSE n - 1
             i2 == IF "reduceRight" = "reduce" THEN 1 ELSE n - 2
  <2>1. Begins(p) \/ Begins(q)
    BY <1>7 DEF CallReduceRight
  <2>2. Ready(p) /\ Ready(q) /\ "reduceRight" \in Folding
    BY DownReady DEF Folding
  <2>3. i1 = Len(arrays[a]) - 1 /\ i2 = Len(arrays[a]) - 2
    BY DEF n
  <2>4. p = [c0 EXCEPT !.init = TRUE, !.i = i1] /\ q = [c0 EXCEPT !.acc = v, !.i = i2]
    BY <2>3
  <2> HIDE DEF p, q, v
  <2>5. \/ Begins(p) /\ p = [c0 EXCEPT !.init = TRUE, !.i = i1]
        \/ Begins(q) /\ \E w : q = [c0 EXCEPT !.acc = w, !.i = i2]
    BY <2>1, <2>4
  <2>. QED BY <1>5, <2>2, <2>5
<1>. QED BY <1>3, <1>4, <1>6, <1>7


-----------------------------------------------------------------------------
(* Steps that leave the loops where they are. *)

(* A loop whose array has changed promises nothing. *)
LEMMA LoopMarked ==
  ASSUME NEW c, NEW es, NEW as, NEW bs, CallFits(c, es), LoopFits(c, as)
  PROVE  LoopFits([c EXCEPT !.touched = TRUE], bs)
<1> DEFINE r == [c EXCEPT !.touched = TRUE]
<1>1. CASE Walking(c)
  <2>1. c \in WalkFields("Map.forEach", Maps) \cup WalkFields("Set.forEach", Sets)
    BY <1>1 DEF CallFits, WalkOn
  <2>2. r.m = c.m
    BY <2>1 DEF WalkFields
  <2> HIDE DEF r
  <2>3. Walking(r)
    BY <1>1, <2>2 DEF Walking
  <2>. QED BY <2>3 DEF LoopFits, r
<1>2. CASE ~ Walking(c)
  <2>1. c = [f \in CallFields |-> c[f]]
    BY <1>2 DEF CallFits, CallSound
  <2>2. r.m = c.m /\ r.acc = c.acc /\ r.touched = TRUE
    BY <2>1 DEF CallFields
  <2>3. c.m \in Sorting => c.acc \in Orders
    BY <1>2 DEF LoopFits
  <2> HIDE DEF r
  <2>4. LoopFits(r, bs)
    BY <2>2, <2>3 DEF LoopFits
  <2>. QED BY <2>4 DEF r
<1>. QED BY <1>1, <1>2

(* Nothing is lost by the methods of the other arrays. *)
LEMMA LoopsMarked ==
  ASSUME NEW cs, NEW es, NEW as, NEW bs, NEW d, CallsFit(cs, es), LoopsFit(cs, as),
         \A a \in ArrayIds : a # d => bs[a] = as[a]
  PROVE  LoopsFit([j \in DOMAIN cs |->
                     IF cs[j].id = d THEN [cs[j] EXCEPT !.touched = TRUE] ELSE cs[j]], bs)
<1> DEFINE mark(j) == IF cs[j].id = d THEN [cs[j] EXCEPT !.touched = TRUE] ELSE cs[j]
<1>1. ASSUME NEW j \in DOMAIN cs
      PROVE  LoopFits(mark(j), bs)
  <2>1. CallFits(cs[j], es) /\ LoopFits(cs[j], as)
    BY DEF CallsFit, LoopsFit
  <2>2. CASE cs[j].id = d
    <3>1. LoopFits([cs[j] EXCEPT !.touched = TRUE], bs)
      BY <2>1, LoopMarked
    <3>. QED BY <2>2, <3>1
  <2>3. CASE cs[j].id # d
    <3>1. ~ Walking(cs[j]) => bs[cs[j].id] = as[cs[j].id]
      BY <2>1, <2>3 DEF CallFits, CallSound
    <3>2. LoopFits(cs[j], bs)
      BY <2>1, <3>1 DEF LoopFits
    <3>. QED BY <2>3, <3>2
  <2>. QED BY <2>2, <2>3
<1> HIDE DEF mark
<1>2. LoopsFit([j \in DOMAIN cs |-> mark(j)], bs)
  BY <1>1 DEF LoopsFit
<1>. QED BY <1>2 DEF mark

(* Loops that are left take nothing from those below. *)
LEMMA LoopsLeft ==
  ASSUME NEW cs, NEW es, NEW as, NEW k, CallsFit(cs, es), LoopsFit(cs, as), k \in 0..Len(cs)
  PROVE  LoopsFit(SubSeq(cs, 1, k), as)
<1>1. /\ Len(cs) \in Nat /\ DOMAIN cs = 1..Len(cs)
      /\ DOMAIN SubSeq(cs, 1, k) = 1..k /\ \A j \in 1..k : SubSeq(cs, 1, k)[j] = cs[j]
  BY StackForm
<1>2. \A j \in 1..k : j \in DOMAIN cs
  BY <1>1
<1>. QED BY <1>1, <1>2 DEF LoopsFit

(* A walk goes on top of them, or does not. *)
LEMMA LoopsVisited ==
  ASSUME NEW cs, NEW as, NEW c, cs \in Seq(Range(cs)), LoopsFit(cs, as),
         c \in WalkFields("Map.forEach", Maps) \cup WalkFields("Set.forEach", Sets)
  PROVE  LoopsFit(MapVisit(c, cs), as) /\ LoopsFit(SetVisit(c, cs), as)
<1>1. ASSUME NEW x
      PROVE  LoopsFit(Append(cs, [c EXCEPT !.seen = Append(@, x)]), as)
  <2> DEFINE r == [c EXCEPT !.seen = Append(@, x)]
  <2>1. r.m = c.m /\ Walking(c)
    BY DEF WalkFields, Walking
  <2> HIDE DEF r
  <2>2. LoopFits(r, as)
    BY <2>1 DEF LoopFits, Walking
  <2>3. LoopsFit(Append(cs, r), as)
    BY <2>2, LoopsPushed
  <2>. QED BY <2>3 DEF r
<1>2. LoopsFit(MapVisit(c, cs), as)
  BY <1>1 DEF MapVisit
<1>3. LoopsFit(SetVisit(c, cs), as)
  BY <1>1 DEF SetVisit
<1>. QED BY <1>2, <1>3

(* What the collections go through changes no array. *)
LEMMA CollectionLoops ==
  ASSUME CollInv, CallsInv, LoopsHold, Exact(answer), CollNext, arrays' = arrays, answer' = answer
  PROVE  LoopsKept
<1>1. CallsFit(calls, entries) /\ LoopsFit(calls, arrays) /\ calls \in Seq(Range(calls))
  BY DEF CallsInv, CallsFit, LoopsHold
<1>2. CASE calls' = calls
  BY <1>1, <1>2 DEF LoopsKept, LoopsHold
<1>3. ASSUME NEW d, calls' = Shrunk(d)
      PROVE  LoopsKept
  <2>1. LoopsFit(Shrunk(d), arrays)
    BY <1>1, LoopsMarked DEF Shrunk
  <2>. QED BY <1>3, <2>1 DEF LoopsKept, LoopsHold
<1>4. ASSUME NEW k \in 0..(Len(calls) - 1), calls' = SubSeq(calls, 1, k)
      PROVE  LoopsKept
  <2>1. k \in 0..Len(calls)
    BY <1>1, StackForm
  <2>2. LoopsFit(SubSeq(calls, 1, k), arrays)
    BY <1>1, <2>1, LoopsLeft
  <2>. QED BY <1>4, <2>2 DEF LoopsKept, LoopsHold
<1>5. ASSUME NEW d, \/ d \in Maps /\ MapForEach(d)
                    \/ d \in Sets /\ SetForEach(d)
      PROVE  LoopsKept
  <2>1. Rows(d, entries[d]) /\ Constructed(d)
    BY <1>5 DEF MapForEach, SetForEach, CollInv, Constructed
  <2>2. CASE d \in Maps /\ MapForEach(d)
    <3>1. Walk("Map.forEach", d) \in WalkFields("Map.forEach", Maps)
      BY <2>1, <2>2, WalkBegins
    <3>2. LoopsFit(MapVisit(Walk("Map.forEach", d), calls), arrays)
      BY <1>1, <3>1, LoopsVisited
    <3>. QED BY <2>2, <3>2 DEF MapForEach, LoopsKept, LoopsHold
  <2>3. CASE d \in Sets /\ SetForEach(d)
    <3>1. Walk("Set.forEach", d) \in WalkFields("Set.forEach", Sets)
      BY <2>1, <2>3, WalkBegins
    <3>2. LoopsFit(SetVisit(Walk("Set.forEach", d), calls), arrays)
      BY <1>1, <3>1, LoopsVisited
    <3>. QED BY <2>3, <3>2 DEF SetForEach, LoopsKept, LoopsHold
  <2>. QED BY <1>5, <2>2, <2>3
<1>6. ASSUME MapCallbackReturns \/ SetCallbackReturns
      PROVE  LoopsKept
  <2>1. calls # <<>> /\ Walking(top)
    BY <1>6 DEF MapCallbackReturns, SetCallbackReturns, Walking
  <2>2. WalkOn(top, entries[top.id]) /\ Rows(top.id, entries[top.id]) /\ entries[top.id] # Absent
    BY <2>1, TopWalks
  <2>3. Below \in Seq(Range(Below)) /\ LoopsFit(Below, arrays)
    BY <2>1, LoopsBelow
  <2>4. CASE MapCallbackReturns
    <3>1. top.m = "Map.forEach" /\ calls' = MapVisit([top EXCEPT !.i = @ + 2], Below)
      BY <2>4 DEF MapCallbackReturns
    <3>2. [top EXCEPT !.i = @ + 2] \in WalkFields("Map.forEach", Maps)
      BY <2>2, <3>1, MapNextRow
    <3>3. LoopsFit(MapVisit([top EXCEPT !.i = @ + 2], Below), arrays)
      BY <2>3, <3>2, LoopsVisited
    <3>. QED BY <3>1, <3>3 DEF LoopsKept, LoopsHold
  <2>5. CASE SetCallbackReturns
    <3>1. top.m = "Set.forEach" /\ calls' = SetVisit([top EXCEPT !.i = @ + 1], Below)
      BY <2>5 DEF SetCallbackReturns
    <3>2. [top EXCEPT !.i = @ + 1] \in WalkFields("Set.forEach", Sets)
      BY <2>2, <3>1, SetNextRow
    <3>3. LoopsFit(SetVisit([top EXCEPT !.i = @ + 1], Below), arrays)
      BY <2>3, <3>2, LoopsVisited
    <3>. QED BY <3>1, <3>3 DEF LoopsKept, LoopsHold
  <2>. QED BY <1>6, <2>4, <2>5
<1>7. ASSUME NEW d \in Maps, MapConstructor(d) \/ MapClear(d) \/ MapForEach(d)
      PROVE  LoopsKept
  <2>1. CASE MapConstructor(d)
    BY <1>2, <2>1 DEF MapConstructor
  <2>2. CASE MapClear(d)
    BY <1>3, <2>2 DEF MapClear
  <2>3. CASE MapForEach(d)
    <3>1. d \in Maps /\ MapForEach(d)
      BY <2>3
    <3>. QED BY <1>5, <3>1, Zenon
  <2>. QED BY <1>7, <2>1, <2>2, <2>3, Zenon
<1>8. ASSUME NEW d \in Maps, NEW k \in Keys, MapDelete(d, k) \/ \E v \in Vals : MapSet(d, k, v)
      PROVE  LoopsKept
  BY <1>2, <1>3, <1>8 DEF MapDelete, MapSet
<1>9. ASSUME NEW d \in Sets, SetConstructor(d) \/ SetClear(d) \/ SetForEach(d)
      PROVE  LoopsKept
  BY <1>2, <1>3, <1>5, <1>9 DEF SetConstructor, SetClear
<1>10. ASSUME NEW d \in Sets, NEW k \in Keys, SetDelete(d, k) \/ SetAdd(d, k)
       PROVE  LoopsKept
  BY <1>2, <1>3, <1>10 DEF SetDelete, SetAdd
<1>11. ASSUME NEW w, NewWeak(w)
       PROVE  LoopsKept
  BY <1>2, <1>11 DEF NewWeak
<1>12. ASSUME NEW w, NEW k, WeakMapDelete(w, k) \/ \E v \in Vals : WeakMapSet(w, k, v)
       PROVE  LoopsKept
  BY <1>2, <1>12 DEF WeakMapDelete, WeakMapSet
<1>13. ASSUME NEW w, NEW k, WeakSetDelete(w, k) \/ WeakSetAdd(w, k)
       PROVE  LoopsKept
  BY <1>2, <1>13 DEF WeakSetDelete, WeakSetAdd
<1>14. ASSUME CallbackThrows
       PROVE  LoopsKept
  BY <1>4, <1>14 DEF CallbackThrows
<1>. QED BY <1>6, <1>7, <1>8, <1>9, <1>10, <1>11, <1>12, <1>13, <1>14, Zenon DEF CollNext

(* One array changes: what runs over it is marked. *)
LEMMA BecomesLoops ==
  ASSUME CallsInv, ArraysInv, LoopsHold, Exact(answer), NEW a \in ArrayIds, NEW s, Becomes(a, s)
  PROVE  LoopsKept
<1>1. arrays' = [arrays EXCEPT ![a] = s] /\ calls' = Touched(a) /\ answer' = answer
  BY DEF Becomes
<1>2. \A b \in ArrayIds : b # a => arrays'[b] = arrays[b]
  BY <1>1 DEF ArraysInv
<1>3. CallsFit(calls, entries) /\ LoopsFit(calls, arrays)
  BY DEF CallsInv, LoopsHold
<1>4. LoopsFit(Touched(a), arrays')
  BY <1>2, <1>3, LoopsMarked DEF Touched
<1>. QED BY <1>1, <1>4 DEF LoopsKept, LoopsHold

(* Every operation that changes one array and calls nothing back. *)
LEMMA OperationLoops ==
  ASSUME CallsInv, ArraysInv, LoopsHold, Exact(answer), NEW a \in ArrayIds,
         \/ ArrayPush(a) \/ ArrayPop(a) \/ ArrayShift(a) \/ ArrayUnshift(a) \/ ArrayReverse(a)
         \/ ArrayFill(a) \/ ArrayCopyWithin(a) \/ SetElement(a) \/ SortByString(a)
  PROVE  LoopsKept
<1>1. \E s : Becomes(a, s)
  BY Zenon DEF ArrayPush, ArrayPop, ArrayShift, ArrayUnshift, ArrayReverse, ArrayFill, ArrayCopyWithin,
     SetElement, SortByString
<1>. QED BY <1>1, BecomesLoops

(* sort() and toSorted() begin. *)
LEMMA CallSortLoops ==
  ASSUME CallsInv, ArraysInv, LoopsHold, Exact(answer), NEW a \in ArrayIds, CallSort(a)
  PROVE  LoopsKept
<1>1. PICK m \in Sorting, o \in Orders :
        calls' = Append(calls, [Call(m, a) EXCEPT !.acc = o]) /\ arrays' = arrays /\ answer' = answer
  BY DEF CallSort
<1> DEFINE c == Call(m, a)
           q == [c EXCEPT !.acc = o]
<1>2. c = [f \in CallFields |-> c[f]] /\ c.m = m /\ c.id = a /\ c.start = arrays[a]
  BY CallForm
<1> HIDE DEF c
<1>3. q.m = m /\ q.id = a /\ q.start = arrays[a] /\ q.acc = o
  BY <1>2 DEF CallFields
<1> HIDE DEF q
<1>4. LoopFits(q, arrays)
  BY <1>3 DEF LoopFits
<1>5. calls \in Seq(Range(calls)) /\ LoopsFit(calls, arrays)
  BY DEF CallsInv, CallsFit, LoopsHold
<1>6. LoopsFit(Append(calls, q), arrays)
  BY <1>4, <1>5, LoopsPushed
<1>. QED BY <1>1, <1>6 DEF LoopsKept, LoopsHold, q, c


-----------------------------------------------------------------------------
(* Sorts are stable. *)

(* A comparator for which what is not before each other is of one rank. *)
Ranks(b, S) ==
  \A x, y, z \in S : /\ <<x, y>> \in b => <<y, x>> \notin b
                     /\ <<x, y>> \notin b /\ <<y, z>> \notin b => <<x, z>> \notin b

(* out is the first Len(out) elements of s, in order, those of one rank as they were. *)
Arranges(p, out, s, b) ==
  /\ p \in [1..Len(out) -> 1..Len(out)]
  /\ \A i, j \in 1..Len(out) : i # j => p[i] # p[j]
  /\ \A i \in 1..Len(out) : out[i] = s[p[i]]
  /\ \A i, j \in 1..Len(out) :
       i < j => <<out[j], out[i]>> \notin b /\ (<<out[i], out[j]>> \in b \/ p[i] < p[j])

Arranged(out, s, b) == \E p : Arranges(p, out, s, b)

(* x goes in behind position m of out. *)
InsertedAt(t, out, x, b, m) ==
  /\ m \in 0..Len(out) /\ t \in Seq(Elems) /\ Len(t) = Len(out) + 1
  /\ \A i \in 1..m : t[i] = out[i]
  /\ t[m + 1] = x
  /\ \A i \in (m + 2)..(Len(out) + 1) : t[i] = out[i - 1]
  /\ m > 0 => <<x, out[m]>> \notin b
  /\ \A i \in (m + 1)..Len(out) : <<x, out[i]>> \in b

(* It does so behind the last one it is not before. *)
LEMMA InsertionPoint ==
  ASSUME NEW out, NEW x, NEW b, out \in Seq(Elems), x \in Elems
  PROVE  \E m : InsertedAt(Inserted(out, x, b), out, x, b, m)
<1> DEFINE H == {i \in DOMAIN out : <<x, out[i]>> \notin b}
           n == Len(out)
           m == Max({0} \cup H)
           u == SubSeq(out, 1, m)
           w == SubSeq(out, m + 1, n)
           t == Inserted(out, x, b)
<1>1. n \in Nat /\ H \in SUBSET (1..n) /\ DOMAIN out = 1..n
  OBVIOUS
<1>2. \A i \in 1..n : i \in H <=> <<x, out[i]>> \notin b
  BY <1>1
<1>3. t = (u \o <<x>>) \o w
  BY DEF Inserted
<1>4. t \in Seq(Elems) /\ Len(t) = n + 1
  BY InsertedForm
<1> HIDE DEF H, t
<1>5. m \in 0..n /\ (m > 0 => m \in H) /\ \A i \in H : i <= m
  <2>1. CASE H = {}
    <3>1. 0 \in {0} \cup H /\ {0} \cup H \in SUBSET Int /\ \A j \in {0} \cup H : j <= 0
      BY <2>1
    <3>2. m = 0
      BY <3>1, GreatestIs
    <3>. QED BY <1>1, <2>1, <3>2
  <2>2. CASE H # {}
    <3> DEFINE q == Max(H)
    <3>1. q \in H /\ \A j \in H : j <= q
      BY <1>1, <2>2, GreatestExists
    <3> HIDE DEF q
    <3>2. q \in {0} \cup H /\ {0} \cup H \in SUBSET Int /\ \A j \in {0} \cup H : j <= q
      BY <1>1, <3>1
    <3>3. m = q
      BY <3>2, GreatestIs
    <3> HIDE DEF m
    <3>. QED BY <1>1, <3>1, <3>3
  <2>. QED BY <2>1, <2>2
<1> HIDE DEF m
<1>6. /\ u \in Seq(Elems) /\ Len(u) = m /\ \A i \in 1..m : u[i] = out[i]
      /\ w \in Seq(Elems) /\ Len(w) = n - m /\ \A i \in 1..(n - m) : w[i] = out[m + i]
  <2>1. u \in Seq(Elems) /\ Len(u) = m /\ \A i \in 1..m : u[i] = out[i]
    BY <1>1, <1>5
  <2>2. /\ \A i \in (m + 1)..n : out[i] \in Elems
        /\ m + 1 \in Int /\ n \in Int /\ n - (m + 1) + 1 = n - m
        /\ (IF m + 1 <= n THEN n - (m + 1) + 1 ELSE 0) = n - m
    <3>1. \A i \in 1..n : out[i] \in Elems
      BY <1>1
    <3> HIDE DEF n
    <3>2. \A i \in (m + 1)..n : i \in 1..n
      BY <1>1, <1>5
    <3>3. /\ m + 1 \in Int /\ n \in Int /\ n - (m + 1) + 1 = n - m
          /\ (IF m + 1 <= n THEN n - (m + 1) + 1 ELSE 0) = n - m
      BY <1>1, <1>5
    <3>. QED BY <3>1, <3>2, <3>3
  <2>3. w \in Seq(Elems) /\ Len(w) = n - m
    <3>1. w \in Seq(Elems) /\ Len(w) = IF m + 1 <= n THEN n - (m + 1) + 1 ELSE 0
      <4> HIDE DEF n
      <4>. QED BY <2>2, SubSeqProperties
    <3>. QED BY <2>2, <3>1
  <2>4. \A i \in 1..(n - (m + 1) + 1) : w[i] = out[m + 1 + i - 1]
    <3> HIDE DEF n
    <3>. QED BY <2>2, SubSeqProperties
  <2>5. \A i \in 1..(n - m) : m + 1 + i - 1 = m + i
    BY <1>1, <1>5
  <2> HIDE DEF n, w, u
  <2>6. \A i \in 1..(n - m) : w[i] = out[m + i]
    BY <2>2, <2>4, <2>5
  <2>. QED BY <2>1, <2>3, <2>6
<1>7. <<x>> \in Seq(Elems) /\ Len(<<x>>) = 1 /\ <<x>>[1] = x
  OBVIOUS
<1> HIDE DEF u, w
<1> DEFINE v == u \o <<x>>
<1>8. /\ v \in Seq(Elems) /\ Len(v) = m + 1 /\ \A i \in 1..m : v[i] = u[i]
      /\ v[m + 1] = x
  BY <1>5, <1>6, <1>7, ConcatProperties
<1> HIDE DEF v
<1>9. /\ \A i \in 1..(m + 1) : (v \o w)[i] = v[i]
      /\ \A i \in (m + 2)..(n + 1) : (v \o w)[i] = w[i - (m + 1)]
  <2>1. \A i \in 1..(Len(v) + Len(w)) : (v \o w)[i] = IF i <= Len(v) THEN v[i] ELSE w[i - Len(v)]
    BY <1>6, <1>8, ConcatProperties
  <2>2. Len(v) + Len(w) = n + 1
    BY <1>1, <1>5, <1>6, <1>8
  <2>3. \A i \in 1..(n + 1) : (v \o w)[i] = IF i <= m + 1 THEN v[i] ELSE w[i - (m + 1)]
    BY <1>8, <2>1, <2>2
  <2> DEFINE vw == v \o w
  <2>4. \A i \in 1..(n + 1) : vw[i] = IF i <= m + 1 THEN v[i] ELSE w[i - (m + 1)]
    BY <2>3
  <2> HIDE DEF n, vw
  <2>5. \A i \in 1..(m + 1) : vw[i] = v[i]
    BY <1>1, <1>5, <2>4
  <2>6. \A i \in (m + 2)..(n + 1) : vw[i] = w[i - (m + 1)]
    BY <1>1, <1>5, <2>4
  <2>. QED BY <2>5, <2>6 DEF vw
<1>10. \A i \in 1..m : t[i] = out[i]
  BY <1>3, <1>5, <1>6, <1>8, <1>9 DEF v
<1>11. t[m + 1] = x
  BY <1>3, <1>5, <1>8, <1>9 DEF v
<1>12. ASSUME NEW i \in (m + 2)..(n + 1)
       PROVE  t[i] = out[i - 1]
  <2>1. i - (m + 1) \in 1..(n - m) /\ m + (i - (m + 1)) = i - 1
    BY <1>1, <1>5
  <2>. QED BY <1>3, <1>6, <1>9, <2>1 DEF v
<1>13. m > 0 => <<x, out[m]>> \notin b
  BY <1>1, <1>2, <1>5
<1>14. \A i \in (m + 1)..n : <<x, out[i]>> \in b
  BY <1>1, <1>2, <1>5
<1>15. InsertedAt(t, out, x, b, m)
  BY <1>4, <1>5, <1>10, <1>11, <1>12, <1>13, <1>14 DEF InsertedAt, n
<1>. QED BY <1>15 DEF t

(* t has the k-th element of s beside those of out. *)
OneMore(t, out, s, k, b, m) ==
  /\ k \in 1..Len(s) /\ out \in Seq(Elems) /\ Len(out) = k - 1 /\ Arranged(out, s, b)
  /\ InsertedAt(t, out, s[k], b, m)

(* One more element is put in order. *)
LEMMA OneMoreArranged ==
  ASSUME NEW s, NEW b, NEW k, NEW out, NEW t, NEW m, s \in Seq(Elems), Ranks(b, Elems),
         OneMore(t, out, s, k, b, m)
  PROVE  Arranged(t, s, b) /\ t \in Seq(Elems) /\ Len(t) = k
<1> DEFINE x == s[k]
           from == [i \in 1..k |-> IF i <= m THEN i ELSE i - 1]
<1>1. PICK p : Arranges(p, out, s, b)
  BY DEF Arranged, OneMore
<1>2. /\ k \in Nat /\ k >= 1 /\ Len(s) \in Nat /\ x \in Elems /\ out \in Seq(Elems) /\ Len(out) = k - 1
      /\ InsertedAt(t, out, x, b, m)
  BY DEF OneMore
<1>3. /\ m \in 0..(k - 1) /\ t \in Seq(Elems) /\ Len(t) = k
      /\ \A i \in 1..m : t[i] = out[i]
      /\ t[m + 1] = x
      /\ \A i \in (m + 2)..k : t[i] = out[i - 1]
      /\ m > 0 => <<x, out[m]>> \notin b
      /\ \A i \in (m + 1)..(k - 1) : <<x, out[i]>> \in b
  BY <1>2 DEF InsertedAt
<1>4. /\ p \in [1..(k - 1) -> 1..(k - 1)]
      /\ \A i, j \in 1..(k - 1) : i # j => p[i] # p[j]
      /\ \A i \in 1..(k - 1) : out[i] = s[p[i]]
      /\ \A i, j \in 1..(k - 1) :
           i < j => <<out[j], out[i]>> \notin b /\ (<<out[i], out[j]>> \in b \/ p[i] < p[j])
  BY <1>1, <1>2 DEF Arranges
<1>5. \A i \in 1..(k - 1) : out[i] \in Elems
  BY <1>2
<1> DEFINE q == [i \in 1..k |-> IF i = m + 1 THEN k ELSE p[from[i]]]
<1>6. ASSUME NEW i \in 1..k, i # m + 1
      PROVE  /\ from[i] \in 1..(k - 1) /\ q[i] = p[from[i]] /\ q[i] \in 1..(k - 1)
             /\ t[i] = out[from[i]] /\ (i < m + 1 <=> from[i] <= m)
  <2>1. from[i] \in 1..(k - 1) /\ (i < m + 1 <=> from[i] <= m)
    BY <1>2, <1>3, <1>6
  <2>2. t[i] = out[from[i]]
    <3>1. i \in 1..m \/ i \in (m + 2)..k
      BY <1>2, <1>3, <1>6
    <3>2. i \in (m + 2)..k => ~ (i <= m)
      BY <1>3
    <3>. QED BY <1>3, <3>1, <3>2
  <2>3. q[i] = p[from[i]]
    BY <1>6
  <2> HIDE DEF from, q
  <2>. QED BY <1>4, <2>1, <2>2, <2>3
<1>7. m + 1 \in 1..k /\ q[m + 1] = k
  BY <1>2, <1>3
<1>8. \A i, j \in 1..k : i # m + 1 /\ j # m + 1 =>
        /\ i # j => from[i] # from[j]
        /\ i < j => from[i] < from[j]
  BY <1>2, <1>3
<1> HIDE DEF from, q, x
<1>9. \A i \in 1..k : q[i] \in 1..k
  BY <1>2, <1>6, <1>7
<1>10. q \in [1..k -> 1..k]
  BY <1>9 DEF q
<1>11. ASSUME NEW i \in 1..k, NEW j \in 1..k, i # j
       PROVE  q[i] # q[j]
  <2>1. CASE i = m + 1
    BY <1>2, <1>6, <1>7, <1>11, <2>1
  <2>2. CASE j = m + 1
    BY <1>2, <1>6, <1>7, <1>11, <2>2
  <2>3. CASE i # m + 1 /\ j # m + 1
    <3>1. /\ from[i] \in 1..(k - 1) /\ q[i] = p[from[i]]
          /\ from[j] \in 1..(k - 1) /\ q[j] = p[from[j]]
      BY <1>6, <2>3
    <3>2. from[i] # from[j]
      BY <1>8, <1>11, <2>3
    <3>. QED BY <1>4, <3>1, <3>2
  <2>. QED BY <2>1, <2>2, <2>3
<1>12. ASSUME NEW i \in 1..k
       PROVE  t[i] = s[q[i]]
  <2>1. CASE i = m + 1
    BY <1>3, <1>7, <2>1 DEF x
  <2>2. CASE i # m + 1
    <3>1. from[i] \in 1..(k - 1) /\ q[i] = p[from[i]] /\ t[i] = out[from[i]]
      BY <1>6, <2>2
    <3>. QED BY <1>4, <3>1
  <2>. QED BY <2>1, <2>2
<1>13. ASSUME NEW i \in 1..k, NEW j \in 1..k, i < j
       PROVE  <<t[j], t[i]>> \notin b /\ (<<t[i], t[j]>> \in b \/ q[i] < q[j])
  <2>1. CASE i = m + 1
    <3>1. j # m + 1 /\ ~ (j < m + 1)
      BY <1>2, <1>3, <1>13, <2>1
    <3>2. from[j] \in 1..(k - 1) /\ t[j] = out[from[j]] /\ ~ (from[j] <= m)
      BY <1>6, <3>1
    <3>3. from[j] \in (m + 1)..(k - 1)
      BY <1>2, <1>3, <3>2
    <3>4. <<x, t[j]>> \in b /\ t[j] \in Elems /\ t[i] = x
      BY <1>3, <1>5, <2>1, <3>2, <3>3
    <3>. QED BY <1>2, <3>4 DEF Ranks, x
  <2>2. CASE j = m + 1
    <3>1. i # m + 1 /\ i < m + 1
      BY <1>2, <1>3, <1>13, <2>2
    <3>2. from[i] \in 1..(k - 1) /\ t[i] = out[from[i]] /\ from[i] <= m /\ q[i] \in 1..(k - 1)
      BY <1>6, <3>1
    <3>3. q[i] < q[j]
      BY <1>2, <1>7, <2>2, <3>2
    <3>4. m \in 1..(k - 1) /\ <<x, out[m]>> \notin b
      BY <1>2, <1>3, <3>2
    <3>5. <<x, out[from[i]]>> \notin b
      <4>1. CASE from[i] = m
        BY <3>4, <4>1
      <4>2. CASE from[i] # m
        <5>1. <<out[m], out[from[i]]>> \notin b
          <6>1. from[i] < m
            BY <1>2, <3>2, <3>4, <4>2
          <6>. QED BY <1>4, <3>2, <3>4, <6>1
        <5>2. out[m] \in Elems /\ out[from[i]] \in Elems /\ x \in Elems
          BY <1>2, <1>5, <3>2, <3>4 DEF x
        <5>. QED BY <3>4, <5>1, <5>2 DEF Ranks
      <4>. QED BY <4>1, <4>2
    <3>6. t[j] = x
      BY <1>3, <2>2
    <3>. QED BY <3>2, <3>3, <3>5, <3>6
  <2>3. CASE i # m + 1 /\ j # m + 1
    <3>1. from[i] < from[j]
      BY <1>8, <1>13, <2>3
    <3>2. /\ from[i] \in 1..(k - 1) /\ t[i] = out[from[i]] /\ q[i] = p[from[i]]
          /\ from[j] \in 1..(k - 1) /\ t[j] = out[from[j]] /\ q[j] = p[from[j]]
      BY <1>6, <2>3
    <3>. QED BY <1>4, <3>1, <3>2
  <2>. QED BY <2>1, <2>2, <2>3
<1>14. Arranges(q, t, s, b)
  BY <1>3, <1>10, <1>11, <1>12, <1>13 DEF Arranges
<1>. QED BY <1>3, <1>14 DEF Arranged

(* So the insertion sort arranges all of them. *)
LEMMA SortedArranged ==
  ASSUME NEW s, NEW b, s \in Seq(Elems), Ranks(b, Elems)
  PROVE  Arranged(Sorted(s, b), s, b) /\ Len(Sorted(s, b)) = Len(s)
<1> DEFINE n == Len(s)
<1>1. n \in Nat /\ n \in 0..n /\ \A k \in 1..n : s[k] \in Elems
  OBVIOUS
<1>2. PICK g : SortedRun(g, Elems, s, b)
  BY SortedUnrolled
<1>3. /\ g \in [0..n -> Seq(Elems)] /\ g[0] = <<>> /\ g[n] = Sorted(s, b)
      /\ \A k \in 1..n : g[k] = Inserted(g[k - 1], s[k], b)
  BY <1>2 DEF SortedRun
<1> DEFINE Q(k) == Arranged(g[k], s, b) /\ g[k] \in Seq(Elems) /\ Len(g[k]) = k
           P == {k \in 0..n : Q(k)}
<1>4. 0 \in P
  <2> DEFINE e == [i \in 1..0 |-> 0]
  <2>1. Len(<<>>) = 0 /\ <<>> \in Seq(Elems) /\ e \in [1..0 -> 1..0]
    OBVIOUS
  <2>2. \A i \in 1..0 : FALSE
    OBVIOUS
  <2> HIDE DEF e
  <2>3. Arranges(e, <<>>, s, b)
    BY <2>1, <2>2 DEF Arranges
  <2>. QED BY <1>1, <1>3, <2>1, <2>3 DEF Arranged
<1>5. ASSUME NEW k \in 1..n, k - 1 \in P
      PROVE  k \in P
  <2> DEFINE out == g[k - 1]
             x == s[k]
             t == Inserted(out, x, b)
  <2>1. Arranged(out, s, b) /\ out \in Seq(Elems) /\ Len(out) = k - 1
    BY <1>5
  <2>2. x \in Elems /\ k \in 0..n
    BY <1>1
  <2> HIDE DEF out
  <2>3. PICK m : InsertedAt(t, out, x, b, m)
    BY <2>1, <2>2, InsertionPoint
  <2>4. Arranged(t, s, b) /\ t \in Seq(Elems) /\ Len(t) = k
    <3>1. OneMore(t, out, s, k, b, m)
      BY <2>1, <2>3 DEF OneMore
    <3> HIDE DEF t
    <3>2. Arranged(t, s, b) /\ t \in Seq(Elems) /\ Len(t) = k
      BY <3>1, OneMoreArranged, Zenon
    <3>. QED BY <3>2
  <2>5. g[k] = t
    BY <1>3 DEF out
  <2> HIDE DEF t
  <2>. QED BY <2>2, <2>4, <2>5
<1> HIDE DEF P
<1>6. \A k \in 0..n : k \in P
  BY <1>1, <1>4, <1>5, Rounds
<1>7. Q(n)
  BY <1>1, <1>6 DEF P
<1>. QED BY <1>3, <1>7

(* The comparators rank. *)
LEMMA OrdersRank ==
  ASSUME NEW o \in Orders
  PROVE  /\ \A x, y \in Elems : <<x, y>> \in Before(o) <=> CmpRank(o, x, y)
         /\ Ranks(Before(o), Elems)
<1> DEFINE b == Before(o)
<1>1. DOMAIN Rank = Elems /\ \A x \in Elems : Rank[x] \in Int
  BY ArrayMethodsAssumption
<1>2. ASSUME NEW x \in Elems, NEW y \in Elems
      PROVE  <<x, y>> \in b <=> CmpRank(o, x, y)
  BY <1>1 DEF Before
<1> HIDE DEF b
<1>3. ASSUME NEW x \in Elems, NEW y \in Elems, NEW z \in Elems
      PROVE  /\ CmpRank(o, x, y) => ~ CmpRank(o, y, x)
             /\ ~ CmpRank(o, x, y) /\ ~ CmpRank(o, y, z) => ~ CmpRank(o, x, z)
  <2>1. o = "ascending" \/ o = "descending" \/ o = "equal"
    BY DEF Orders
  <2>2. Rank[x] \in Int /\ Rank[y] \in Int /\ Rank[z] \in Int
    BY <1>1
  <2>3. CASE o = "ascending"
    <3>1. \A u, v : CmpRank(o, u, v) <=> Rank[u] < Rank[v]
      BY <2>3 DEF CmpRank
    <3>. QED BY <2>2, <3>1
  <2>4. CASE o = "descending"
    <3>1. \A u, v : CmpRank(o, u, v) <=> Rank[u] > Rank[v]
      BY <2>4 DEF CmpRank
    <3>. QED BY <2>2, <3>1
  <2>5. CASE o = "equal"
    BY <2>5 DEF CmpRank
  <2>. QED BY <2>1, <2>3, <2>4, <2>5
<1>4. Ranks(b, Elems)
  BY <1>2, <1>3 DEF Ranks
<1>. QED BY <1>2, <1>4 DEF b

(* Sorted by a comparator, the elements are what a stable sort by it makes of them. *)
LEMMA SortedStably ==
  ASSUME NEW s, NEW o \in Orders, s \in Seq(Elems)
  PROVE  SortsStably(s, SortedBy(s, o), Before(o))
<1> DEFINE b == Before(o)
           n == Len(s)
           t == Sorted(s, b)
<1>1. Ranks(b, Elems)
  BY OrdersRank
<1>2. SortedBy(s, o) = t
  BY DEF SortedBy
<1> HIDE DEF b
<1>3. Arranged(t, s, b) /\ Len(t) = n /\ t \in Seq(Elems) /\ n \in Nat
  BY <1>1, SortedArranged, SortedForm
<1> HIDE DEF t
<1>4. PICK p : Arranges(p, t, s, b)
  BY <1>3 DEF Arranged
<1> HIDE DEF n
<1>5. /\ p \in [1..n -> 1..n]
      /\ \A i, j \in 1..n : i # j => p[i] # p[j]
      /\ \A i \in 1..n : t[i] = s[p[i]]
      /\ \A i, j \in 1..n : i < j => <<t[j], t[i]>> \notin b /\ (<<t[i], t[j]>> \in b \/ p[i] < p[j])
  BY <1>3, <1>4 DEF Arranges
<1>6. t = [i \in 1..n |-> s[p[i]]]
  <2>1. t = [i \in 1..n |-> t[i]]
    BY <1>3
  <2>. QED BY <1>5, <2>1
<1>. QED BY <1>2, <1>5, <1>6 DEF SortsStably, n, b

(* Without an undefined, ECMAScript's order is the comparator's. *)
LEMMA SameOrder ==
  ASSUME NEW s, NEW t, NEW o, s \in Seq(Elems), Undefined \notin Range(s), SortsStably(s, t, Before(o))
  PROVE  SortsStably(s, t, UndefinedLast(o))
<1> DEFINE n == Len(s)
           b == Before(o)
           c == UndefinedLast(o)
<1>1. PICK p \in [1..n -> 1..n] :
        /\ \A i, j \in 1..n : i # j => p[i] # p[j]
        /\ t = [i \in 1..n |-> s[p[i]]]
        /\ \A i, j \in 1..n : i < j => <<t[j], t[i]>> \notin b /\ (<<t[i], t[j]>> \in b \/ p[i] < p[j])
  BY DEF SortsStably
<1>2. \A i \in 1..n : t[i] \in Elems /\ t[i] # Undefined
  <2>1. \A k \in 1..n : s[k] \in Elems /\ s[k] \in Range(s)
    BY DEF Range
  <2>. QED BY <1>1, <2>1
<1>3. DOMAIN Rank = Elems
  BY ArrayMethodsAssumption
<1>4. \A x, y \in Elems : x # Undefined /\ y # Undefined => (<<x, y>> \in c <=> <<x, y>> \in b)
  BY <1>3 DEF Before, UndefinedLast
<1> HIDE DEF b, c
<1>5. \A i, j \in 1..n : <<t[i], t[j]>> \in c <=> <<t[i], t[j]>> \in b
  BY <1>2, <1>4
<1>6. \A i, j \in 1..n : i < j => <<t[j], t[i]>> \notin c /\ (<<t[i], t[j]>> \in c \/ p[i] < p[j])
  BY <1>1, <1>5
<1> HIDE DEF n
<1>. QED BY <1>1, <1>6 DEF SortsStably, n, c

(* What sort() and toSorted() make of the elements. *)
LEMMA SortsAreStable ==
  ASSUME NEW s, NEW o \in Orders, s \in Seq(Elems)
  PROVE  SortsBoth(s, SortedBy(s, o), o)
<1>1. SortsStably(s, SortedBy(s, o), Before(o))
  BY SortedStably
<1>2. Undefined \notin Range(s) => SortsStably(s, SortedBy(s, o), UndefinedLast(o))
  BY <1>1, SameOrder
<1>. QED BY <1>1, <1>2 DEF SortsBoth


(* Written over an array as long, a sequence is what the array is. *)
LEMMA WrittenOver ==
  ASSUME NEW s, NEW t, s \in Seq(Elems), t \in Seq(Elems), Len(t) = Len(s)
  PROVE  Puts(s, 0, t) = t
<1> DEFINE n == Len(t)
           e(k) == IF 0 < k /\ k <= 0 + n THEN t[k - 0] ELSE Get(s, k - 1)
<1>1. n \in Nat /\ 0 \in Nat /\ Undefined \in Elems /\ t = [k \in 1..n |-> t[k]]
  BY ArrayMethodsAssumption
<1>2. PutsAll(Elems, s, t, 0)
  BY <1>1, PutsIs
<1>3. (IF n = 0 \/ 0 + n <= Len(s) THEN Len(s) ELSE 0 + n) = n
  BY <1>1
<1>4. Puts(s, 0, t) = [k \in 1..n |-> e(k)]
  BY <1>2, <1>3 DEF PutsAll, PutsTo
<1>5. ASSUME NEW k \in 1..n
      PROVE  e(k) = t[k]
  <2>1. 0 < k /\ k <= 0 + n /\ k - 0 = k
    BY <1>1
  <2>. QED BY <2>1
<1> HIDE DEF n, e
<1>. QED BY <1>1, <1>4, <1>5

(* sort() and toSorted() end. *)
LEMMA SortedLoops ==
  ASSUME CollInv, CallsInv, ArraysInv, LoopsHold, Exact(answer), ArraySort \/ ArrayToSorted
  PROVE  LoopsKept
<1> DEFINE a == top.id
           v == SortedBy(top.start, top.acc)
           t == Touched(a)
<1>1. calls # <<>> /\ top.m \in Sorting
  BY DEF ArraySort, ArrayToSorted, Returning, Sorting
<1>2. CallSound(top) /\ ~ Walking(top)
  BY <1>1, ReturningForm
<1>3. LoopFits(top, arrays) /\ LoopsFit(Below, arrays)
  BY <1>1, LoopsBelow
<1>4. /\ a \in ArrayIds /\ top.start \in Seq(Elems) /\ top.acc \in Orders
      /\ ~ top.touched => top.start = arrays[a]
  BY <1>1, <1>2, <1>3 DEF LoopFits, CallSound
<1>5. SortsBoth(top.start, v, top.acc)
  BY <1>4, SortsAreStable
<1>6. v \in Seq(Elems) /\ Len(v) = Len(top.start)
  BY <1>4, SortedForm DEF SortedBy
<1> HIDE DEF v
<1>7. CASE ArraySort
  <2>1. /\ arrays' = [arrays EXCEPT ![a] = Puts(arrays[a], 0, v)] /\ calls' = Front(t)
        /\ answer' = [m |-> "sort", start |-> top.start, acc |-> top.acc, touched |-> top.touched,
                      value |-> arrays'[a]]
    BY <1>7 DEF ArraySort, v
  <2>2. CallsFit(calls, entries) /\ LoopsFit(calls, arrays)
    BY DEF CallsInv, LoopsHold
  <2>3. \A b \in ArrayIds : b # a => arrays'[b] = arrays[b]
    BY <2>1 DEF ArraysInv
  <2>4. LoopsFit(t, arrays') /\ CallsFit(t, entries)
    <3>1. LoopsFit(t, arrays')
      BY <2>2, <2>3, LoopsMarked DEF Touched
    <3>2. a \notin Maps \cup Sets
      BY <1>4, ArrayMethodsAssumption
    <3>. QED BY <2>2, <3>1, <3>2, StackMarked DEF Touched
  <2>5. Len(t) - 1 \in 0..Len(t)
    <3>1. Len(t) = Len(calls) /\ Len(calls) \in Nat \ {0}
      BY <1>1, <2>2, MarkedLength, TopOfStack DEF Touched
    <3> HIDE DEF t
    <3>. QED BY <3>1
  <2> HIDE DEF t
  <2>6. LoopsFit(calls', arrays')
    BY <2>1, <2>4, <2>5, LoopsLeft DEF Front
  <2>7. ~ top.touched => arrays'[a] = v
    <3>1. arrays'[a] = Puts(arrays[a], 0, v)
      BY <1>4, <2>1 DEF ArraysInv
    <3>. QED BY <1>4, <1>6, <3>1, WrittenOver
  <2>8. Exact(answer')
    <3>1. /\ answer'.m = "sort" /\ answer'.start = top.start /\ answer'.acc = top.acc
          /\ answer'.touched = top.touched /\ answer'.value = arrays'[a]
      BY <2>1
    <3>. QED BY <1>5, <2>7, <3>1 DEF Exact, Sorting
  <2>. QED BY <2>6, <2>8 DEF LoopsKept, LoopsHold
<1>8. CASE ArrayToSorted
  <2>1. /\ arrays' = arrays /\ calls' = Below
        /\ answer' = [m |-> "toSorted", start |-> top.start, acc |-> top.acc, touched |-> FALSE, value |-> v]
    BY <1>8 DEF ArrayToSorted, Returning, v
  <2>2. /\ answer'.m = "toSorted" /\ answer'.start = top.start /\ answer'.acc = top.acc
        /\ answer'.value = v
    BY <2>1
  <2>3. Exact(answer')
    BY <1>5, <2>2 DEF Exact, Sorting
  <2>. QED BY <1>3, <2>1, <2>3 DEF LoopsKept, LoopsHold
<1>. QED BY <1>7, <1>8

(* Every step of the script and of its callbacks. *)
LEMMA LoopsStep ==
  ASSUME LibraryInv, LoopsHold, Exact(answer), Next
  PROVE  LoopsKept
<1>1. CollInv /\ CallsInv /\ ArraysInv
  BY DEF LibraryInv
<1>2. CASE CollNext /\ UNCHANGED <<arrays, answer>>
  BY <1>1, <1>2, CollectionLoops
<1>3. ASSUME NEW a \in ArrayIds,
             \/ ArrayPush(a) \/ ArrayPop(a) \/ ArrayShift(a) \/ ArrayUnshift(a) \/ ArrayReverse(a)
             \/ ArrayFill(a) \/ ArrayCopyWithin(a) \/ SetElement(a) \/ SortByString(a)
      PROVE  LoopsKept
  BY <1>1, <1>3, OperationLoops
<1>4. ASSUME NEW a \in ArrayIds, CallUp(a) \/ CallDown(a) \/ CallReduce(a) \/ CallReduceRight(a)
      PROVE  LoopsKept
  BY <1>1, <1>4, CalledLoops
<1>5. ASSUME NEW a \in ArrayIds, CallSort(a)
      PROVE  LoopsKept
  BY <1>1, <1>5, CallSortLoops
<1>6. ASSUME ArrayMap \/ ArrayFrom \/ ArrayFilter \/ ArrayFlatMap
      PROVE  LoopsKept
  BY <1>1, <1>6, CollectedLoops
<1>7. ASSUME ArrayForEach \/ ArrayReduce \/ ArrayReduceRight
      PROVE  LoopsKept
  BY <1>1, <1>7, FoldedLoops
<1>8. ASSUME \/ ArrayFind \/ ArrayFindIndex \/ ArrayEvery \/ ArraySome
             \/ ArrayFindLast \/ ArrayFindLastIndex
      PROVE  LoopsKept
  BY <1>1, <1>8, SearchedLoops
<1>9. ASSUME ArraySort \/ ArrayToSorted
      PROVE  LoopsKept
  BY <1>1, <1>9, SortedLoops
<1>10. CASE ArrayNext
  BY <1>3, <1>4, <1>5, <1>6, <1>7, <1>8, <1>9, <1>10, Zenon DEF ArrayNext
<1>. QED BY <1>2, <1>10 DEF Next

(* A method of an array that calls back (internal/builtins/array.go) answers
   what ECMAScript says, whatever its callbacks do elsewhere, as long as nobody
   changes the array it runs over: its loop is where the answers it has had put
   it, and has collected what they make. A sort is stable by its comparator, and
   puts the elements in ECMAScript's order when none of them is undefined. *)
THEOREM IterationsHold == Spec => []IterationsExact
<1> DEFINE I == LoopsHold /\ Exact(answer)
<1>1. AllInit => I
  <2> SUFFICES ASSUME AllInit
               PROVE  I
    OBVIOUS
  <2>1. calls = <<>> /\ answer = [m |-> "none"]
    BY DEF AllInit, Init
  <2>2. DOMAIN <<>> = {} /\ answer.m = "none"
    BY <2>1
  <2>. QED BY <2>1, <2>2 DEF LoopsHold, LoopsFit, Exact
<1>2. LibraryInv /\ I /\ [Next]_vars => I'
  <2> SUFFICES ASSUME LibraryInv, I, [Next]_vars
               PROVE  I'
    OBVIOUS
  <2>1. CASE Next
    BY <2>1, LoopsStep DEF LoopsKept
  <2>2. CASE UNCHANGED vars
    <3>1. calls' = calls /\ arrays' = arrays /\ answer' = answer
      BY <2>2 DEF vars, collVars
    <3>. QED BY <3>1 DEF LoopsHold
  <2>. QED BY <2>1, <2>2
<1>3. I => IterationsExact
  BY ExactAnswer
<1>. QED BY <1>1, <1>2, <1>3, LibraryHolds, PTL DEF Spec

-----------------------------------------------------------------------------
(* What the methods that call nothing back do, for arrays of any length. *)

(* A write inside a sequence. *)
Rewritten(u, S, s, i, v) ==
  /\ u \in Seq(S) /\ Len(u) = Len(s)
  /\ \A k \in 1..Len(s) : u[k] = IF k = i + 1 THEN v ELSE s[k]

(* Put() does that, and Get() reads it. *)
LEMMA PutAt ==
  ASSUME NEW S, NEW s, NEW i, NEW v, s \in Seq(S), Undefined \in S, i \in 0..(Len(s) - 1), v \in S
  PROVE  Rewritten(Put(s, i, v), S, s, i, v) /\ Get(s, i) = s[i + 1] /\ s[i + 1] \in S
<1>1. Get(s, i) = s[i + 1] /\ s[i + 1] \in S /\ i \in Nat /\ i < Len(s) /\ Len(s) \in Nat
  BY DEF Get
<1>2. IsPut(Put(s, i, v), S, s, i, v)
  BY <1>1, PutForm
<1>3. Put(s, i, v) \in Seq(S) /\ Len(Put(s, i, v)) = Len(s)
  BY <1>1, <1>2 DEF IsPut
<1>4. ASSUME NEW k \in 1..Len(s)
      PROVE  Put(s, i, v)[k] = IF k = i + 1 THEN v ELSE s[k]
  <2>1. Put(s, i, v)[k] = IF k = i + 1 THEN v ELSE Get(s, k - 1)
    BY <1>2, <1>3 DEF IsPut
  <2>2. k - 1 \in 0..(Len(s) - 1) /\ k - 1 + 1 = k
    BY <1>1
  <2>3. Get(s, k - 1) = s[k]
    BY <2>2 DEF Get
  <2>. QED BY <2>1, <2>3
<1>. QED BY <1>1, <1>3, <1>4 DEF Rewritten

(* shift() moves the others one to the front. *)
LEMMA ShiftedIs ==
  ASSUME NEW S, NEW s, s \in Seq(S), Undefined \in S, s # <<>>
  PROVE  Shifted(s) = Tail(s)
<1> DEFINE n == Len(s)
           e == Len(s) - 1
           ks == Up(1, e)
           d == -1
           N == Len(ks)
<1>1. n \in Nat /\ n >= 1 /\ \A k \in 1..n : s[k] \in S
  OBVIOUS
<1>2. N = n - 1 /\ \A k \in 1..N : ks[k] = k
  <2>1. e \in Int /\ 1 \in Int /\ e - 1 + 1 \in Nat /\ e - 1 + 1 = n - 1
    BY <1>1
  <2> HIDE DEF e
  <2>2. Len(ks) = e - 1 + 1 /\ \A k \in 1..(e - 1 + 1) : ks[k] = 1 + k - 1
    BY <2>1, UpDown
  <2> HIDE DEF ks, n
  <2>3. \A k \in 1..N : 1 + k - 1 = k
    OBVIOUS
  <2>. QED BY <2>1, <2>2, <2>3
<1>3. ks \in Seq(Int)
  BY <1>1, UpDownType
<1>4. Shifted(s) = Truncate(Moves(s, ks, d), n - 1)
  BY DEF Shifted
<1> HIDE DEF ks
<1>5. d \in Int
  OBVIOUS
<1>6. PICK g : MovesRun(g, S, s, ks, d)
  BY <1>3, <1>5, MovesUnrolled
<1>7. /\ g \in [0..N -> Seq(S)] /\ g[0] = s /\ g[N] = Moves(s, ks, d)
      /\ \A k \in 1..N : g[k] = Put(g[k - 1], ks[k] + d, Get(g[k - 1], ks[k]))
  BY <1>6 DEF MovesRun
<1> HIDE DEF n, N
<1> DEFINE Form(t, k) == /\ t \in Seq(S) /\ Len(t) = n
                         /\ \A j \in 1..n : t[j] = IF j <= k THEN s[j + 1] ELSE s[j]
           P == {k \in 0..N : Form(g[k], k)}
<1>8. 0 \in P
  BY <1>1, <1>2, <1>7 DEF n
<1>9. ASSUME NEW k \in 1..N, k - 1 \in P
      PROVE  k \in P
  <2> DEFINE t == g[k - 1]
             i == k - 1
             v == Get(t, k)
  <2>1. t \in Seq(S) /\ Len(t) = n /\ \A j \in 1..n : t[j] = IF j <= k - 1 THEN s[j + 1] ELSE s[j]
    BY <1>9
  <2>2. i \in 0..(Len(t) - 1) /\ k \in 0..(Len(t) - 1) /\ i + 1 = k /\ k + 1 \in 1..n /\ ~ (k + 1 <= k - 1)
    BY <1>1, <1>2, <2>1
  <2>3. g[k] = Put(t, i, v)
    <3>1. ks[k] = k /\ k + d = i
      BY <1>1, <1>2
    <3>. QED BY <1>7, <3>1
  <2>4. v = s[k + 1] /\ v \in S
    <3>1. Get(t, k) = t[k + 1] /\ t[k + 1] = s[k + 1]
      BY <2>1, <2>2 DEF Get
    <3>. QED BY <1>1, <2>2, <3>1
  <2> HIDE DEF t, v, i
  <2>5. Rewritten(Put(t, i, v), S, t, i, v)
    BY <2>1, <2>2, <2>4, PutAt
  <2>6. /\ g[k] \in Seq(S) /\ Len(g[k]) = n
        /\ \A j \in 1..n : g[k][j] = IF j = i + 1 THEN v ELSE t[j]
    BY <2>1, <2>3, <2>5 DEF Rewritten
  <2>7. \A j \in 1..n : g[k][j] = IF j <= k THEN s[j + 1] ELSE s[j]
    <3> TAKE j \in 1..n
    <3>2. k \in Int /\ j \in Int /\ i + 1 = k
      BY <2>2
    <3>3. CASE j = k
      <4>1. g[k][j] = v /\ j <= k
        BY <2>6, <3>2, <3>3
      <4>. QED BY <2>4, <3>3, <4>1
    <3>4. CASE j # k
      <4>1. g[k][j] = t[j] /\ (j <= k <=> j <= k - 1)
        BY <2>6, <3>2, <3>4
      <4>. QED BY <2>1, <4>1
    <3>. QED BY <3>3, <3>4
  <2>8. k \in 0..N
    BY <1>1, <1>2
  <2>. QED BY <2>6, <2>7, <2>8
<1> HIDE DEF P
<1>10. N \in Nat
  BY <1>1, <1>2
<1>11. N \in P
  <2>1. \A k \in 0..N : k \in P
    BY <1>8, <1>9, <1>10, Rounds
  <2>. QED BY <1>10, <2>1
<1> DEFINE t == Moves(s, ks, d)
<1>12. Len(t) = n /\ \A j \in 1..(n - 1) : t[j] = s[j + 1]
  <2>1. Form(g[N], N)
    BY <1>11 DEF P
  <2>. QED BY <1>1, <1>2, <1>7, <2>1
<1> HIDE DEF t
<1>13. Truncate(t, n - 1) = [j \in 1..(n - 1) |-> t[j]]
  BY <1>1, <1>12 DEF Truncate
<1> DEFINE u == Tail(s)
<1>14. u \in Seq(S) /\ Len(u) = n - 1 /\ \A j \in 1..(n - 1) : u[j] = s[j + 1]
  BY HeadTailProperties DEF n
<1> HIDE DEF u
<1>15. u = [j \in 1..(n - 1) |-> u[j]]
  BY <1>14
<1>16. [j \in 1..(n - 1) |-> t[j]] = [j \in 1..(n - 1) |-> u[j]]
  BY <1>12, <1>14
<1>. QED BY <1>4, <1>13, <1>15, <1>16 DEF t, u

(* A part of a sequence. *)
IsPart(u, S, s, a, b) ==
  /\ u \in Seq(S) /\ Len(u) = IF a <= b THEN b - a ELSE 0
  /\ \A k \in 1..Len(u) : u[k] = s[a + k]

(* SubSeq() is one. *)
LEMMA PartIs ==
  ASSUME NEW S, NEW s, NEW a, NEW b, s \in Seq(S), a \in 0..Len(s), b \in 0..Len(s)
  PROVE  IsPart(SubSeq(s, a + 1, b), S, s, a, b)
<1> DEFINE m == a + 1
           u == SubSeq(s, m, b)
<1>1. a \in Nat /\ b \in Nat /\ m \in Int /\ b \in Int /\ \A k \in m..b : s[k] \in S
  OBVIOUS
<1>2. m = a + 1
  OBVIOUS
<1> HIDE DEF m, u
<1>3. /\ SubSeq(s, m, b) \in Seq(S) /\ Len(SubSeq(s, m, b)) = IF m <= b THEN b - m + 1 ELSE 0
      /\ \A k \in 1..(b - m + 1) : SubSeq(s, m, b)[k] = s[m + k - 1]
  BY <1>1, SubSeqProperties
<1>4. /\ u \in Seq(S) /\ Len(u) = IF m <= b THEN b - m + 1 ELSE 0
      /\ \A k \in 1..(b - m + 1) : u[k] = s[m + k - 1]
  BY <1>3 DEF u
<1>5. Len(u) = IF a <= b THEN b - a ELSE 0
  BY <1>1, <1>2, <1>4
<1>6. ASSUME NEW k \in 1..Len(u)
      PROVE  u[k] = s[a + k]
  <2>1. k \in 1..(b - m + 1) /\ m + k - 1 = a + k
    BY <1>1, <1>2, <1>5
  <2>. QED BY <1>4, <2>1
<1>. QED BY <1>4, <1>5, <1>6 DEF IsPart, u, m

(* Sequences with the same elements are the same. *)
LEMMA SameElements ==
  ASSUME NEW S, NEW T, NEW u, NEW t, NEW n, n \in Nat, u \in Seq(S), t \in Seq(T), Len(u) = n, Len(t) = n,
         \A k \in 1..n : u[k] = t[k]
  PROVE  u = t
<1>1. u = [k \in 1..n |-> u[k]] /\ t = [k \in 1..n |-> t[k]]
  OBVIOUS
<1>2. [k \in 1..n |-> u[k]] = [k \in 1..n |-> t[k]]
  OBVIOUS
<1>. QED BY <1>1, <1>2

(* A function on the positions is a sequence. *)
LEMMA OfElements ==
  ASSUME NEW S, NEW e, NEW n, n \in Nat, e = [k \in 1..n |-> e[k]], \A k \in 1..n : e[k] \in S
  PROVE  e \in Seq(S) /\ Len(e) = n
<1>1. e \in [1..n -> S]
  OBVIOUS
<1>. QED BY <1>1

(* pop() takes the last one away. *)
LEMMA PoppedIs ==
  ASSUME NEW S, NEW s, s \in Seq(S), s # <<>>
  PROVE  Popped(s) = Front(s)
<1> DEFINE n == Len(s)
           m == n - 1
           t == [k \in 1..m |-> s[k]]
<1>1. n \in Nat /\ n >= 1 /\ \A k \in 1..n : s[k] \in S
  OBVIOUS
<1>2. m \in 0..n /\ 0 \in 0..n /\ m < n /\ ~ (m < 0) /\ m \in Nat /\ m - 0 = m /\ 0 + 1 = 1 /\ 0 <= m
  BY <1>1
<1>3. Popped(s) = Truncate(s, m) /\ Front(s) = SubSeq(s, 1, m)
  BY DEF Popped, Front
<1> HIDE DEF m
<1>4. Truncate(s, m) = t
  BY <1>2 DEF Truncate
<1>5. IsPart(SubSeq(s, 0 + 1, m), S, s, 0, m)
  BY <1>2, PartIs
<1> DEFINE u == SubSeq(s, 1, m)
<1>6. u \in Seq(S) /\ Len(u) = m /\ \A k \in 1..m : u[k] = s[0 + k]
  BY <1>2, <1>5 DEF IsPart
<1>7. t \in Seq(S) /\ Len(t) = m /\ \A k \in 1..m : t[k] = s[k] /\ 0 + k = k
  BY <1>1, <1>2
<1> HIDE DEF t, u
<1>8. t = u
  <2>1. \A k \in 1..m : t[k] = u[k]
    BY <1>6, <1>7
  <2>. QED BY <1>2, <1>6, <1>7, <2>1, SameElements
<1>. QED BY <1>3, <1>4, <1>8 DEF u

(* unshift() moves the elements to the back, the last one first. *)
MovesBack(t, S, s, n, m) ==
  /\ t \in Seq(S) /\ Len(t) = n + m
  /\ \A j \in (m + 1)..(n + m) : t[j] = s[j - m]

(* Every one arrives. *)
LEMMA MovedBack ==
  ASSUME NEW S, NEW s, NEW n, NEW m, s \in Seq(S), Undefined \in S, n \in Nat, m \in Nat, Len(s) = n + m
  PROVE  MovesBack(Moves(s, Down(n - 1, 0), m), S, s, n, m)
<1> DEFINE e == n - 1
           ks == Down(e, 0)
           N == Len(ks)
<1>1. e \in Int /\ 0 \in Int /\ e - 0 + 1 \in Nat /\ e - 0 + 1 = n /\ m \in Int
  OBVIOUS
<1>2. N = n /\ \A k \in 1..n : ks[k] = e - k + 1
  <2> HIDE DEF e
  <2>1. Len(ks) = e - 0 + 1 /\ \A k \in 1..(e - 0 + 1) : ks[k] = e - k + 1
    <3> DEFINE i == 0
    <3>1. i \in Int /\ e \in Int /\ e - i + 1 \in Nat
      BY <1>1
    <3> HIDE DEF i
    <3>2. Len(Down(e, i)) = e - i + 1 /\ \A k \in 1..(e - i + 1) : Down(e, i)[k] = e - k + 1
      BY <3>1, UpDown
    <3>. QED BY <3>2 DEF i
  <2> HIDE DEF ks
  <2>. QED BY <1>1, <2>1
<1>3. ks \in Seq(Int)
  <2> HIDE DEF e
  <2>. QED BY <1>1, UpDownType
<1> HIDE DEF ks
<1>4. PICK g : MovesRun(g, S, s, ks, m)
  BY <1>1, <1>3, MovesUnrolled
<1>5. /\ g \in [0..N -> Seq(S)] /\ g[0] = s /\ g[N] = Moves(s, ks, m)
      /\ \A k \in 1..N : g[k] = Put(g[k - 1], ks[k] + m, Get(g[k - 1], ks[k]))
  BY <1>4 DEF MovesRun
<1> HIDE DEF N
<1> DEFINE Form(t, k) == /\ t \in Seq(S) /\ Len(t) = n + m
                         /\ \A j \in 1..(n + m) : t[j] = IF j > n + m - k THEN s[j - m] ELSE s[j]
           P == {k \in 0..n : Form(g[k], k)}
<1>6. \A j \in 1..(n + m) : s[j] \in S
  OBVIOUS
<1>7. 0 \in P
  BY <1>5
<1>8. ASSUME NEW k \in 1..n, k - 1 \in P
      PROVE  k \in P
  <2> DEFINE t == g[k - 1]
             i == n + m - k
             at == n - k
             v == Get(t, at)
  <2>1. /\ t \in Seq(S) /\ Len(t) = n + m
        /\ \A j \in 1..(n + m) : t[j] = IF j > n + m - (k - 1) THEN s[j - m] ELSE s[j]
    BY <1>8
  <2>2. /\ i \in 0..(Len(t) - 1) /\ at \in 0..(Len(t) - 1) /\ at + 1 \in 1..(n + m)
        /\ ~ (at + 1 > n + m - (k - 1)) /\ i + 1 - m = at + 1 /\ i \in Int
        /\ i + 1 = n + m - k + 1
    BY <2>1
  <2>3. g[k] = Put(t, i, v)
    <3>1. k \in 1..N /\ ks[k] = at /\ ks[k] + m = i
      BY <1>2
    <3>. QED BY <1>5, <3>1
  <2>4. v = s[at + 1] /\ v \in S
    <3>1. Get(t, at) = t[at + 1] /\ t[at + 1] = s[at + 1]
      BY <2>1, <2>2 DEF Get
    <3>. QED BY <1>6, <2>2, <3>1
  <2> HIDE DEF t, v, i, at
  <2>5. Rewritten(Put(t, i, v), S, t, i, v)
    BY <2>1, <2>2, <2>4, PutAt
  <2>6. /\ g[k] \in Seq(S) /\ Len(g[k]) = n + m
        /\ \A j \in 1..(n + m) : g[k][j] = IF j = i + 1 THEN v ELSE t[j]
    BY <2>1, <2>3, <2>5 DEF Rewritten
  <2>7. \A j \in 1..(n + m) : g[k][j] = IF j > n + m - k THEN s[j - m] ELSE s[j]
    <3> TAKE j \in 1..(n + m)
    <3>1. CASE j = i + 1
      <4>1. g[k][j] = v /\ j > n + m - k /\ j - m = at + 1
        BY <2>2, <2>6, <3>1
      <4>. QED BY <2>4, <4>1
    <3>2. CASE j # i + 1
      <4>1. g[k][j] = t[j]
        BY <2>6, <3>2
      <4>2. j > n + m - k <=> j > n + m - (k - 1)
        BY <2>2, <3>2
      <4>. QED BY <2>1, <4>1, <4>2
    <3>. QED BY <3>1, <3>2
  <2>8. k \in 0..n
    OBVIOUS
  <2>. QED BY <2>6, <2>7, <2>8
<1> HIDE DEF P
<1>9. n \in P
  <2>1. \A k \in 0..n : k \in P
    BY <1>7, <1>8, Rounds
  <2>. QED BY <2>1
<1>10. Form(g[n], n)
  BY <1>9 DEF P
<1> DEFINE t == Moves(s, ks, m)
<1>11. t = g[n]
  BY <1>2, <1>5
<1> HIDE DEF t
<1>12. t \in Seq(S) /\ Len(t) = n + m /\ \A j \in (m + 1)..(n + m) : t[j] = s[j - m]
  BY <1>10, <1>11
<1>. QED BY <1>12 DEF t, ks, MovesBack

(* The new ones are written before them. *)
LEMMA UnshiftedIs ==
  ASSUME NEW S, NEW s, NEW vs, s \in Seq(S), vs \in Seq(S), Undefined \in S
  PROVE  Unshifted(s, vs) = vs \o s
<1> DEFINE n == Len(s)
           m == Len(vs)
           pad == [k \in 1..m |-> Undefined]
           w == s \o pad
<1>1. n \in Nat /\ m \in Nat /\ n + m \in Nat
  OBVIOUS
<1>2. pad \in Seq(S) /\ Len(pad) = m
  BY <1>1
<1> HIDE DEF pad
<1>3. w \in Seq(S) /\ Len(w) = n + m /\ \A i \in 1..(n + m) : w[i] = IF i <= n THEN s[i] ELSE pad[i - n]
  <2> HIDE DEF w
  <2>1. /\ s \o pad \in Seq(S) /\ Len(s \o pad) = Len(s) + Len(pad)
        /\ \A i \in 1..(Len(s) + Len(pad)) : (s \o pad)[i] = IF i <= Len(s) THEN s[i] ELSE pad[i - Len(s)]
    BY <1>2, ConcatProperties
  <2>. QED BY <1>2, <2>1 DEF w
<1> HIDE DEF w
<1> DEFINE t == Moves(w, Down(n - 1, 0), m)
<1>4. Unshifted(s, vs) = Puts(t, 0, vs)
  BY DEF Unshifted, w, pad
<1>9. vs \o s \in Seq(S) /\ Len(vs \o s) = n + m
      /\ \A k \in 1..(n + m) : (vs \o s)[k] = IF k <= m THEN vs[k] ELSE s[k - m]
  <2>1. /\ vs \o s \in Seq(S) /\ Len(vs \o s) = m + n
        /\ \A i \in 1..(m + n) : (vs \o s)[i] = IF i <= m THEN vs[i] ELSE s[i - m]
    BY ConcatProperties
  <2>2. m + n = n + m
    BY <1>1
  <2>. QED BY <2>1, <2>2
<1> DEFINE r == vs \o s
<1> HIDE DEF n, m, r
<1>5. /\ t \in Seq(S) /\ Len(t) = n + m
      /\ \A j \in (m + 1)..(n + m) : t[j] = w[j - m]
  <2>1. MovesBack(Moves(w, Down(n - 1, 0), m), S, w, n, m)
    BY <1>1, <1>3, MovedBack
  <2>. QED BY <2>1 DEF MovesBack
<1> HIDE DEF t
<1>6. PutsAll(S, t, vs, 0)
  BY <1>5, PutsIs
<1> DEFINE e(k) == IF 0 < k /\ k <= 0 + m THEN vs[k - 0] ELSE Get(t, k - 1)
<1>7. Puts(t, 0, vs) = [k \in 1..(n + m) |-> e(k)]
  <2>1. (IF m = 0 \/ 0 + m <= Len(t) THEN Len(t) ELSE 0 + m) = n + m
    BY <1>1, <1>5
  <2>. QED BY <1>6, <2>1 DEF PutsAll, PutsTo, m
<1>8. ASSUME NEW k \in 1..(n + m)
      PROVE  e(k) = r[k]
  <2>1. CASE k <= m
    <3>1. 0 < k /\ k <= 0 + m /\ k - 0 = k
      BY <1>1, <2>1
    <3>. QED BY <1>9, <2>1, <3>1 DEF r
  <2>2. CASE ~ (k <= m)
    <3>1. k - 1 \in 0..(Len(t) - 1) /\ k - 1 + 1 = k /\ k \in (m + 1)..(n + m) /\ ~ (k <= 0 + m)
          /\ k - m \in 1..(n + m) /\ k - m <= n
      BY <1>1, <1>5, <2>2
    <3>2. e(k) = t[k]
      BY <3>1 DEF Get
    <3>3. t[k] = s[k - m]
      BY <1>3, <1>5, <3>1
    <3>. QED BY <1>9, <2>2, <3>2, <3>3 DEF r
  <2>. QED BY <2>1, <2>2
<1>10. r = [k \in 1..(n + m) |-> r[k]]
  <2>1. r \in Seq(S) /\ Len(r) = n + m
    BY <1>9 DEF r
  <2>. QED BY <2>1
<1> HIDE DEF e
<1>11. [k \in 1..(n + m) |-> e(k)] = [k \in 1..(n + m) |-> r[k]]
  BY <1>8
<1>. QED BY <1>4, <1>7, <1>10, <1>11 DEF r

(* reverse() has swapped k elements at both ends. *)
LEMMA ReversedIs ==
  ASSUME NEW S, NEW s, s \in Seq(S), Undefined \in S
  PROVE  Reversed(s) = Reverse(s)
<1> DEFINE n == Len(s)
           N == n \div 2
<1>1. n \in Nat /\ N \in Nat /\ 2 * N <= n /\ n <= 2 * N + 1 /\ \A j \in 1..n : s[j] \in S
  OBVIOUS
<1>2. PICK g : ReversedRun(g, S, s)
  BY ReversedUnrolled
<1>3. /\ g \in [0..N -> Seq(S)] /\ g[0] = s /\ g[N] = Reversed(s)
      /\ \A k \in 1..N : g[k] = Put(Put(g[k - 1], k - 1, Get(g[k - 1], n - 1 - (k - 1))),
                                    n - 1 - (k - 1), Get(g[k - 1], k - 1))
  BY <1>2 DEF ReversedRun
<1>4. s \in Seq(S) /\ Len(s) = n /\ Reverse(s) = [j \in 1..n |-> s[(n - j) + 1]]
  BY DEF Reverse
<1> HIDE DEF n, N
<1> DEFINE Form(t, k) == /\ t \in Seq(S) /\ Len(t) = n
                         /\ \A j \in 1..n : t[j] = IF j <= k \/ j > n - k THEN s[(n - j) + 1] ELSE s[j]
           P == {k \in 0..N : Form(g[k], k)}
<1>5. 0 \in P
  BY <1>1, <1>3, <1>4
<1>6. ASSUME NEW k \in 1..N, k - 1 \in P
      PROVE  k \in P
  <2> DEFINE t == g[k - 1]
             i == k - 1
             l == n - 1 - (k - 1)
             x == Get(t, l)
             y == Get(t, i)
             u == Put(t, i, x)
  <2>1. /\ t \in Seq(S) /\ Len(t) = n
        /\ \A j \in 1..n : t[j] = IF j <= k - 1 \/ j > n - (k - 1) THEN s[(n - j) + 1] ELSE s[j]
    BY <1>6
  <2>2. /\ i \in 0..(n - 1) /\ l \in 0..(n - 1) /\ i + 1 = k /\ l + 1 = n - k + 1
        /\ k \in 1..n /\ n - k + 1 \in 1..n
        /\ k # n - k + 1 /\ i \in Int /\ l \in Int
        /\ ~ (k <= k - 1) /\ ~ (k > n - (k - 1)) /\ ~ (n - k + 1 <= k - 1) /\ ~ (n - k + 1 > n - (k - 1))
    BY <1>1
  <2>3. g[k] = Put(u, l, y)
    BY <1>3
  <2> HIDE DEF t, i, l
  <2>4. x = s[n - k + 1] /\ y = s[k] /\ x \in S /\ y \in S
    <3>1. Get(t, l) = t[n - k + 1] /\ Get(t, i) = t[k]
      BY <2>1, <2>2 DEF Get
    <3>2. t[n - k + 1] = s[n - k + 1] /\ t[k] = s[k]
      BY <2>1, <2>2
    <3>. QED BY <1>1, <2>2, <3>1, <3>2
  <2> HIDE DEF x, y
  <2>5. Rewritten(Put(t, i, x), S, t, i, x)
    BY <2>1, <2>2, <2>4, PutAt
  <2>6. u \in Seq(S) /\ Len(u) = n /\ \A j \in 1..n : u[j] = IF j = k THEN x ELSE t[j]
    BY <2>1, <2>2, <2>5 DEF Rewritten
  <2> HIDE DEF u
  <2>7. Rewritten(Put(u, l, y), S, u, l, y)
    BY <2>2, <2>4, <2>6, PutAt
  <2>8. g[k] \in Seq(S) /\ Len(g[k]) = n /\ \A j \in 1..n : g[k][j] = IF j = n - k + 1 THEN y ELSE u[j]
    BY <2>2, <2>3, <2>6, <2>7 DEF Rewritten
  <2>9. \A j \in 1..n : g[k][j] = IF j <= k \/ j > n - k THEN s[(n - j) + 1] ELSE s[j]
    <3> TAKE j \in 1..n
    <3>1. CASE j = n - k + 1
      <4>1. g[k][j] = s[k] /\ j > n - k /\ (n - j) + 1 = k
        BY <1>1, <2>4, <2>8, <3>1
      <4>. QED BY <4>1
    <3>2. CASE j = k
      <4>1. g[k][j] = s[n - k + 1] /\ j <= k /\ (n - j) + 1 = n - k + 1
        BY <1>1, <2>2, <2>4, <2>6, <2>8, <3>2
      <4>. QED BY <4>1
    <3>3. CASE j # k /\ j # n - k + 1
      <4>1. g[k][j] = t[j]
        BY <2>6, <2>8, <3>3
      <4>2. (j <= k \/ j > n - k) <=> (j <= k - 1 \/ j > n - (k - 1))
        BY <1>1, <3>3
      <4>. QED BY <2>1, <4>1, <4>2
    <3>. QED BY <3>1, <3>2, <3>3
  <2>10. k \in 0..N
    BY <1>1
  <2>. QED BY <2>8, <2>9, <2>10
<1> HIDE DEF P
<1>7. N \in P
  <2>1. \A k \in 0..N : k \in P
    BY <1>1, <1>5, <1>6, Rounds
  <2>. QED BY <1>1, <2>1
<1>8. Form(g[N], N)
  BY <1>7 DEF P
<1> DEFINE t == Reversed(s)
<1>9. /\ t \in Seq(S) /\ Len(t) = n
      /\ \A j \in 1..n : t[j] = IF j <= N \/ j > n - N THEN s[(n - j) + 1] ELSE s[j]
  BY <1>3, <1>8
<1> HIDE DEF t
<1>10. ASSUME NEW j \in 1..n
       PROVE  t[j] = s[(n - j) + 1]
  <2>1. CASE j <= N \/ j > n - N
    BY <1>9, <2>1
  <2>2. CASE ~ (j <= N \/ j > n - N)
    <3>1. (n - j) + 1 = j
      BY <1>1, <2>2
    <3>. QED BY <1>9, <2>2, <3>1
  <2>. QED BY <2>1, <2>2
<1>11. t = [j \in 1..n |-> t[j]]
  BY <1>9
<1>12. [j \in 1..n |-> t[j]] = [j \in 1..n |-> s[(n - j) + 1]]
  BY <1>10
<1>. QED BY <1>4, <1>11, <1>12 DEF t

(* The positions of a loop, none when the end is behind the beginning. *)
Counting(u, i, m, up) ==
  /\ u \in Seq(Int) /\ Len(u) = m /\ DOMAIN u = 1..m
  /\ \A k \in 1..m : u[k] = IF up THEN i + k - 1 ELSE i - k + 1

(* As many as there are from i to e. *)
LEMMA CountingIs ==
  ASSUME NEW i, NEW e, NEW m, i \in Int, e \in Int, m = IF i <= e THEN e - i + 1 ELSE 0
  PROVE  Counting(Up(i, e), i, m, TRUE) /\ Counting(Down(e, i), e, m, FALSE)
<1>1. m \in Nat /\ 1..(e - i + 1) = 1..m
  OBVIOUS
<1>2. Up(i, e) = [k \in 1..m |-> i + k - 1] /\ Down(e, i) = [k \in 1..m |-> e - k + 1]
  BY <1>1 DEF Up, Down
<1> DEFINE u == [k \in 1..m |-> i + k - 1]
           d == [k \in 1..m |-> e - k + 1]
<1>3. u \in Seq(Int) /\ Len(u) = m /\ DOMAIN u = 1..m /\ \A k \in 1..m : u[k] = i + k - 1
  BY <1>1
<1>4. d \in Seq(Int) /\ Len(d) = m /\ DOMAIN d = 1..m /\ \A k \in 1..m : d[k] = e - k + 1
  BY <1>1
<1> HIDE DEF u, d
<1>5. Up(i, e) = u /\ Down(e, i) = d
  BY <1>2 DEF u, d
<1>. QED BY <1>3, <1>4, <1>5 DEF Counting

(* The greater of two numbers. *)
LEMMA MaxOfTwo ==
  ASSUME NEW a, NEW b, a \in Int, b \in Int
  PROVE  Max({a, b}) = IF a >= b THEN a ELSE b
<1> DEFINE m == IF a >= b THEN a ELSE b
<1>1. m \in {a, b} /\ {a, b} \in SUBSET Int /\ \A j \in {a, b} : j <= m
  OBVIOUS
<1> HIDE DEF m
<1>2. Max({a, b}) = m
  BY <1>1, GreatestIs
<1>. QED BY <1>2 DEF m

(* The ends of a range, as ECMAScript computes them. *)
RangeStart(i, n) == IF i = Undefined THEN 0 ELSE InRange(i, n)

(* They are those of the code. *)
LEMMA RangeEnds ==
  ASSUME NEW i, NEW n, i \in Int \cup {Undefined}, n \in Nat
  PROVE  /\ StartOf(i, n) = RangeStart(i, n) /\ EndOf(i, n) = InRange(i, n)
         /\ RangeStart(i, n) \in 0..n /\ InRange(i, n) \in 0..n
         /\ i # Undefined => ClampIndex(i, n) = InRange(i, n)
<1>1. CASE i = Undefined
  BY <1>1 DEF StartOf, EndOf, RangeStart, InRange
<1>2. CASE i # Undefined /\ i \in Int /\ i < 0
  <2>1. Max({n + i, 0}) = IF n + i >= 0 THEN n + i ELSE 0
    BY <1>2, MaxOfTwo
  <2>2. ClampIndex(i, n) = InRange(i, n)
    BY <1>2, <2>1 DEF ClampIndex, InRange
  <2>. QED BY <1>2, <2>2, Clamped DEF StartOf, EndOf, RangeStart
<1>3. CASE i # Undefined /\ i \in Int /\ ~ (i < 0)
  <2>1. Min({i, n}) = IF i <= n THEN i ELSE n
    BY <1>3, MinOfTwo
  <2>2. ClampIndex(i, n) = InRange(i, n)
    BY <1>3, <2>1 DEF ClampIndex, InRange
  <2>. QED BY <1>3, <2>2, Clamped DEF StartOf, EndOf, RangeStart
<1>. QED BY <1>1, <1>2, <1>3

(* fill() writes the range, and nothing beside it. *)
LEMMA FilledIs ==
  ASSUME NEW S, NEW s, NEW v, NEW i, NEW j, s \in Seq(S), v \in S, Undefined \in S,
         i \in Int \cup {Undefined}, j \in Int \cup {Undefined}
  PROVE  Filled(s, v, i, j) =
           [k \in 1..Len(s) |-> IF RangeStart(i, Len(s)) < k /\ k <= InRange(j, Len(s)) THEN v ELSE s[k]]
<1> DEFINE n == Len(s)
           from == RangeStart(i, n)
           to == InRange(j, n)
           e == to - 1
           m == IF from <= e THEN e - from + 1 ELSE 0
           is == Up(from, e)
<1>1. n \in Nat /\ \A k \in 1..n : s[k] \in S
  OBVIOUS
<1>2. from \in 0..n /\ to \in 0..n /\ StartOf(i, n) = from /\ EndOf(j, n) = to
  <2> HIDE DEF n
  <2>. QED BY <1>1, RangeEnds
<1>3. PICK g : FilledRun(g, S, s, v, i, j)
  BY <1>1, <1>2, FilledUnrolled
<1>4. /\ g \in [0..Len(is) -> Seq(S)] /\ g[0] = s /\ g[Len(is)] = Filled(s, v, i, j)
      /\ \A k \in 1..Len(is) : g[k] = Put(g[k - 1], is[k], v)
  <2>1. Up(StartOf(i, Len(s)), EndOf(j, Len(s)) - 1) = is
    BY <1>2
  <2> HIDE DEF is
  <2>. QED BY <1>3, <2>1 DEF FilledRun
<1> HIDE DEF from, to
<1>5. m \in Nat /\ from \in Int /\ e \in Int /\ (m = 0 \/ from + m = to) /\ (m = 0 => to <= from) /\ m <= n
  BY <1>1, <1>2
<1>6. Len(is) = m /\ \A k \in 1..m : is[k] = from + k - 1
  <2> HIDE DEF e
  <2>1. m = IF from <= e THEN e - from + 1 ELSE 0
    OBVIOUS
  <2> HIDE DEF m
  <2>2. Counting(Up(from, e), from, m, TRUE)
    BY <1>5, <2>1, CountingIs
  <2>. QED BY <2>2 DEF Counting
<1>7. Len(s) = n
  OBVIOUS
<1> HIDE DEF n, e, m, is
<1> DEFINE Form(t, k) == /\ t \in Seq(S) /\ Len(t) = n
                         /\ \A l \in 1..n : t[l] = IF from < l /\ l <= from + k THEN v ELSE s[l]
           P == {k \in 0..m : Form(g[k], k)}
<1>8. 0 \in P
  BY <1>1, <1>2, <1>4, <1>5, <1>7
<1>9. ASSUME NEW k \in 1..m, k - 1 \in P
      PROVE  k \in P
  <2> DEFINE t == g[k - 1]
             p == from + k - 1
  <2>1. /\ t \in Seq(S) /\ Len(t) = n
        /\ \A l \in 1..n : t[l] = IF from < l /\ l <= from + (k - 1) THEN v ELSE s[l]
    BY <1>9
  <2>2. p \in 0..(n - 1) /\ p + 1 = from + k /\ k \in 0..m
    BY <1>1, <1>2, <1>5
  <2>3. g[k] = Put(t, p, v)
    BY <1>4, <1>6
  <2> HIDE DEF t, p
  <2>4. Rewritten(Put(t, p, v), S, t, p, v)
    BY <2>1, <2>2, PutAt
  <2>5. g[k] \in Seq(S) /\ Len(g[k]) = n /\ \A l \in 1..n : g[k][l] = IF l = from + k THEN v ELSE t[l]
    BY <2>1, <2>2, <2>3, <2>4 DEF Rewritten
  <2>6. \A l \in 1..n : g[k][l] = IF from < l /\ l <= from + k THEN v ELSE s[l]
    <3> TAKE l \in 1..n
    <3>1. CASE l = from + k
      <4>1. from < l /\ l <= from + k
        BY <1>5, <3>1
      <4>. QED BY <2>5, <3>1, <4>1
    <3>2. CASE l # from + k
      <4>1. l <= from + k <=> l <= from + (k - 1)
        BY <1>5, <3>2
      <4>. QED BY <2>1, <2>5, <3>2, <4>1
    <3>. QED BY <3>1, <3>2
  <2>. QED BY <2>2, <2>5, <2>6
<1> HIDE DEF P
<1>10. m \in P
  <2>1. \A k \in 0..m : k \in P
    BY <1>5, <1>8, <1>9, Rounds
  <2>. QED BY <1>5, <2>1
<1>11. Form(g[m], m)
  BY <1>10 DEF P
<1> DEFINE t == Filled(s, v, i, j)
<1>12. t \in Seq(S) /\ Len(t) = n /\ \A l \in 1..n : t[l] = IF from < l /\ l <= from + m THEN v ELSE s[l]
  BY <1>4, <1>6, <1>11
<1> HIDE DEF t
<1>13. \A l \in 1..n : (from < l /\ l <= from + m) <=> (from < l /\ l <= to)
  BY <1>1, <1>2, <1>5
<1>14. t = [l \in 1..n |-> t[l]]
  BY <1>12
<1>15. [l \in 1..n |-> t[l]] = [l \in 1..n |-> IF from < l /\ l <= to THEN v ELSE s[l]]
  BY <1>12, <1>13
<1>. QED BY <1>14, <1>15 DEF t, n, from, to

(* toReversed() reads from the end. *)
LEMMA ToReversedIs ==
  ASSUME NEW S, NEW s, s \in Seq(S)
  PROVE  ToReversed(s) = Reverse(s)
<1> DEFINE n == Len(s)
           e == n - 1
           o == 0
           is == Down(e, o)
<1>1. n \in Nat /\ e \in Int /\ o \in Int /\ n = IF o <= e THEN e - o + 1 ELSE 0
  OBVIOUS
<1>2. ToReversed(s) = [k \in DOMAIN is |-> Get(s, is[k])]
  BY DEF ToReversed
<1>3. Reverse(s) = [k \in 1..n |-> s[(n - k) + 1]]
  BY DEF Reverse
<1>4. e = n - 1 /\ Len(s) = n
  OBVIOUS
<1> HIDE DEF n, e, o
<1>5. Counting(Down(e, o), e, n, FALSE)
  BY <1>1, CountingIs
<1>6. DOMAIN is = 1..n /\ \A k \in 1..n : is[k] = e - k + 1
  BY <1>5 DEF Counting
<1> HIDE DEF is
<1>7. ASSUME NEW k \in 1..n
      PROVE  Get(s, is[k]) = s[(n - k) + 1]
  <2>1. is[k] \in 0..(Len(s) - 1) /\ is[k] + 1 = (n - k) + 1
    BY <1>1, <1>4, <1>6
  <2>. QED BY <2>1 DEF Get
<1>. QED BY <1>2, <1>3, <1>6, <1>7

(* slice() copies the range. *)
LEMMA SlicedIs ==
  ASSUME NEW S, NEW s, NEW i, NEW j, s \in Seq(S),
         i \in Int \cup {Undefined}, j \in Int \cup {Undefined}
  PROVE  Sliced(s, i, j) = SubSeq(s, RangeStart(i, Len(s)) + 1, InRange(j, Len(s)))
<1> DEFINE n == Len(s)
           from == RangeStart(i, n)
           to == InRange(j, n)
           e == to - 1
           m == IF from <= e THEN e - from + 1 ELSE 0
           is == Up(from, e)
           t == [k \in 1..m |-> s[from + k]]
           u == SubSeq(s, from + 1, to)
<1>1. n \in Nat /\ \A k \in 1..n : s[k] \in S
  OBVIOUS
<1>2. from \in 0..n /\ to \in 0..n /\ StartOf(i, n) = from /\ EndOf(j, n) = to
  <2> HIDE DEF n
  <2>. QED BY <1>1, RangeEnds
<1>3. Sliced(s, i, j) = [k \in DOMAIN is |-> Get(s, is[k])]
  BY <1>2 DEF Sliced
<1> HIDE DEF from, to
<1>4. IsPart(u, S, s, from, to)
  BY <1>2, PartIs
<1> HIDE DEF u
<1>5. m \in Nat /\ from \in Int /\ e \in Int /\ m = (IF from <= to THEN to - from ELSE 0)
      /\ \A k \in 1..m : from + k \in 1..n
  BY <1>1, <1>2
<1>6. DOMAIN is = 1..m /\ \A k \in 1..m : is[k] = from + k - 1
  <2> HIDE DEF e
  <2>1. m = IF from <= e THEN e - from + 1 ELSE 0
    OBVIOUS
  <2> HIDE DEF m
  <2>2. Counting(Up(from, e), from, m, TRUE)
    BY <1>5, <2>1, CountingIs
  <2>. QED BY <2>2 DEF Counting
<1> HIDE DEF is, e, m
<1>7. ASSUME NEW k \in 1..m
      PROVE  Get(s, is[k]) = s[from + k]
  <2>1. is[k] \in 0..(Len(s) - 1) /\ is[k] + 1 = from + k
    BY <1>1, <1>5, <1>6
  <2>. QED BY <2>1 DEF Get
<1>8. Sliced(s, i, j) = t
  BY <1>3, <1>6, <1>7
<1>9. t \in Seq(S) /\ Len(t) = m /\ \A k \in 1..m : t[k] = s[from + k]
  <2>1. \A k \in 1..m : s[from + k] \in S
    BY <1>1, <1>5
  <2>2. t = [k \in 1..m |-> t[k]] /\ \A k \in 1..m : t[k] = s[from + k] /\ t[k] \in S
    BY <2>1
  <2> HIDE DEF t
  <2>3. t \in Seq(S) /\ Len(t) = m
    <3>1. m \in Nat /\ \A k \in 1..m : t[k] \in S
      BY <1>5, <2>2
    <3>. QED BY <2>2, <3>1, OfElements, Zenon
  <2>. QED BY <2>2, <2>3
<1> HIDE DEF t
<1>10. u \in Seq(S) /\ Len(u) = m /\ \A k \in 1..m : t[k] = u[k]
  BY <1>4, <1>5, <1>9 DEF IsPart
<1>11. t = u
  BY <1>5, <1>9, <1>10, SameElements
<1>. QED BY <1>8, <1>11 DEF u, from, to, n

(* at() and with(). *)
LEMMA AtIs ==
  ASSUME NEW s, NEW i, NEW v, s \in Seq(Elems), i \in Int, i # Undefined, v \in Elems
  PROVE  /\ At(s, i) = IF i \in 0..(Len(s) - 1) THEN s[i + 1]
                       ELSE IF Len(s) + i \in 0..(Len(s) - 1) /\ i < 0 THEN s[Len(s) + i + 1] ELSE Undefined
         /\ WithFits(s, i) => With(s, i, v) = ReplaceAt(s, RangeStart(i, Len(s)) + 1, v)
<1> DEFINE n == Len(s)
           p == Counted(i, n)
           r == RangeStart(i, n)
<1>1. n \in Nat /\ DOMAIN s = 1..n
  OBVIOUS
<1>2. /\ At(s, i) = IF i \in 0..(n - 1) THEN s[i + 1]
                    ELSE IF n + i \in 0..(n - 1) /\ i < 0 THEN s[n + i + 1] ELSE Undefined
  <2>1. CASE i < 0
    <3>1. p = n + i /\ i \notin 0..(n - 1)
      BY <1>1, <2>1 DEF Counted
    <3>. QED BY <1>1, <2>1, <3>1 DEF At, Get
  <2>2. CASE ~ (i < 0)
    <3>1. p = i
      BY <2>2 DEF Counted
    <3>. QED BY <1>1, <2>2, <3>1 DEF At, Get
  <2>. QED BY <2>1, <2>2
<1>3. ASSUME WithFits(s, i)
      PROVE  With(s, i, v) = ReplaceAt(s, r + 1, v)
  <2>1. p \in 0..(n - 1)
    BY <1>3 DEF WithFits
  <2>2. ClampIndex(i, n) = r
    <3> HIDE DEF n
    <3>. QED BY <1>1, RangeEnds DEF RangeStart
  <2>3. r = p
    BY <1>1, <2>1, <2>2 DEF ClampIndex, Counted
  <2>4. With(s, i, v) = [k \in 1..n |-> IF k - 1 = p THEN v ELSE Get(s, k - 1)]
    BY DEF With
  <2>5. ReplaceAt(s, r + 1, v) = [k \in 1..n |-> IF k = r + 1 THEN v ELSE s[k]]
    BY <1>1 DEF ReplaceAt
  <2> HIDE DEF p, r
  <2>6. \A k \in 1..n : (IF k - 1 = p THEN v ELSE Get(s, k - 1)) = (IF k = r + 1 THEN v ELSE s[k])
    <3> TAKE k \in 1..n
    <3>1. k - 1 \in 0..(Len(s) - 1) /\ k - 1 + 1 = k /\ (k - 1 = p <=> k = r + 1)
      BY <1>1, <2>1, <2>3
    <3>2. Get(s, k - 1) = s[k]
      BY <3>1 DEF Get
    <3>. QED BY <3>1, <3>2
  <2>. QED BY <2>4, <2>5, <2>6
<1>. QED BY <1>2, <1>3

(* A part of a sequence written over another, as long. *)
Overlaid(r, S, s, from, to, c) ==
  /\ r \in Seq(S) /\ Len(r) = Len(s)
  /\ \A k \in 1..Len(s) : r[k] = IF from < k /\ k <= from + c THEN s[to + k - from] ELSE s[k]

(* So are three parts, one behind the other. *)
LEMMA ThreeParts ==
  ASSUME NEW S, NEW s, NEW from, NEW to, NEW c, s \in Seq(S), from \in Nat, to \in Nat, c \in Nat,
         from + c <= Len(s), to + c <= Len(s)
  PROVE  Overlaid(SubSeq(s, 1, from) \o SubSeq(s, to + 1, to + c) \o SubSeq(s, from + c + 1, Len(s)),
                  S, s, from, to, c)
<1> DEFINE n == Len(s)
           o == 0
           x == SubSeq(s, o + 1, from)
           y == SubSeq(s, to + 1, to + c)
           z == SubSeq(s, from + c + 1, n)
           r == (x \o y) \o z
<1>1. /\ n \in Nat /\ o \in 0..n /\ from \in 0..n /\ to \in 0..n
      /\ to + c \in 0..n /\ from + c \in 0..n /\ n \in 0..n
      /\ o <= from /\ from - o = from /\ to <= to + c /\ to + c - to = c /\ from + c <= n
  OBVIOUS
<1>2. x \in Seq(S) /\ Len(x) = from /\ \A k \in 1..from : x[k] = s[k]
  <2> HIDE DEF n, o
  <2>1. IsPart(SubSeq(s, o + 1, from), S, s, o, from)
    BY <1>1, PartIs DEF n
  <2>2. \A k \in 1..from : o + k = k
    BY DEF o
  <2>. QED BY <1>1, <2>1, <2>2 DEF IsPart
<1>3. y \in Seq(S) /\ Len(y) = c /\ \A k \in 1..c : y[k] = s[to + k]
  <2> DEFINE q == to + c
  <2> HIDE DEF q
  <2>1. IsPart(SubSeq(s, to + 1, q), S, s, to, q)
    BY <1>1, PartIs DEF n, q
  <2>2. q - to = c /\ to <= q
    BY DEF q
  <2>. QED BY <2>1, <2>2 DEF IsPart, q
<1>4. z \in Seq(S) /\ Len(z) = n - (from + c) /\ \A k \in 1..(n - (from + c)) : z[k] = s[from + c + k]
  <2> DEFINE q == from + c
  <2> HIDE DEF q, n
  <2>1. IsPart(SubSeq(s, q + 1, n), S, s, q, n)
    BY <1>1, PartIs DEF n, q
  <2>2. q <= n
    BY <1>1 DEF q
  <2>. QED BY <2>1, <2>2 DEF IsPart, q
<1>5. SubSeq(s, 1, from) = x
  <2>1. 1 = o + 1
    OBVIOUS
  <2>. QED BY <2>1
<1>6. SubSeq(s, 1, from) \o SubSeq(s, to + 1, to + c) \o SubSeq(s, from + c + 1, Len(s)) = r
  BY <1>5
<1> HIDE DEF n, x, y, z
<1> DEFINE w == x \o y
<1>7. /\ w \in Seq(S) /\ Len(w) = from + c
      /\ \A k \in 1..(from + c) : w[k] = IF k <= from THEN x[k] ELSE y[k - from]
  <2>1. /\ w \in Seq(S) /\ Len(w) = Len(x) + Len(y)
        /\ \A i \in 1..(Len(x) + Len(y)) : w[i] = IF i <= Len(x) THEN x[i] ELSE y[i - Len(x)]
    BY <1>2, <1>3, ConcatProperties
  <2>. QED BY <1>2, <1>3, <2>1
<1> HIDE DEF w
<1>8. r \in Seq(S) /\ Len(r) = n /\ \A k \in 1..n : r[k] = IF k <= from + c THEN w[k] ELSE z[k - (from + c)]
  <2>1. /\ w \o z \in Seq(S) /\ Len(w \o z) = Len(w) + Len(z)
        /\ \A i \in 1..(Len(w) + Len(z)) : (w \o z)[i] = IF i <= Len(w) THEN w[i] ELSE z[i - Len(w)]
    BY <1>4, <1>7, ConcatProperties
  <2>2. Len(w) + Len(z) = n
    BY <1>1, <1>4, <1>7
  <2>. QED BY <1>7, <2>1, <2>2 DEF w
<1> HIDE DEF r
<1>9. ASSUME NEW k \in 1..n
      PROVE  r[k] = IF from < k /\ k <= from + c THEN s[to + k - from] ELSE s[k]
  <2>1. CASE k <= from
    BY <1>1, <1>2, <1>7, <1>8, <2>1
  <2>2. CASE from < k /\ k <= from + c
    <3>1. k - from \in 1..c /\ to + (k - from) = to + k - from /\ k \in 1..(from + c) /\ ~ (k <= from)
      BY <2>2
    <3>2. r[k] = y[k - from]
      BY <1>7, <1>8, <2>2, <3>1
    <3>3. y[k - from] = s[to + (k - from)]
      BY <1>3, <3>1
    <3>. QED BY <2>2, <3>1, <3>2, <3>3
  <2>3. CASE k > from + c
    <3>1. k - (from + c) \in 1..(n - (from + c)) /\ from + c + (k - (from + c)) = k /\ ~ (k <= from + c)
      BY <1>1, <2>3
    <3>2. z[k - (from + c)] = s[from + c + (k - (from + c))]
      BY <1>4, <3>1
    <3>. QED BY <1>8, <3>1, <3>2
  <2>. QED BY <2>1, <2>2, <2>3
<1>. QED BY <1>6, <1>8, <1>9 DEF n, Overlaid

(* copyWithin() writes, from one position on, what was read from another. *)
LEMMA CopiedWithinIs ==
  ASSUME NEW S, NEW s, NEW i, NEW j, s \in Seq(S), Undefined \in S, i \in Int, j \in Int,
         i # Undefined, j # Undefined
  PROVE  LET n == Len(s)
             from == InRange(i, n)
             to == InRange(j, n)
             count == Max({0, Min({n - to, n - from})})
         IN CopiedWithin(s, i, j, Undefined) =
              SubSeq(s, 1, from) \o SubSeq(s, to + 1, to + count) \o SubSeq(s, from + count + 1, n)
<1> DEFINE n == Len(s)
           from == InRange(i, n)
           to == InRange(j, n)
           low == Min({n - to, n - from})
           c == Max({0, low})
           vs == [k \in 1..low |-> Get(s, to + k - 1)]
           r == SubSeq(s, 1, from) \o SubSeq(s, to + 1, to + c) \o SubSeq(s, from + c + 1, n)
<1>1. n \in Nat /\ \A k \in 1..n : s[k] \in S
  OBVIOUS
<1>2. /\ from \in 0..n /\ to \in 0..n /\ ClampIndex(i, n) = from /\ StartOf(j, n) = to
      /\ EndOf(Undefined, n) = n
  <2> HIDE DEF n
  <2>. QED BY <1>1, RangeEnds DEF RangeStart, EndOf
<1>3. CopiedWithin(s, i, j, Undefined) = Puts(s, from, vs)
  BY <1>2 DEF CopiedWithin
<1> HIDE DEF n, from, to
<1>4. low = IF n - to <= n - from THEN n - to ELSE n - from
  <2>1. n - to \in Int /\ n - from \in Int
    BY <1>1, <1>2
  <2>. QED BY <2>1, MinOfTwo
<1> HIDE DEF low
<1>5. low \in Nat /\ from + low <= n /\ to + low <= n
  BY <1>1, <1>2, <1>4
<1>6. c = low
  <2>1. 0 \in Int /\ low \in Int /\ (low = 0 \/ ~ (0 >= low))
    BY <1>5
  <2>2. c = IF 0 >= low THEN 0 ELSE low
    BY <2>1, MaxOfTwo
  <2>. QED BY <2>1, <2>2
<1> HIDE DEF c
<1>7. r \in Seq(S) /\ Len(r) = n
      /\ \A k \in 1..n : r[k] = IF from < k /\ k <= from + c THEN s[to + k - from] ELSE s[k]
  <2>1. from \in Nat /\ to \in Nat /\ c \in Nat /\ from + c <= Len(s) /\ to + c <= Len(s)
    BY <1>1, <1>2, <1>5, <1>6 DEF n
  <2>2. Overlaid(SubSeq(s, 1, from) \o SubSeq(s, to + 1, to + c) \o SubSeq(s, from + c + 1, Len(s)),
                 S, s, from, to, c)
    BY <2>1, ThreeParts
  <2>3. SubSeq(s, 1, from) \o SubSeq(s, to + 1, to + c) \o SubSeq(s, from + c + 1, Len(s)) = r
    BY DEF n
  <2> HIDE DEF r
  <2>. QED BY <2>2, <2>3 DEF Overlaid, n
<1>8. vs \in Seq(S) /\ Len(vs) = low /\ \A k \in 1..low : vs[k] = s[to + k]
  <2>1. ASSUME NEW k \in 1..low
        PROVE  Get(s, to + k - 1) = s[to + k] /\ s[to + k] \in S
    <3>1. to + k - 1 \in 0..(Len(s) - 1) /\ to + k - 1 + 1 = to + k /\ to + k \in 1..n
      BY <1>1, <1>2, <1>5 DEF n
    <3>. QED BY <1>1, <3>1 DEF Get
  <2>2. vs = [k \in 1..low |-> vs[k]] /\ \A k \in 1..low : vs[k] = s[to + k] /\ vs[k] \in S
    BY <2>1
  <2> HIDE DEF vs
  <2>. QED BY <1>5, <2>2, OfElements
<1> HIDE DEF vs, r
<1>9. PutsAll(S, s, vs, from)
  BY <1>1, <1>2, <1>8, PutsIs
<1> DEFINE e(k) == IF from < k /\ k <= from + low THEN vs[k - from] ELSE Get(s, k - 1)
<1>10. Puts(s, from, vs) = [k \in 1..n |-> e(k)]
  <2>1. (IF low = 0 \/ from + low <= Len(s) THEN Len(s) ELSE from + low) = n
    BY <1>5 DEF n
  <2>. QED BY <1>8, <1>9, <2>1 DEF PutsAll, PutsTo
<1>11. ASSUME NEW k \in 1..n
       PROVE  e(k) = r[k]
  <2>1. CASE from < k /\ k <= from + low
    <3>1. k - from \in 1..low /\ to + (k - from) = to + k - from
      BY <1>2, <1>5, <2>1
    <3>2. vs[k - from] = s[to + (k - from)]
      BY <1>8, <3>1
    <3>. QED BY <1>6, <1>7, <2>1, <3>1, <3>2
  <2>2. CASE ~ (from < k /\ k <= from + low)
    <3>1. k - 1 \in 0..(Len(s) - 1) /\ k - 1 + 1 = k
      BY <1>1 DEF n
    <3>2. Get(s, k - 1) = s[k]
      BY <3>1 DEF Get
    <3>. QED BY <1>6, <1>7, <2>2, <3>2
  <2>. QED BY <2>1, <2>2
<1> HIDE DEF e
<1>12. r = [k \in 1..n |-> r[k]]
  BY <1>7
<1>13. [k \in 1..n |-> e(k)] = [k \in 1..n |-> r[k]]
  BY <1>11
<1>. QED BY <1>3, <1>10, <1>12, <1>13 DEF r, c, low, from, to, n

(* All of them. *)
LEMMA MutatorsHold ==
  ASSUME NEW s, NEW v, NEW i, NEW j, s \in Seq(Elems), v \in Elems, i \in Indices, j \in Indices
  PROVE  MutatorsExact(s, v, i, j)
<1>1. i \in Int \cup {Undefined} /\ j \in Int \cup {Undefined} /\ Undefined \in Elems
  BY ArrayMethodsAssumption
<1> DEFINE n == Len(s)
           from == IF i = Undefined THEN 0 ELSE InRange(i, n)
           to == InRange(j, n)
<1>2. from = RangeStart(i, n)
  BY DEF RangeStart
<1>3. s # <<>> => Shifted(s) = Tail(s) /\ Popped(s) = Front(s)
  BY <1>1, ShiftedIs, PoppedIs
<1>4. Unshifted(s, <<v, Undefined>>) = <<v, Undefined>> \o s
  <2> DEFINE vs == <<v, Undefined>>
  <2>1. vs \in Seq(Elems)
    BY <1>1
  <2> HIDE DEF vs
  <2>2. Unshifted(s, vs) = vs \o s
    BY <1>1, <2>1, UnshiftedIs
  <2>. QED BY <2>2 DEF vs
<1>5. Reversed(s) = Reverse(s) /\ ToReversed(s) = Reverse(s)
  BY <1>1, ReversedIs, ToReversedIs
<1>6. Filled(s, v, i, j) = [k \in 1..n |-> IF RangeStart(i, n) < k /\ k <= to THEN v ELSE s[k]]
  BY <1>1, FilledIs
<1>7. Sliced(s, i, j) = SubSeq(s, RangeStart(i, n) + 1, to)
  BY <1>1, SlicedIs
<1>8. i # Undefined /\ j # Undefined =>
        LET count == Max({0, Min({n - to, n - from})})
        IN CopiedWithin(s, i, j, Undefined) =
             SubSeq(s, 1, from) \o SubSeq(s, to + 1, to + count) \o SubSeq(s, from + count + 1, n)
  <2> SUFFICES ASSUME i # Undefined, j # Undefined
               PROVE  LET count == Max({0, Min({n - to, n - from})})
                      IN CopiedWithin(s, i, j, Undefined) =
                           SubSeq(s, 1, from) \o SubSeq(s, to + 1, to + count)
                             \o SubSeq(s, from + count + 1, n)
    OBVIOUS
  <2>1. i \in Int /\ j \in Int /\ from = InRange(i, n)
    BY <1>1
  <2>2. LET a == InRange(i, n)
            count == Max({0, Min({n - to, n - a})})
        IN CopiedWithin(s, i, j, Undefined) =
             SubSeq(s, 1, a) \o SubSeq(s, to + 1, to + count) \o SubSeq(s, a + count + 1, n)
    BY <1>1, <2>1, CopiedWithinIs, Zenon
  <2>. QED BY <2>1, <2>2, Zenon
<1>9. i # Undefined =>
        /\ At(s, i) = IF i \in 0..(n - 1) THEN s[i + 1]
                      ELSE IF n + i \in 0..(n - 1) /\ i < 0 THEN s[n + i + 1] ELSE Undefined
        /\ WithFits(s, i) => With(s, i, v) = ReplaceAt(s, RangeStart(i, n) + 1, v)
  BY <1>1, AtIs
<1>. QED BY <1>2, <1>3, <1>4, <1>5, <1>6, <1>7, <1>8, <1>9, Zenon DEF MutatorsExact

(* The least and the greatest of some positions. *)
IsLeast(m, H) == m \in H /\ \A k \in H : m <= k
IsGreatest(m, H) == m \in H /\ \A k \in H : k <= m

(* A set of positions has them. *)
LEMMA EndsExist ==
  ASSUME NEW H, NEW n, n \in Nat, H \in SUBSET (0..n), H # {}
  PROVE  IsLeast(Min(H), H) /\ IsGreatest(Max(H), H)
<1>1. PICK x \in H : \A y \in H : x <= y
  <2>1. H \in SUBSET Nat
    OBVIOUS
  <2>. QED BY <2>1, LeastExists
<1>2. IsLeast(Min(H), H)
  <2> DEFINE c == CHOOSE y \in H : \A z \in H : y <= z
  <2>1. c \in H /\ \A z \in H : c <= z
    BY <1>1
  <2>2. Min(H) = c
    BY DEF Min
  <2> HIDE DEF c
  <2>. QED BY <2>1, <2>2 DEF IsLeast
<1> DEFINE T == {k + 1 : k \in H}
<1>3. T \in SUBSET (1..(n + 1)) /\ T # {} /\ n + 1 \in Nat
  OBVIOUS
<1>4. PICK y \in T : \A j \in T : j <= y
  <2> HIDE DEF T
  <2>. QED BY <1>3, GreatestExists
<1>5. PICK m \in H : y = m + 1
  OBVIOUS
<1>6. \A k \in H : k <= m
  <2> TAKE k \in H
  <2>1. k + 1 <= m + 1 /\ k \in Int /\ m \in Int
    BY <1>4, <1>5
  <2>. QED BY <2>1
<1>7. H \in SUBSET Int
  OBVIOUS
<1>8. Max(H) = m
  BY <1>6, <1>7, GreatestIs
<1>. QED BY <1>2, <1>6, <1>8 DEF IsGreatest

(* A search forwards looks at the range from its start. *)
LEMMA FromIs ==
  ASSUME NEW i, NEW n, i \in Int \cup {Undefined}, n \in Nat
  PROVE  FromIndex(i, n)..(n - 1) = RangeStart(i, n)..(n - 1) /\ RangeStart(i, n) \in 0..n
<1>1. CASE i = Undefined
  BY <1>1 DEF FromIndex, RangeStart
<1>2. CASE i # Undefined /\ i \in Int /\ i < 0
  <2>1. i + n = n + i
    BY <1>2
  <2>2. FromIndex(i, n) = RangeStart(i, n)
    BY <1>2, <2>1, Zenon DEF FromIndex, RangeStart, InRange
  <2>. QED BY <2>2, RangeEnds
<1>3. CASE i # Undefined /\ i \in Int /\ ~ (i < 0)
  <2>1. RangeStart(i, n) = IF i <= n THEN i ELSE n
    BY <1>3, MinOfTwo DEF RangeStart, InRange
  <2>2. FromIndex(i, n) = i
    BY <1>3 DEF FromIndex
  <2>. QED BY <1>3, <2>1, <2>2
<1>. QED BY <1>1, <1>2, <1>3

(* What is looked for is found where it is, references excepted. *)
LEMMA FoundWhere ==
  ASSUME NEW s, NEW k, NEW v, s \in Seq(Elems), k \in 0..(Len(s) - 1), v \notin Refs
  PROVE  /\ SameValueZero(Get(s, k), v) <=> s[k + 1] = v
         /\ v # NaN => (StrictEqual(Get(s, k), v) <=> s[k + 1] = v)
<1>1. Get(s, k) = s[k + 1]
  BY DEF Get
<1> DEFINE x == s[k + 1]
<1> HIDE DEF x
<1>2. Get(s, k) = x
  BY <1>1 DEF x
<1>3. SameValueZero(x, v) <=> x = v
  BY DEF SameValueZero, StrictEqual
<1>4. v # NaN => (StrictEqual(x, v) <=> x = v)
  BY DEF StrictEqual
<1>. QED BY <1>2, <1>3, <1>4 DEF x

(* The first and the last hit between two positions. *)
FirstHit(f, s, v, lo, hi) ==
  IF f = -1 THEN \A k \in lo..hi : s[k + 1] # v
  ELSE f \in lo..hi /\ s[f + 1] = v /\ \A k \in lo..(f - 1) : s[k + 1] # v

LastHit(l, s, v, hi) ==
  IF l = -1 THEN \A k \in 0..hi : s[k + 1] # v
  ELSE l \in 0..hi /\ s[l + 1] = v /\ \A k \in (l + 1)..hi : s[k + 1] # v

(* indexOf() finds the one. *)
LEMMA IndexOfIs ==
  ASSUME NEW s, NEW v, NEW i, s \in Seq(Elems), i \in Int \cup {Undefined}, v \notin Refs, v # NaN
  PROVE  FirstHit(IndexOf(s, v, i), s, v, RangeStart(i, Len(s)), Len(s) - 1)
<1> DEFINE n == Len(s)
           lo == RangeStart(i, n)
           hi == n - 1
           H == {k \in FromIndex(i, n)..hi : StrictEqual(Get(s, k), v)}
           G == {k \in lo..hi : s[k + 1] = v}
           f == IF H = {} THEN -1 ELSE Min(H)
<1>1. n \in Nat /\ hi \in Int
  OBVIOUS
<1>2. FromIndex(i, n)..hi = lo..hi /\ lo \in 0..n
  <2> HIDE DEF n
  <2>. QED BY <1>1, FromIs
<1>3. IndexOf(s, v, i) = f
  BY DEF IndexOf
<1> HIDE DEF lo
<1>4. H = G
  <2>1. \A k \in lo..hi : k \in 0..(Len(s) - 1)
    BY <1>1, <1>2
  <2>2. \A k \in lo..hi : StrictEqual(Get(s, k), v) <=> s[k + 1] = v
    BY <2>1, FoundWhere
  <2> HIDE DEF hi, n
  <2>. QED BY <1>2, <2>2
<1>5. f = IF G = {} THEN -1 ELSE Min(G)
  BY <1>4
<1> HIDE DEF H, f, n, hi
<1>6. CASE G = {}
  <2>1. f = -1 /\ \A k \in lo..hi : s[k + 1] # v
    BY <1>5, <1>6
  <2>. QED BY <1>3, <2>1 DEF FirstHit, lo, hi, n
<1>7. CASE G # {}
  <2>1. G \in SUBSET (0..n)
    BY <1>1, <1>2 DEF hi
  <2> HIDE DEF G
  <2>2. IsLeast(f, G)
    BY <1>1, <1>5, <1>7, <2>1, EndsExist
  <2>3. f \in lo..hi /\ s[f + 1] = v /\ f \in Nat
    BY <1>1, <1>2, <2>2 DEF IsLeast, G
  <2>4. ASSUME NEW k \in lo..(f - 1)
        PROVE  s[k + 1] # v
    <3>1. k \in lo..hi /\ ~ (f <= k)
      BY <1>1, <1>2, <2>3
    <3>. QED BY <2>2, <3>1 DEF IsLeast, G
  <2>5. f # -1
    BY <2>3
  <2>. QED BY <1>3, <2>3, <2>4, <2>5 DEF FirstHit, lo, hi, n
<1>. QED BY <1>6, <1>7

(* How far lastIndexOf() looks. *)
LastOfRange(i, n) == IF i = Undefined THEN n - 1 ELSE IF i < 0 THEN n + i ELSE Min({i, n - 1})

(* It finds the last one there. *)
LEMMA LastIndexOfIs ==
  ASSUME NEW s, NEW v, NEW i, s \in Seq(Elems), i \in Int \cup {Undefined}, v \notin Refs, v # NaN
  PROVE  LastHit(LastIndexOf(s, v, i), s, v, LastOfRange(i, Len(s)))
<1> DEFINE n == Len(s)
           hi == LastOfRange(i, n)
           from == IF i = Undefined THEN n - 1 ELSE IF i < 0 THEN i + n ELSE Min({i, n - 1})
           H == {k \in 0..from : StrictEqual(Get(s, k), v)}
           G == {k \in 0..hi : s[k + 1] = v}
           l == IF H = {} THEN -1 ELSE Max(H)
<1>1. n \in Nat
  OBVIOUS
<1>2. hi = from /\ hi \in Int /\ hi <= n - 1
  <2> HIDE DEF n
  <2>1. CASE i = Undefined
    BY <1>1, <2>1 DEF LastOfRange
  <2>2. CASE i # Undefined /\ i < 0
    BY <1>1, <2>2 DEF LastOfRange
  <2>3. CASE i # Undefined /\ ~ (i < 0)
    <3>1. hi = Min({i, n - 1}) /\ from = Min({i, n - 1}) /\ i \in Int /\ n - 1 \in Int
      BY <1>1, <2>3 DEF LastOfRange
    <3>2. Min({i, n - 1}) = IF i <= n - 1 THEN i ELSE n - 1
      BY <3>1, MinOfTwo
    <3>. QED BY <3>1, <3>2
  <2>. QED BY <2>1, <2>2, <2>3
<1>3. LastIndexOf(s, v, i) = l
  BY DEF LastIndexOf
<1> HIDE DEF from, hi
<1>4. H = G
  <2>1. \A k \in 0..hi : k \in 0..(Len(s) - 1)
    BY <1>1, <1>2
  <2>2. \A k \in 0..hi : StrictEqual(Get(s, k), v) <=> s[k + 1] = v
    BY <2>1, FoundWhere
  <2>. QED BY <1>2, <2>2
<1>5. l = IF G = {} THEN -1 ELSE Max(G)
  BY <1>4
<1> HIDE DEF H, l, n
<1>6. CASE G = {}
  <2>1. l = -1 /\ \A k \in 0..hi : s[k + 1] # v
    BY <1>5, <1>6
  <2>. QED BY <1>3, <2>1 DEF LastHit, hi, n
<1>7. CASE G # {}
  <2>1. G \in SUBSET (0..n)
    BY <1>1, <1>2
  <2> HIDE DEF G
  <2>2. IsGreatest(l, G)
    BY <1>1, <1>5, <1>7, <2>1, EndsExist
  <2>3. l \in 0..hi /\ s[l + 1] = v /\ l \in Nat
    BY <1>2, <2>2 DEF IsGreatest, G
  <2>4. ASSUME NEW k \in (l + 1)..hi
        PROVE  s[k + 1] # v
    <3>1. k \in 0..hi /\ ~ (k <= l)
      BY <1>2, <2>3
    <3>. QED BY <2>2, <3>1 DEF IsGreatest, G
  <2>5. l # -1
    BY <2>3
  <2>. QED BY <1>3, <2>3, <2>4, <2>5 DEF LastHit, hi, n
<1>. QED BY <1>6, <1>7

(* includes() answers whether there is one. *)
LEMMA IncludesIs ==
  ASSUME NEW s, NEW v, NEW i, s \in Seq(Elems), i \in Int \cup {Undefined}, v \notin Refs
  PROVE  Includes(s, v, i) <=> \E k \in RangeStart(i, Len(s))..(Len(s) - 1) : s[k + 1] = v
<1> DEFINE n == Len(s)
           lo == RangeStart(i, n)
<1>1. n \in Nat
  OBVIOUS
<1>2. FromIndex(i, n)..(n - 1) = lo..(n - 1) /\ lo \in 0..n
  <2> HIDE DEF n
  <2>. QED BY <1>1, FromIs
<1>3. Includes(s, v, i) <=> \E k \in lo..(n - 1) : SameValueZero(Get(s, k), v)
  BY <1>2 DEF Includes
<1> HIDE DEF lo
<1>4. \A k \in lo..(n - 1) : k \in 0..(Len(s) - 1)
  BY <1>1, <1>2
<1>5. \A k \in lo..(n - 1) : SameValueZero(Get(s, k), v) <=> s[k + 1] = v
  BY <1>4, FoundWhere
<1>. QED BY <1>3, <1>5 DEF lo

(* All of them. *)
LEMMA SearchesHold ==
  ASSUME NEW s, NEW v, NEW i, s \in Seq(Elems), i \in Indices
  PROVE  SearchesExact(s, v, i)
<1>1. i \in Int \cup {Undefined}
  BY ArrayMethodsAssumption
<1>2. ASSUME v \notin Refs
      PROVE  Includes(s, v, i) <=> \E k \in RangeStart(i, Len(s))..(Len(s) - 1) : s[k + 1] = v
  BY <1>1, <1>2, IncludesIs
<1>3. ASSUME v \notin Refs, v # NaN
      PROVE  /\ FirstHit(IndexOf(s, v, i), s, v, RangeStart(i, Len(s)), Len(s) - 1)
             /\ LastHit(LastIndexOf(s, v, i), s, v, LastOfRange(i, Len(s)))
  BY <1>1, <1>3, IndexOfIs, LastIndexOfIs
<1>. QED BY <1>2, <1>3, Zenon DEF SearchesExact, FirstHit, LastHit, RangeStart, LastOfRange

-----------------------------------------------------------------------------
(* flat(): the elements that are arrays are replaced by what is in them. *)

PartOf(g, x) == IF x \in DOMAIN g THEN g[x] ELSE <<x>>
PartsOf(g, s) == [k \in DOMAIN s |-> PartOf(g, s[k])]
Spread(g, s) == FlattenSeq(PartsOf(g, s))

(* One sequence after the other is joined to what there is. *)
JoinsAll(f, S, parts) ==
  /\ f[1..0] = <<>>
  /\ \A k \in 1..Len(parts) : f[1..(k - 1)] \in Seq(S) => f[1..k] = f[1..(k - 1)] \o parts[k]

(* In the end all are joined. *)
LEMMA JoinedAll ==
  ASSUME NEW f, NEW S, NEW parts, parts \in Seq(Seq(S)), JoinsAll(f, S, parts)
  PROVE  f[1..Len(parts)] = FlattenSeq(parts) /\ FlattenSeq(parts) \in Seq(S)
<1> DEFINE n == Len(parts)
           T == Seq(S)
           P == {k \in 0..n : f[1..k] \in T}
           j == [k \in 1..n |-> f[1..k]]
<1>1. n \in Nat /\ \A k \in 1..n : parts[k] \in T
  OBVIOUS
<1>2. f[1..0] = <<>> /\ \A k \in 1..n : f[1..(k - 1)] \in T => f[1..k] = f[1..(k - 1)] \o parts[k]
  BY DEF JoinsAll
<1>3. <<>> \in T /\ \A t \in T : <<>> \o t = t
  OBVIOUS
<1>4. \A t, u \in T : t \o u \in T
  BY ConcatProperties
<1> HIDE DEF T, n
<1>5. 0 \in P
  BY <1>1, <1>2, <1>3
<1>6. ASSUME NEW k \in 1..n, k - 1 \in P
      PROVE  k \in P
  <2>1. f[1..(k - 1)] \in T /\ k \in 0..n
    BY <1>6
  <2>. QED BY <1>1, <1>2, <1>4, <2>1
<1>7. \A k \in 0..n : k \in P
  <2> HIDE DEF P
  <2>. QED BY <1>1, <1>5, <1>6, Rounds
<1>8. ASSUME NEW k \in 1..n
      PROVE  j[k] \in T /\ j[k] = IF k = 1 THEN parts[k] ELSE j[k - 1] \o parts[k]
  <2>1. k \in 0..n /\ k - 1 \in 0..n /\ (k # 1 => k - 1 \in 1..n)
    BY <1>1
  <2>2. f[1..k] \in T /\ f[1..(k - 1)] \in T
    BY <1>7, <2>1
  <2>3. f[1..k] = f[1..(k - 1)] \o parts[k]
    BY <1>2, <2>2
  <2>4. CASE k = 1
    <3>1. f[1..(k - 1)] = <<>>
      BY <1>2, <2>4
    <3>. QED BY <1>1, <1>3, <2>2, <2>3, <2>4, <3>1
  <2>5. CASE k # 1
    BY <2>1, <2>2, <2>3, <2>5
  <2>. QED BY <2>4, <2>5
<1>9. Joining(j, S, parts)
  <2>1. j \in [1..n -> T]
    BY <1>7
  <2> HIDE DEF j
  <2>. QED BY <1>8, <2>1 DEF Joining, T, n
<1>10. FlattenSeq(parts) = IF n = 0 THEN <<>> ELSE j[n]
  <2> HIDE DEF j
  <2>. QED BY <1>9, FlattenIs DEF n
<1>11. CASE n = 0
  BY <1>2, <1>3, <1>10, <1>11 DEF n, T
<1>12. CASE n # 0
  <2>1. n \in 1..n
    BY <1>1, <1>12
  <2>. QED BY <1>8, <1>10, <1>12, <2>1 DEF n, T
<1>. QED BY <1>11, <1>12

(* Such a fold, over every set of positions. *)
FoldsParts(it, S, parts) ==
  /\ it \in [SUBSET (1..Len(parts)) -> Seq(S)]
  /\ \A R \in SUBSET (1..Len(parts)) :
       /\ it[R] = IF R = {} THEN <<>> ELSE it[R \ {Max(R)}] \o parts[Max(R)]
       /\ R # {} => it[R \ {Max(R)}] \in Seq(S) /\ Max(R) \in 1..Len(parts)

(* It can be computed. *)
LEMMA PartsFolded ==
  ASSUME NEW S, NEW parts, parts \in Seq(Seq(S))
  PROVE  \E it : FoldsParts(it, S, parts)
<1> DEFINE n == Len(parts)
           T == Seq(S)
           base == <<>>
           step == [p \in T \X (1..n) |-> p[1] \o parts[p[2]]]
<1>1. n \in Nat /\ base \in T /\ \A k \in 1..n : parts[k] \in T
  OBVIOUS
<1>2. \A t, u \in T : t \o u \in T
  BY ConcatProperties
<1> HIDE DEF n, T
<1>3. step \in [T \X (1..n) -> T]
  BY <1>1, <1>2
<1>4. \A t \in T, k \in 1..n : step[<<t, k>>] = t \o parts[k]
  OBVIOUS
<1> HIDE DEF step, base
<1>5. PICK it \in [SUBSET (1..n) -> T] : \A R \in SUBSET (1..n) :
        /\ it[R] = IF R = {} THEN base ELSE step[<<it[R \ {Max(R)}], Max(R)>>]
        /\ R # {} => it[R \ {Max(R)}] \in T /\ Max(R) \in 1..n
  BY <1>1, <1>3, FoldTyped
<1>6. \A R \in SUBSET (1..n) : it[R] = IF R = {} THEN base ELSE it[R \ {Max(R)}] \o parts[Max(R)]
  BY <1>4, <1>5
<1>. QED BY <1>5, <1>6 DEF FoldsParts, n, T, base

(* What a fold makes that joins what is in an array, and puts behind what is none. *)
LEMMA ConcatenatedIs ==
  ASSUME NEW S, NEW h, NEW s, s \in Seq(S), h \in [ArrayIds -> Seq(S)]
  PROVE  /\ Concatenated(h, <<>>, s) = Spread(h, s) /\ Spread(h, s) \in Seq(S)
         /\ PartsOf(h, s) \in Seq(Seq(S))
<1> DEFINE n == Len(s)
           parts == PartsOf(h, s)
           f == CHOOSE iter : iter = [R \in SUBSET (DOMAIN s) |->
                  IF R = {} THEN <<>>
                  ELSE IF s[Max(R)] \in ArrayIds THEN iter[R \ {Max(R)}] \o h[s[Max(R)]]
                       ELSE Append(iter[R \ {Max(R)}], s[Max(R)])]
           op(t, k) == IF s[k] \in ArrayIds THEN t \o h[s[k]] ELSE Append(t, s[k])
<1>1. n \in Nat /\ DOMAIN s = 1..n /\ \A k \in 1..n : s[k] \in S
  OBVIOUS
<1>2. Concatenated(h, <<>>, s) = f[DOMAIN s]
  BY DEF Concatenated, FoldLeft, MapThenFoldSet
<1>3. \A k \in 1..n :
         /\ PartOf(h, s[k]) = (IF s[k] \in ArrayIds THEN h[s[k]] ELSE <<s[k]>>)
         /\ PartOf(h, s[k]) \in Seq(S)
  <2>1. \A k \in 1..n : <<s[k]>> \in Seq(S)
    BY <1>1
  <2>. QED BY <2>1 DEF PartOf
<1>4. parts \in Seq(Seq(S)) /\ Len(parts) = n /\ \A k \in 1..n : parts[k] = PartOf(h, s[k])
  BY <1>1, <1>3 DEF PartsOf
<1> HIDE DEF parts, n
<1>5. ASSUME NEW t \in Seq(S), NEW k \in 1..n
      PROVE  op(t, k) = t \o parts[k]
  <2>1. CASE s[k] \in ArrayIds
    BY <1>3, <1>4, <2>1
  <2>2. CASE s[k] \notin ArrayIds
    <3>1. Append(t, s[k]) = t \o <<s[k]>>
      BY <1>1, AppendIsConcat
    <3>. QED BY <1>3, <1>4, <2>2, <3>1
  <2>. QED BY <2>1, <2>2
<1> HIDE DEF op
<1>6. PICK it : FoldsParts(it, S, parts)
  BY <1>4, PartsFolded
<1>7. it = [R \in SUBSET (1..n) |-> IF R = {} THEN <<>> ELSE op(it[R \ {Max(R)}], Max(R))]
  <2>1. \A R \in SUBSET (1..n) : it[R] = IF R = {} THEN <<>> ELSE op(it[R \ {Max(R)}], Max(R))
    BY <1>4, <1>5, <1>6 DEF FoldsParts
  <2>2. it = [R \in SUBSET (1..n) |-> it[R]]
    BY <1>4, <1>6 DEF FoldsParts
  <2>. QED BY <2>1, <2>2
<1>8. f = [R \in SUBSET (1..n) |-> IF R = {} THEN <<>> ELSE op(f[R \ {Max(R)}], Max(R))]
  BY <1>1, <1>7 DEF op
<1> HIDE DEF f
<1>9. JoinsAll(f, S, parts)
  <2>1. f[1..0] = <<>>
    BY <1>1, <1>8, Intervals
  <2>2. ASSUME NEW k \in 1..n, f[1..(k - 1)] \in Seq(S)
        PROVE  f[1..k] = f[1..(k - 1)] \o parts[k]
    <3>1. /\ 1..k \in SUBSET (1..n) /\ 1..k # {}
          /\ Max(1..k) = k /\ (1..k) \ {Max(1..k)} = 1..(k - 1)
      BY <1>1, Intervals
    <3>2. f[1..k] = op(f[(1..k) \ {Max(1..k)}], Max(1..k))
      BY <1>8, <3>1
    <3>. QED BY <1>5, <2>2, <3>1, <3>2
  <2>. QED BY <1>4, <2>1, <2>2 DEF JoinsAll
<1>10. f[1..n] = FlattenSeq(parts) /\ FlattenSeq(parts) \in Seq(S)
  BY <1>4, <1>9, JoinedAll
<1>. QED BY <1>1, <1>2, <1>4, <1>10 DEF Spread, parts

(* One level of flattenInto(). *)
FlatStep(F, d, s) ==
  FoldLeft(LAMBDA out, v : IF d > 0 /\ v \in ArrayIds THEN out \o F[d - 1][v] ELSE Append(out, v), <<>>, s)

FlatParts(F, d, s) ==
  [k \in DOMAIN s |-> IF d > 0 /\ s[k] \in ArrayIds THEN F[d - 1][s[k]] ELSE <<s[k]>>]

Deeper(F, d, S) == d > 0 => \A v \in ArrayIds : F[d - 1][v] \in Seq(S)

(* It joins the arrays as they are one level deeper. *)
LEMMA FlatStepIs ==
  ASSUME NEW S, NEW F, NEW d, NEW s, s \in Seq(S), d \in Nat, Deeper(F, d, S)
  PROVE  FlatStep(F, d, s) = FlattenSeq(FlatParts(F, d, s))
<1> DEFINE n == Len(s)
           parts == FlatParts(F, d, s)
           f == CHOOSE iter : iter = [R \in SUBSET (DOMAIN s) |->
                  IF R = {} THEN <<>>
                  ELSE IF d > 0 /\ s[Max(R)] \in ArrayIds
                         THEN iter[R \ {Max(R)}] \o F[d - 1][s[Max(R)]]
                         ELSE Append(iter[R \ {Max(R)}], s[Max(R)])]
           op(t, k) == IF d > 0 /\ s[k] \in ArrayIds THEN t \o F[d - 1][s[k]] ELSE Append(t, s[k])
           part(k) == IF d > 0 /\ s[k] \in ArrayIds THEN F[d - 1][s[k]] ELSE <<s[k]>>
<1>1. n \in Nat /\ DOMAIN s = 1..n /\ \A k \in 1..n : s[k] \in S
  OBVIOUS
<1>2. FlatStep(F, d, s) = f[DOMAIN s]
  BY DEF FlatStep, FoldLeft, MapThenFoldSet
<1>3. \A k \in 1..n : part(k) \in Seq(S)
  <2>1. \A k \in 1..n : <<s[k]>> \in Seq(S)
    BY <1>1
  <2>. QED BY <2>1 DEF Deeper
<1>4. parts = [k \in 1..n |-> part(k)]
  BY <1>1 DEF FlatParts
<1>5. parts \in Seq(Seq(S)) /\ Len(parts) = n /\ \A k \in 1..n : parts[k] = part(k)
  <2> HIDE DEF part, parts, n
  <2>. QED BY <1>1, <1>3, <1>4
<1> HIDE DEF parts, n
<1>6. ASSUME NEW t \in Seq(S), NEW k \in 1..n
      PROVE  op(t, k) = t \o parts[k]
  <2>1. CASE d > 0 /\ s[k] \in ArrayIds
    BY <1>5, <2>1
  <2>2. CASE ~ (d > 0 /\ s[k] \in ArrayIds)
    <3>1. Append(t, s[k]) = t \o <<s[k]>>
      BY <1>1, AppendIsConcat
    <3>. QED BY <1>5, <2>2, <3>1
  <2>. QED BY <2>1, <2>2
<1> HIDE DEF op, part
<1>7. PICK it : FoldsParts(it, S, parts)
  BY <1>5, PartsFolded
<1>8. it = [R \in SUBSET (1..n) |-> IF R = {} THEN <<>> ELSE op(it[R \ {Max(R)}], Max(R))]
  <2>1. \A R \in SUBSET (1..n) : it[R] = IF R = {} THEN <<>> ELSE op(it[R \ {Max(R)}], Max(R))
    BY <1>5, <1>6, <1>7 DEF FoldsParts
  <2>2. it = [R \in SUBSET (1..n) |-> it[R]]
    BY <1>5, <1>7 DEF FoldsParts
  <2>. QED BY <2>1, <2>2
<1>9. f = [R \in SUBSET (1..n) |-> IF R = {} THEN <<>> ELSE op(f[R \ {Max(R)}], Max(R))]
  BY <1>1, <1>8 DEF op
<1> HIDE DEF f
<1>10. JoinsAll(f, S, parts)
  <2>1. f[1..0] = <<>>
    BY <1>1, <1>9, Intervals
  <2>2. ASSUME NEW k \in 1..n, f[1..(k - 1)] \in Seq(S)
        PROVE  f[1..k] = f[1..(k - 1)] \o parts[k]
    <3>1. /\ 1..k \in SUBSET (1..n) /\ 1..k # {}
          /\ Max(1..k) = k /\ (1..k) \ {Max(1..k)} = 1..(k - 1)
      BY <1>1, Intervals
    <3>2. f[1..k] = op(f[(1..k) \ {Max(1..k)}], Max(1..k))
      BY <1>9, <3>1
    <3>. QED BY <1>6, <2>2, <3>1, <3>2
  <2>. QED BY <1>5, <2>1, <2>2 DEF JoinsAll
<1>11. f[1..n] = FlattenSeq(parts)
  BY <1>5, <1>10, JoinedAll
<1>. QED BY <1>1, <1>2, <1>11 DEF parts

SpreadMore(S, h, s, x) ==
  /\ Spread(h, Append(s, x)) = Spread(h, s) \o PartOf(h, x)
  /\ PartOf(h, x) \in Seq(S) /\ Spread(h, s) \in Seq(S)

(* One more element. *)
LEMMA SpreadNext ==
  ASSUME NEW S, NEW h, NEW s, NEW x, s \in Seq(S), x \in S, h \in [ArrayIds -> Seq(S)]
  PROVE  SpreadMore(S, h, s, x)
<1> DEFINE n == Len(s)
           t == Append(s, x)
           ps == PartsOf(h, s)
           y == PartOf(h, x)
<1>1. /\ n \in Nat /\ DOMAIN s = 1..n /\ t \in Seq(S) /\ Len(t) = n + 1 /\ DOMAIN t = 1..(n + 1)
      /\ \A k \in 1..n : t[k] = s[k]
  OBVIOUS
<1>2. t[n + 1] = x
  OBVIOUS
<1>3. y \in Seq(S)
  <2>1. <<x>> \in Seq(S)
    OBVIOUS
  <2>. QED BY <2>1 DEF PartOf
<1>4. ps \in Seq(Seq(S)) /\ Spread(h, s) \in Seq(S)
  BY ConcatenatedIs
<1>5. ps = [k \in 1..n |-> PartOf(h, s[k])] /\ PartsOf(h, t) = [k \in 1..(n + 1) |-> PartOf(h, t[k])]
  BY <1>1 DEF PartsOf
<1> HIDE DEF n, t, y
<1>6. Len(ps) = n /\ \A k \in 1..n : ps[k] = PartOf(h, s[k])
  BY <1>1, <1>5
<1> HIDE DEF ps
<1> DEFINE us == Append(ps, y)
<1>7. us \in Seq(Seq(S)) /\ Len(us) = n + 1 /\ \A k \in 1..n : us[k] = ps[k]
  BY <1>3, <1>4, <1>6
<1>8. us[n + 1] = y
  BY <1>3, <1>4, <1>6
<1> HIDE DEF us
<1>9. PartsOf(h, t) = us
  <2>1. us = [k \in 1..(n + 1) |-> us[k]]
    BY <1>7
  <2>2. \A k \in 1..(n + 1) : us[k] = PartOf(h, t[k])
    <3> TAKE k \in 1..(n + 1)
    <3>1. k \in 1..n \/ k = n + 1
      BY <1>1
    <3>. QED BY <1>1, <1>2, <1>6, <1>7, <1>8, <3>1 DEF y
  <2>. QED BY <1>5, <2>1, <2>2
<1>10. FlattenSeq(Append(ps, y)) = FlattenSeq(ps) \o y
  BY <1>3, <1>4, FlattenNext
<1>. QED BY <1>3, <1>4, <1>9, <1>10 DEF SpreadMore, Spread, us, ps, t, y

(* Nothing, and one element. *)
LEMMA SpreadFew ==
  ASSUME NEW S, NEW h, NEW x, x \in S, h \in [ArrayIds -> Seq(S)]
  PROVE  Spread(h, <<>>) = <<>> /\ Spread(h, <<x>>) = PartOf(h, x)
<1>1. Spread(h, <<>>) = <<>>
  BY DEF Spread, PartsOf, FlattenSeq
<1> DEFINE e == <<>>
<1>2. e \in Seq(S) /\ Append(e, x) = <<x>>
  OBVIOUS
<1> HIDE DEF e
<1>3. Spread(h, Append(e, x)) = Spread(h, e) \o PartOf(h, x) /\ PartOf(h, x) \in Seq(S)
  <2>1. SpreadMore(S, h, e, x)
    BY <1>2, SpreadNext
  <2>. QED BY <2>1 DEF SpreadMore
<1>4. \A t \in Seq(S) : <<>> \o t = t
  OBVIOUS
<1>. QED BY <1>1, <1>2, <1>3, <1>4 DEF e

(* The first elements of a sequence, and one more. *)
LEMMA Firsts ==
  ASSUME NEW S, NEW s, s \in Seq(S)
  PROVE  /\ SubSeq(s, 1, 0) = <<>> /\ SubSeq(s, 1, Len(s)) = s
         /\ \A k \in 1..Len(s) : /\ SubSeq(s, 1, k - 1) \in Seq(S) /\ s[k] \in S
                                 /\ SubSeq(s, 1, k) = Append(SubSeq(s, 1, k - 1), s[k])
<1>1. SubSeq(s, 1, 0) = <<>>
  BY SubSeqEmpty
<1>2. SubSeq(s, 1, Len(s)) = s
  BY SubSeqFull
<1>3. ASSUME NEW k \in 1..Len(s)
      PROVE  /\ SubSeq(s, 1, k - 1) \in Seq(S) /\ s[k] \in S
             /\ SubSeq(s, 1, k) = Append(SubSeq(s, 1, k - 1), s[k])
  <2> DEFINE l == k - 1
  <2>1. l \in Int /\ 1 \in Int /\ (\A i \in 1..l : s[i] \in S) /\ s[k] \in S
        /\ 1 \in 1..Len(s) /\ k \in 1..Len(s)
    OBVIOUS
  <2> HIDE DEF l
  <2>2. SubSeq(s, 1, l) \in Seq(S)
    BY <2>1, SubSeqProperties
  <2>3. SubSeq(s, 1, k) = SubSeq(s, 1, k - 1) \o <<s[k]>>
    BY <2>1, SubSeqRecursiveSecond
  <2>4. Append(SubSeq(s, 1, l), s[k]) = SubSeq(s, 1, l) \o <<s[k]>>
    BY <2>1, <2>2, AppendIsConcat
  <2>. QED BY <2>1, <2>2, <2>3, <2>4 DEF l
<1>. QED BY <1>1, <1>2, <1>3

(* Of two sequences, one behind the other. *)
LEMMA SpreadJoins ==
  ASSUME NEW S, NEW h, NEW s, NEW t, s \in Seq(S), t \in Seq(S), h \in [ArrayIds -> Seq(S)]
  PROVE  Spread(h, s \o t) = Spread(h, s) \o Spread(h, t)
<1> DEFINE n == Len(t)
           p(k) == SubSeq(t, 1, k)
           P == {k \in 0..n : p(k) \in Seq(S) /\ Spread(h, s \o p(k)) = Spread(h, s) \o Spread(h, p(k))}
<1>1. n \in Nat /\ p(0) = <<>> /\ p(n) = t
  BY Firsts
<1>2. \A k \in 1..n : p(k - 1) \in Seq(S) /\ t[k] \in S /\ p(k) = Append(p(k - 1), t[k])
  BY Firsts
<1> HIDE DEF p, n
<1>3. 0 \in P
  <2>1. s \o <<>> = s /\ <<>> \in Seq(S)
    OBVIOUS
  <2>2. Spread(h, s) \in Seq(S)
    BY ConcatenatedIs
  <2>3. Spread(h, <<>>) = <<>>
    BY DEF Spread, PartsOf, FlattenSeq
  <2>4. Spread(h, s) \o <<>> = Spread(h, s)
    BY <2>2
  <2>5. 0 \in 0..n
    BY <1>1
  <2>6. p(0) \in Seq(S) /\ s \o p(0) = s /\ Spread(h, p(0)) = <<>>
    BY <1>1, <2>1, <2>3, Zenon
  <2>. QED BY <2>4, <2>5, <2>6
<1>4. ASSUME NEW k \in 1..n, k - 1 \in P
      PROVE  k \in P
  <2> DEFINE q == p(k - 1)
             x == t[k]
             a == Spread(h, s)
             b == Spread(h, q)
             c == PartOf(h, x)
  <2>1. q \in Seq(S) /\ x \in S /\ p(k) = Append(q, x) /\ Spread(h, s \o q) = a \o b /\ k \in 0..n
    <3>1. k \in 0..n
      BY <1>1
    <3>. QED BY <1>2, <1>4, <3>1, Zenon
  <2> HIDE DEF q, x
  <2>2. s \o q \in Seq(S) /\ Append(q, x) \in Seq(S) /\ s \o Append(q, x) = Append(s \o q, x)
    <3>1. s \o q \in Seq(S) /\ Append(q, x) \in Seq(S) /\ <<x>> \in Seq(S)
      BY <2>1, ConcatProperties
    <3>2. Append(q, x) = q \o <<x>> /\ Append(s \o q, x) = (s \o q) \o <<x>>
      BY <2>1, <3>1, AppendIsConcat
    <3>3. (s \o q) \o <<x>> = s \o (q \o <<x>>)
      BY <2>1, <3>1, ConcatAssociative
    <3>. QED BY <3>1, <3>2, <3>3
  <2>3. Spread(h, Append(s \o q, x)) = Spread(h, s \o q) \o c
    <3>1. SpreadMore(S, h, s \o q, x)
      BY <2>1, <2>2, SpreadNext
    <3>. QED BY <3>1 DEF SpreadMore
  <2>4. Spread(h, Append(q, x)) = b \o c /\ b \in Seq(S) /\ c \in Seq(S)
    <3>1. SpreadMore(S, h, q, x)
      BY <2>1, SpreadNext
    <3>. QED BY <3>1 DEF SpreadMore
  <2>5. a \in Seq(S)
    BY ConcatenatedIs
  <2> HIDE DEF a, b, c
  <2>6. (a \o b) \o c = a \o (b \o c)
    BY <2>4, <2>5, ConcatAssociative
  <2>7. Spread(h, s \o p(k)) = a \o Spread(h, p(k)) /\ p(k) \in Seq(S)
    BY <2>1, <2>2, <2>3, <2>4, <2>6
  <2>. QED BY <2>1, <2>7 DEF a
<1> HIDE DEF P
<1>5. n \in P
  <2>1. \A k \in 0..n : k \in P
    BY <1>1, <1>3, <1>4, Rounds
  <2>. QED BY <1>1, <2>1
<1>. QED BY <1>1, <1>5 DEF P

(* To the depth of two: what one level made is spread once more. *)
LEMMA SpreadTwice ==
  ASSUME NEW S, NEW h, NEW g, NEW s, s \in Seq(S), h \in [ArrayIds -> Seq(S)],
         g \in [ArrayIds -> Seq(S)], \A b \in ArrayIds : g[b] = Spread(h, h[b])
  PROVE  Spread(g, s) = Spread(h, Spread(h, s))
<1> DEFINE n == Len(s)
           p(k) == SubSeq(s, 1, k)
           P == {k \in 0..n : Spread(g, p(k)) = Spread(h, Spread(h, p(k)))}
<1>1. n \in Nat /\ p(0) = <<>> /\ p(n) = s
  BY Firsts
<1>2. \A k \in 1..n : p(k - 1) \in Seq(S) /\ s[k] \in S /\ p(k) = Append(p(k - 1), s[k])
  BY Firsts
<1> HIDE DEF p, n
<1>3. 0 \in P
  <2>1. Spread(h, <<>>) = <<>> /\ Spread(g, <<>>) = <<>>
    BY DEF Spread, PartsOf, FlattenSeq
  <2>. QED BY <1>1, <2>1
<1>4. ASSUME NEW k \in 1..n, k - 1 \in P
      PROVE  k \in P
  <2> DEFINE q == p(k - 1)
             x == s[k]
             a == Spread(h, q)
             c == PartOf(h, x)
  <2>1. q \in Seq(S) /\ x \in S /\ p(k) = Append(q, x) /\ Spread(g, q) = Spread(h, a) /\ k \in 0..n
    BY <1>1, <1>2, <1>4
  <2> HIDE DEF q, x
  <2>2. Spread(g, Append(q, x)) = Spread(g, q) \o PartOf(g, x)
    <3>1. SpreadMore(S, g, q, x)
      BY <2>1, SpreadNext
    <3>. QED BY <3>1 DEF SpreadMore
  <2>3. Spread(h, Append(q, x)) = a \o c /\ a \in Seq(S) /\ c \in Seq(S)
    <3>1. SpreadMore(S, h, q, x)
      BY <2>1, SpreadNext
    <3>. QED BY <3>1 DEF SpreadMore
  <2>4. Spread(h, c) = PartOf(g, x)
    <3>1. CASE x \in ArrayIds
      BY <3>1 DEF PartOf
    <3>2. CASE x \notin ArrayIds
      <4>1. c = <<x>> /\ PartOf(g, x) = <<x>>
        BY <3>2 DEF PartOf
      <4>2. Spread(h, <<x>>) = c
        BY <2>1, SpreadFew
      <4>. QED BY <4>1, <4>2
    <3>. QED BY <3>1, <3>2
  <2> HIDE DEF a, c
  <2>5. Spread(h, a \o c) = Spread(h, a) \o Spread(h, c)
    BY <2>3, SpreadJoins
  <2>. QED BY <2>1, <2>2, <2>3, <2>4, <2>5
<1> HIDE DEF P
<1>5. n \in P
  <2>1. \A k \in 0..n : k \in P
    BY <1>1, <1>3, <1>4, Rounds
  <2>. QED BY <1>1, <2>1
<1>. QED BY <1>1, <1>5 DEF P

(* At depth 0 nothing is replaced. *)
LEMMA FlatNothing ==
  ASSUME NEW S, NEW F, NEW s, s \in Seq(S)
  PROVE  FlatStep(F, 0, s) = s
<1> DEFINE n == Len(s)
           parts == FlatParts(F, 0, s)
           j == [k \in 1..n |-> SubSeq(s, 1, k)]
<1>1. n \in Nat /\ DOMAIN s = 1..n /\ (n = 0 => s = <<>>) /\ \A k \in 1..n : s[k] \in S
  OBVIOUS
<1>2. FlatStep(F, 0, s) = FlattenSeq(parts)
  BY FlatStepIs DEF Deeper
<1>3. parts = [k \in 1..n |-> <<s[k]>>]
  BY <1>1 DEF FlatParts
<1>4. \A k \in 1..n : <<s[k]>> \in Seq(S)
  BY <1>1
<1>5. SubSeq(s, 1, n) = s /\ SubSeq(s, 1, 0) = <<>>
      /\ \A k \in 1..n : /\ SubSeq(s, 1, k - 1) \in Seq(S) /\ s[k] \in S
                         /\ SubSeq(s, 1, k) = Append(SubSeq(s, 1, k - 1), s[k])
  BY Firsts
<1> HIDE DEF parts, n
<1>6. parts \in Seq(Seq(S)) /\ Len(parts) = n /\ \A k \in 1..n : parts[k] = <<s[k]>>
  BY <1>1, <1>3, <1>4
<1>7. ASSUME NEW k \in 1..n
      PROVE  j[k] \in Seq(S) /\ j[k] = IF k = 1 THEN parts[k] ELSE j[k - 1] \o parts[k]
  <2> DEFINE q == SubSeq(s, 1, k - 1)
             x == s[k]
  <2>1. q \in Seq(S) /\ x \in S /\ j[k] = Append(q, x) /\ parts[k] = <<x>>
    BY <1>5, <1>6
  <2>2. k = 1 => q = <<>>
    BY <1>5
  <2>3. k # 1 => j[k - 1] = q
    <3>1. k # 1 => k - 1 \in 1..n
      BY <1>1
    <3>. QED BY <3>1
  <2> HIDE DEF q, x, j
  <2>4. Append(q, x) \in Seq(S) /\ Append(q, x) = q \o <<x>> /\ <<>> \o <<x>> = <<x>>
    BY <2>1, AppendIsConcat
  <2>. QED BY <2>1, <2>2, <2>3, <2>4
<1>8. Joining(j, S, parts)
  <2>1. j = [k \in 1..n |-> j[k]]
    OBVIOUS
  <2> HIDE DEF j
  <2>2. j \in [1..n -> Seq(S)]
    BY <1>7, <2>1
  <2>. QED BY <1>6, <1>7, <2>2 DEF Joining
<1>9. FlattenSeq(parts) = IF n = 0 THEN <<>> ELSE j[n]
  <2> HIDE DEF j
  <2>. QED BY <1>6, <1>8, FlattenIs
<1>10. n # 0 => j[n] = s
  <2>1. n # 0 => n \in 1..n
    BY <1>1
  <2>. QED BY <1>5, <2>1
<1>. QED BY <1>1, <1>2, <1>9, <1>10 DEF n

LevelBelow(F, d, g) == \A v \in ArrayIds : F[d - 1][v] = g[v]

(* At another the arrays are replaced by what the level below makes of them. *)
LevelMade(S, F, g, s) ==
  s \in Seq(S) /\ \A d \in {1, 2} : LevelBelow(F, d, g) => FlatStep(F, d, s) = Spread(g, s)

(* So it is made. *)
LEMMA FlatDeeper ==
  ASSUME NEW S, NEW F, NEW g, NEW s, s \in Seq(S), g \in [ArrayIds -> Seq(S)]
  PROVE  LevelMade(S, F, g, s)
<1> SUFFICES ASSUME NEW d \in {1, 2}, LevelBelow(F, d, g)
             PROVE  FlatStep(F, d, s) = Spread(g, s)
  BY DEF LevelMade
<1>0. d \in Nat /\ d > 0
  OBVIOUS
<1>1. Deeper(F, d, S)
  BY DEF Deeper, LevelBelow
<1>2. FlatStep(F, d, s) = FlattenSeq(FlatParts(F, d, s))
  BY <1>0, <1>1, FlatStepIs
<1>3. \A k \in DOMAIN s : PartOf(g, s[k]) = IF d > 0 /\ s[k] \in ArrayIds THEN F[d - 1][s[k]] ELSE <<s[k]>>
  BY <1>0 DEF PartOf, LevelBelow
<1>4. FlatParts(F, d, s) = PartsOf(g, s)
  BY <1>3 DEF FlatParts, PartsOf
<1>. QED BY <1>2, <1>4 DEF Spread

(* The first three levels, of any F. *)
LevelsOf(F, h, g) ==
  \A b \in ArrayIds : /\ FlatStep(F, 0, h[b]) = h[b]
                      /\ LevelBelow(F, 1, h) => FlatStep(F, 1, h[b]) = Spread(h, h[b])
                      /\ LevelBelow(F, 2, g) => FlatStep(F, 2, h[b]) = Spread(g, h[b])

(* They are these. *)
LEMMA LevelsForm ==
  ASSUME NEW S, NEW F, NEW h, NEW g, h \in [ArrayIds -> Seq(S)], g \in [ArrayIds -> Seq(S)]
  PROVE  LevelsOf(F, h, g)
<1> SUFFICES ASSUME NEW b \in ArrayIds
             PROVE  /\ FlatStep(F, 0, h[b]) = h[b]
                    /\ LevelBelow(F, 1, h) => FlatStep(F, 1, h[b]) = Spread(h, h[b])
                    /\ LevelBelow(F, 2, g) => FlatStep(F, 2, h[b]) = Spread(g, h[b])
  BY DEF LevelsOf
<1>1. h[b] \in Seq(S) /\ 1 \in {1, 2} /\ 2 \in {1, 2}
  OBVIOUS
<1>2. FlatStep(F, 0, h[b]) = h[b]
  BY <1>1, FlatNothing
<1>3. LevelMade(S, F, h, h[b]) /\ LevelMade(S, F, g, h[b])
  BY <1>1, FlatDeeper
<1>. QED BY <1>1, <1>2, <1>3, Zenon DEF LevelMade

(* F computes every level from the one below it. *)
FlatLevels(F, h, depth) == F = [d \in 0..depth |-> [b \in ArrayIds |-> FlatStep(F, d, h[b])]]

(* There is one, as far as the second level. *)
LEMMA LevelsExist ==
  ASSUME NEW S, NEW h, NEW g, NEW depth, h \in [ArrayIds -> Seq(S)], depth \in {1, 2},
         g \in [ArrayIds -> Seq(S)], \A b \in ArrayIds : g[b] = Spread(h, h[b])
  PROVE  \E F : FlatLevels(F, h, depth)
<1> DEFINE e(d, b) == IF d = 0 THEN h[b] ELSE IF d = 1 THEN Spread(h, h[b]) ELSE Spread(g, h[b])
           W == [d \in 0..depth |-> [b \in ArrayIds |-> e(d, b)]]
<1>1. \A d \in 0..depth, b \in ArrayIds : W[d][b] = e(d, b)
  OBVIOUS
<1>2. 0 \in 0..depth /\ 1 \in 0..depth /\ \A d \in 0..depth : d = 0 \/ d = 1 \/ (d = 2 /\ 2 \in 0..depth)
  OBVIOUS
<1>3. W = [d \in 0..depth |-> [b \in ArrayIds |-> e(d, b)]]
  OBVIOUS
<1> HIDE DEF W
<1>4. LevelBelow(W, 1, h) /\ LevelBelow(W, 2, g)
  BY <1>1, <1>2 DEF LevelBelow
<1>5. LevelsOf(W, h, g)
  BY LevelsForm
<1>6. ASSUME NEW d \in 0..depth, NEW b \in ArrayIds
      PROVE  e(d, b) = FlatStep(W, d, h[b])
  <2>1. FlatStep(W, 0, h[b]) = h[b]
    BY <1>5 DEF LevelsOf
  <2>2. FlatStep(W, 1, h[b]) = Spread(h, h[b]) /\ FlatStep(W, 2, h[b]) = Spread(g, h[b])
    BY <1>4, <1>5 DEF LevelsOf
  <2>. QED BY <1>2, <2>1, <2>2
<1> HIDE DEF e
<1>7. W = [d \in 0..depth |-> [b \in ArrayIds |-> FlatStep(W, d, h[b])]]
  BY <1>3, <1>6
<1>. QED BY <1>7 DEF FlatLevels

(* What each level is. *)
LEMMA LevelsAre ==
  ASSUME NEW S, NEW h, NEW g, NEW F, NEW depth, h \in [ArrayIds -> Seq(S)], depth \in {1, 2},
         g \in [ArrayIds -> Seq(S)], \A b \in ArrayIds : g[b] = Spread(h, h[b]), FlatLevels(F, h, depth)
  PROVE  \A b \in ArrayIds : F[1][b] = Spread(h, h[b]) /\ (depth = 2 => F[2][b] = Spread(g, h[b]))
<1>1. \A d \in 0..depth, b \in ArrayIds : F[d][b] = FlatStep(F, d, h[b])
  <2> DEFINE k(d, b) == FlatStep(F, d, h[b])
  <2>1. F = [d \in 0..depth |-> [b \in ArrayIds |-> k(d, b)]]
    BY DEF FlatLevels
  <2> HIDE DEF k
  <2>2. \A d \in 0..depth, b \in ArrayIds : F[d][b] = k(d, b)
    BY <2>1
  <2>. QED BY <2>2 DEF k
<1>2. 0 \in 0..depth /\ 1 \in 0..depth /\ (depth = 2 => 2 \in 0..depth)
  OBVIOUS
<1>3. LevelsOf(F, h, g)
  BY LevelsForm
<1>4. LevelBelow(F, 1, h)
  BY <1>1, <1>2, <1>3 DEF LevelBelow, LevelsOf
<1>5. \A b \in ArrayIds : F[1][b] = Spread(h, h[b])
  BY <1>1, <1>2, <1>3, <1>4 DEF LevelsOf
<1>6. LevelBelow(F, 2, g)
  BY <1>5 DEF LevelBelow
<1>7. ASSUME depth = 2, NEW b \in ArrayIds
      PROVE  F[2][b] = Spread(g, h[b])
  BY <1>1, <1>2, <1>3, <1>6, <1>7 DEF LevelsOf
<1>. QED BY <1>5, <1>7

(* flat() to a depth of one and of two. *)
LEMMA FlattenedIs ==
  ASSUME NEW h, NEW a, h \in [ArrayIds -> Seq(Elems)], a \in ArrayIds
  PROVE  /\ Flattened(h, a, 1) = Spread(h, h[a])
         /\ Flattened(h, a, 2) = Concatenated(h, <<>>, Flattened(h, a, 1))
<1> DEFINE g == [b \in ArrayIds |-> Spread(h, h[b])]
           level(depth) == CHOOSE F : F = [d \in 0..depth |-> [b \in ArrayIds |-> FlatStep(F, d, h[b])]]
<1>1. \A b \in ArrayIds : h[b] \in Seq(Elems)
  OBVIOUS
<1>2. \A b \in ArrayIds : Spread(h, h[b]) \in Seq(Elems)
  BY <1>1, ConcatenatedIs
<1>3. g \in [ArrayIds -> Seq(Elems)] /\ \A b \in ArrayIds : g[b] = Spread(h, h[b])
  BY <1>2
<1> HIDE DEF g
<1>4. ASSUME NEW depth \in {1, 2}
      PROVE  FlatLevels(level(depth), h, depth)
  <2>1. \E F : FlatLevels(F, h, depth)
    BY <1>3, LevelsExist
  <2>. QED BY <2>1, Zenon DEF FlatLevels
<1>5. Flattened(h, a, 1) = level(1)[1][a] /\ Flattened(h, a, 2) = level(2)[2][a]
  BY DEF Flattened, FlatStep, FoldLeft, MapThenFoldSet
<1> HIDE DEF level
<1>6. level(1)[1][a] = Spread(h, h[a])
  <2>1. 1 \in {1, 2} /\ FlatLevels(level(1), h, 1)
    BY <1>4
  <2>. QED BY <1>3, <2>1, LevelsAre
<1>7. level(2)[2][a] = Spread(g, h[a])
  <2>1. 2 \in {1, 2} /\ FlatLevels(level(2), h, 2)
    BY <1>4
  <2>. QED BY <1>3, <2>1, LevelsAre
<1>8. Spread(g, h[a]) = Spread(h, Spread(h, h[a]))
  BY <1>1, <1>3, SpreadTwice
<1>9. Concatenated(h, <<>>, Spread(h, h[a])) = Spread(h, Spread(h, h[a]))
  BY <1>2, ConcatenatedIs
<1>. QED BY <1>5, <1>6, <1>7, <1>8, <1>9

(* At every moment every method that calls nothing back does what ECMAScript
   says of it, for arrays of any elements and length, and any index arguments. *)
THEOREM MethodsHold == Spec => []MethodsAgree /\ []MethodsExact
<1>1. LibraryInv => MethodsAgree
  <2> SUFFICES ASSUME ArraysInv
               PROVE  MethodsAgree
    BY DEF LibraryInv
  <2>1. arrays \in [ArrayIds -> Seq(Elems)]
    BY DEF ArraysInv
  <2>2. ASSUME NEW a \in ArrayIds
        PROVE  LET s == arrays[a]
               IN /\ \A v \in Elems, i \in Indices :
                       SearchesExact(s, v, i) /\ \A j \in Indices : MutatorsExact(s, v, i, j)
                  /\ Flattened(arrays, a, 1) =
                       FlattenSeq([k \in DOMAIN s |-> IF s[k] \in ArrayIds THEN arrays[s[k]] ELSE <<s[k]>>])
                  /\ Flattened(arrays, a, 2) = Concatenated(arrays, <<>>, Flattened(arrays, a, 1))
    <3> DEFINE s == arrays[a]
    <3>1. s \in Seq(Elems)
      BY <2>1
    <3>2. Flattened(arrays, a, 1) = Spread(arrays, s)
          /\ Flattened(arrays, a, 2) = Concatenated(arrays, <<>>, Flattened(arrays, a, 1))
      BY <2>1, FlattenedIs
    <3> HIDE DEF s
    <3>3. \A v \in Elems, i \in Indices :
            SearchesExact(s, v, i) /\ \A j \in Indices : MutatorsExact(s, v, i, j)
      BY <3>1, SearchesHold, MutatorsHold
    <3>4. PartsOf(arrays, s) = [k \in DOMAIN s |-> IF s[k] \in ArrayIds THEN arrays[s[k]] ELSE <<s[k]>>]
      BY <2>1 DEF PartsOf, PartOf
    <3>. QED BY <3>2, <3>3, <3>4, Zenon DEF s, Spread
  <2>. QED BY <2>2, Zenon DEF MethodsAgree
<1>2. MethodsAgree => MethodsExact
  BY DEF MethodsExact
<1>. QED BY <1>1, <1>2, LibraryHolds, PTL
=============================================================================
