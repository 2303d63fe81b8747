------------------------------ MODULE TypedArrays ------------------------------
(***************************************************************************)
(* Elements of typed arrays over the bytes of a buffer (internal/builtins/ *)
(* typed_array.go).  A byte has Base values instead of 256, so an Int32    *)
(* has Base^4; byte order, wrapping and signs are the code's.  Elements    *)
(* of Float64Array are out of TLC's arithmetic.                            *)
(***************************************************************************)
EXTENDS Integers, Sequences

CONSTANT Base   \* the number of values of a byte

ASSUME BaseAssumption == Base \in Nat /\ Base >= 2 /\ Base % 2 = 0

Kinds == {"Uint8", "Int32"}
BytesPerElem(kind) == IF kind = "Uint8" THEN 1 ELSE 4

Words == Base * Base * Base * Base                         \* 2^32
ToUint32JS(v) == v % Words                                 \* of integers
Int32(u) == IF u >= Words \div 2 THEN u - Words ELSE u     \* Go's int32(uint32)

(* The bytes of u, the least significant one first: byte(u), byte(u >> 8), ... *)
Octets(u) ==
  LET u1 == u \div Base  u2 == u1 \div Base  u3 == u2 \div Base
  IN <<u % Base, u1 % Base, u2 % Base, u3 % Base>>

(* Where readElem and writeElem go on, and where they slice below 0: the check of
   Int32 has no lower bound (typed_array.go:269-273, 292-297). *)
Fits(bytes, kind, i) == /\ i >= 0
                        /\ BytesPerElem(kind) * i + BytesPerElem(kind) <= Len(bytes)
Panics(kind, i) == kind = "Int32" /\ i < 0

(* binary.LittleEndian *)
ReadElem(bytes, kind, i) ==
  IF ~Fits(bytes, kind, i) THEN 0
  ELSE IF kind = "Uint8" THEN bytes[i + 1]
  ELSE Int32(bytes[4 * i + 1] + Base * (bytes[4 * i + 2]
               + Base * (bytes[4 * i + 3] + Base * bytes[4 * i + 4])))

(* Slip: the most significant byte first. *)
WriteElemBig(bytes, kind, i, v) ==
  IF ~Fits(bytes, kind, i) THEN bytes
  ELSE [b \in DOMAIN bytes |->
          LET k == b - 1 - BytesPerElem(kind) * i
          IN IF k \in 0..(BytesPerElem(kind) - 1)
               THEN Octets(ToUint32JS(v))[BytesPerElem(kind) - k] ELSE bytes[b]]

WriteElem(bytes, kind, i, v) ==
  IF ~Fits(bytes, kind, i) THEN bytes
  ELSE [b \in DOMAIN bytes |->
          LET k == b - 1 - BytesPerElem(kind) * i
          IN IF k \in 0..(BytesPerElem(kind) - 1) THEN Octets(ToUint32JS(v))[k + 1] ELSE bytes[b]]

-----------------------------------------------------------------------------
(* Views: kind, buffer, byte offset and length in elements. *)

Slot(view, i) == i + view.offset \div BytesPerElem(view.kind)
InView(view, i) == i >= 0 /\ i < view.length

(* Go's quotient truncates: behind the end of the bytes it is 0 or less. *)
LengthLeft(bytes, kind, offset) ==
  LET left == Len(bytes) - offset
  IN IF left >= 0 THEN left \div BytesPerElem(kind) ELSE -((-left) \div BytesPerElem(kind))
ZeroBytes(n) == [b \in 1..n |-> 0]

(* view.set(source, off): the view's own length is not asked. *)
Filled(bytes, view, source, off) ==
  LET done[k \in 0..Len(source)] ==
        IF k = 0 THEN bytes ELSE WriteElem(done[k - 1], view.kind, Slot(view, off + k - 1), source[k])
  IN done[Len(source)]

(* view.slice(start, end), element by element into a buffer of its own. *)
Counted(i, n) == IF i < 0 THEN i + n ELSE i
SliceElems(bytes, view, start, end) ==
  LET s == IF Counted(start, view.length) < 0 THEN 0 ELSE Counted(start, view.length)
      e == IF Counted(end, view.length) > view.length THEN view.length ELSE Counted(end, view.length)
  IN IF e <= s THEN <<>> ELSE [k \in 1..(e - s) |-> ReadElem(bytes, view.kind, Slot(view, s + k - 1))]
=============================================================================
