----------------------------- MODULE RangePlan -----------------------------
(***************************************************************************)
(* The arithmetic of proxy/range.rs: a Range header resolved against an    *)
(* object's length, the slices that cover it, and the part of each slice   *)
(* that belongs to it.  Byte ranges are inclusive, as in the code.         *)
(***************************************************************************)
EXTENDS Integers

CONSTANT U32Max    \* the largest slice index

ASSUME U32MaxNat == U32Max \in Nat

\* RangeSpec, and no usable Range header at all.
FromTo(a, b) == [kind |-> "fromto", from |-> a, to |-> b]
From(a) == [kind |-> "from", from |-> a, to |-> 0]
Suffix(n) == [kind |-> "suffix", from |-> n, to |-> 0]
NoSpec == [kind |-> "none", from |-> 0, to |-> 0]

\* ByteRange
Bytes(start, end) == [start |-> start, end |-> end]
RangeLen(range) == range.end - range.start + 1

Min2(a, b) == IF a <= b THEN a ELSE b
Max2(a, b) == IF a >= b THEN a ELSE b
SatSub(a, b) == IF a >= b THEN a - b ELSE 0

\* resolve, when it succeeds: the object is not empty, the range begins inside it
\* and is not empty.
Satisfiable(spec, total) ==
    /\ total > 0
    /\ spec.kind \in {"fromto", "from"} => spec.from <= total - 1
    /\ spec.kind = "suffix" => spec.from # 0

\* Mutant of Resolve: the end of a range is not clamped to the object.
Resolve_Unclamped(spec, total) ==
    Bytes(IF spec.kind = "suffix" THEN total - Min2(spec.from, total) ELSE spec.from,
          IF spec.kind = "fromto" THEN spec.to ELSE total - 1)

\* resolve's ByteRange, and whole's for no spec: the end is clamped, not rejected.
Resolve(spec, total) ==
    Bytes(IF spec.kind = "suffix" THEN total - Min2(spec.from, total) ELSE spec.from,
          IF spec.kind = "fromto" THEN Min2(spec.to, total - 1) ELSE total - 1)

\* max_addressable_len
MaxAddressable(size) == (U32Max + 1) * size

\* plan: indices are saturated, not truncated.
ToIndex(byte, size) == Min2(byte \div size, U32Max)
FirstSlice(range, size) == ToIndex(range.start, size)
LastSlice(range, size) == Max2(ToIndex(range.end, size), FirstSlice(range, size))

\* slice_extent: the last slice of an object is short.
SliceExtent(index, size, total) ==
    Bytes(index * size, Min2(index * size + size - 1, SatSub(total, 1)))

\* Mutant of WindowTo: the inclusive end is taken for an exclusive one.
WindowTo_Exclusive(index, size, wanted) == Min2(wanted.end - index * size, size)

\* payload_window: the offsets into slice index's payload that belong to wanted.
WindowFrom(index, size, wanted) == SatSub(wanted.start, index * size)
WindowTo(index, size, wanted) == Min2(wanted.end - index * size + 1, size)
=============================================================================
