----------------------------- MODULE StoreCodec -----------------------------
(***************************************************************************)
(* What is on disk: the encoding of a slice (store/slice.rs) and of an     *)
(* entry of the object index (store/index.rs).  A buffer is a sequence of  *)
(* cells; a cell is one fixed-width field, or one byte of a string or of a *)
(* payload.  A string that is absent is NoString.                          *)
(***************************************************************************)
EXTENDS Integers, Sequences

CONSTANTS
    MAGIC,
    ABSENT    \* u32::MAX in the place of a length

ASSUME CellsNat == MAGIC \in Nat /\ ABSENT \in Nat

NoString == <<-1>>

\* A string's length is written as a u32 other than u32::MAX.
Strings == {s \in Seq(Nat) : Len(s) < ABSENT}
OptStrings == Strings \cup {NoString}

\* SliceHeader and ObjectMeta.
SliceHeaders ==
    [slice_size : Nat, total_len : Nat, generation : Nat,
     etag : OptStrings, last_modified : OptStrings, content_type : OptStrings]
ObjectMetas ==
    [key : Strings, total_len : Nat, generation : Nat,
     etag : OptStrings, last_modified : OptStrings, content_type : OptStrings,
     no_ranges : BOOLEAN, created : Nat, last_seen : Nat, stale : BOOLEAN]

\* write_opt_str, put_str
put_str(s) == IF s = NoString THEN <<ABSENT>> ELSE <<Len(s)>> \o s

\* read_opt_str, Cursor::string, at a cell: whether the buffer has it, the string, and the
\* cell after it.
has_str(cells, at) ==
    at <= Len(cells) /\ (cells[at] = ABSENT \/ cells[at] <= Len(cells) - at)
str(cells, at) == IF cells[at] = ABSENT THEN NoString ELSE SubSeq(cells, at + 1, at + cells[at])
past(cells, at) == IF cells[at] = ABSENT THEN at + 1 ELSE at + 1 + cells[at]

\* xxh3_64, taken as injective.
checksum(payload) ==
    LET Sum[n \in 0 .. Len(payload)] == IF n = 0 THEN 1 ELSE 100 * Sum[n - 1] + payload[n]
    IN Sum[Len(payload)]

\* SliceHeader::encode and SliceValue::encode.  The checksum is of the payload only.
encode_slice(header, payload) ==
    <<MAGIC, header.slice_size, header.total_len, header.generation>>
    \o put_str(header.etag) \o put_str(header.last_modified) \o put_str(header.content_type)
    \o <<checksum(payload), Len(payload)>> \o payload

NoPayload == <<-2>>

\* Mutant of verified: the checksum is not compared.
verified_Unchecked(expected, payload) == TRUE

verified(expected, payload) == checksum(payload) = expected

\* SliceValue::decode: the payload, the only part of a stored slice that is read back.
decode_slice(cells) ==
    IF Len(cells) < 4 \/ cells[1] # MAGIC \/ ~has_str(cells, 5) THEN NoPayload
    ELSE LET lm == past(cells, 5) IN
    IF ~has_str(cells, lm) THEN NoPayload
    ELSE LET ct == past(cells, lm) IN
    IF ~has_str(cells, ct) THEN NoPayload
    ELSE LET at == past(cells, ct) IN
    IF Len(cells) < at + 1 \/ Len(cells) - at - 1 < cells[at + 1] THEN NoPayload
    ELSE LET payload == SubSeq(cells, at + 2, at + 1 + cells[at + 1])
         IN IF verified(cells[at], payload) THEN payload ELSE NoPayload
-----------------------------------------------------------------------------
Flag(b) == IF b THEN 1 ELSE 0

\* ObjectMeta::encode
encode_meta(m) ==
    <<m.total_len, m.generation, Flag(m.no_ranges), Flag(m.stale), m.created, m.last_seen>>
    \o put_str(m.key) \o put_str(m.etag) \o put_str(m.last_modified) \o put_str(m.content_type)

Corrupt == [corrupt |-> TRUE]

\* ObjectMeta::decode
decode_meta(cells) ==
    IF Len(cells) < 6 \/ ~has_str(cells, 7) \/ str(cells, 7) = NoString THEN Corrupt
    ELSE LET etag == past(cells, 7) IN
    IF ~has_str(cells, etag) THEN Corrupt
    ELSE LET lm == past(cells, etag) IN
    IF ~has_str(cells, lm) THEN Corrupt
    ELSE LET ct == past(cells, lm) IN
    IF ~has_str(cells, ct) THEN Corrupt
    ELSE [key |-> str(cells, 7), total_len |-> cells[1], generation |-> cells[2],
          etag |-> str(cells, etag), last_modified |-> str(cells, lm),
          content_type |-> str(cells, ct), no_ranges |-> cells[3] # 0,
          created |-> cells[5], last_seen |-> cells[6], stale |-> cells[4] # 0]
=============================================================================
