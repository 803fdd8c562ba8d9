------------------------------- MODULE PbWire -------------------------------
(* The byte streams of nanopb (pb_decode.c, pb_encode.c): a stream being    *)
(* read is its position in the bytes and how many of them it may still read *)
(* (bytes_left); a substream reads the same bytes with a nearer end.  What a*)
(* read gives is [ok, val, s]: whether it succeeded, the value and the      *)
(* stream after it.                                                         *)
EXTENDS Integers, Sequences, SequencesExt, FiniteSetsExt

CONSTANTS LongBits,  \* the width of uint64_t, scaled down
          WordBits   \* the width of uint32_t, scaled down

ASSUME WidthsOrdered == WordBits \in Nat /\ LongBits \in Nat /\ 7 < WordBits /\ WordBits <= LongBits

Byte == 0 .. 255

Good(v, s) == [ok |-> TRUE, val |-> v, s |-> s]
Fail(s) == [ok |-> FALSE, val |-> 0, s |-> s]

\* pb_istream_from_buffer.
Stream(bytes) == [pos |-> 1, left |-> Len(bytes)]
Past(s, n) == [pos |-> s.pos + n, left |-> s.left - n]

\* Mutant: what is there is read.
ReadWhatIsLeft(bytes, s, n) ==
    LET k == Min({n, s.left}) IN Good(SubSeq(bytes, s.pos, s.pos + k - 1), Past(s, k))

\* pb_read and buf_read.
Read(bytes, s, n) ==
    IF s.left < n THEN Fail(s) ELSE Good(SubSeq(bytes, s.pos, s.pos + n - 1), Past(s, n))

(* pb_decode_varint (bits = LongBits) and pb_decode_varint32 (WordBits): the*)
(* bytes with the high bit set and one without, read while the shift is     *)
(* below the width; the value keeps the bits that fit.                      *)
Digits(bits) == (bits + 6) \div 7
DecodeVarint(bytes, s, bits) ==
    LET ends == {n \in 1 .. s.left : bytes[s.pos + n - 1] < 128}
        n == Min(ends)
        Digit(i) == (bytes[s.pos + i - 1] % 128) * 2^(7 * (i - 1))
    IN  IF ends # {} /\ n <= Digits(bits)
        THEN Good(FoldLeft(LAMBDA a, i : a + Digit(i), 0, [i \in 1 .. n |-> i]) % 2^bits, Past(s, n))
        ELSE Fail(Past(s, Min({s.left, Digits(bits)})))

\* pb_skip_varint: of any length.
SkipVarint(bytes, s) ==
    LET ends == {n \in 1 .. s.left : bytes[s.pos + n - 1] < 128}
    IN  IF ends = {} THEN Fail(Past(s, s.left)) ELSE Good(0, Past(s, Min(ends)))

(* pb_make_string_substream: sub may read what the length says, the parent  *)
(* no longer counts those bytes.                                            *)
Divide(size) ==
    IF ~size.ok \/ size.s.left < size.val THEN Fail(size.s)
    ELSE Good([size.s EXCEPT !.left = size.val], [size.s EXCEPT !.left = @ - size.val])
MakeSubstream(bytes, s) == Divide(DecodeVarint(bytes, s, WordBits))

\* pb_close_string_substream: the parent goes on after what sub had left.
CloseSubstream(parent, sub) == [parent EXCEPT !.pos = sub.pos + sub.left]

ReadSized(bytes, size) == IF size.ok THEN Read(bytes, size.s, size.val) ELSE Fail(size.s)
SkipString(bytes, s) == ReadSized(bytes, DecodeVarint(bytes, s, WordBits))

\* pb_skip_field.
SkipField(bytes, s, wireType) ==
    CASE wireType = "varint" -> SkipVarint(bytes, s)
      [] wireType = "64bit" -> Read(bytes, s, 8)
      [] wireType = "string" -> SkipString(bytes, s)
      [] wireType = "32bit" -> Read(bytes, s, 4)
      [] OTHER -> Fail(s)

WireTypes == <<"varint", "64bit", "string", "group", "endgroup", "32bit", "six", "seven">>
WireCode(wireType) == (CHOOSE i \in DOMAIN WireTypes : WireTypes[i] = wireType) - 1

(* pb_decode_tag.  A zero, and bytes that end before the tag does, count as *)
(* the end of the message.                                                  *)
AsTag(v) ==
    [ok |-> v.ok /\ v.val # 0, s |-> v.s,
     eof |-> IF v.ok THEN v.val = 0 ELSE v.s.left = 0,
     tag |-> v.val \div 8, wire |-> WireTypes[(v.val % 8) + 1]]
DecodeTag(bytes, s) == AsTag(DecodeVarint(bytes, s, WordBits))

\* read_raw_value: a scalar as it is on the wire, at most ten bytes of it.
ReadRaw(bytes, s, wireType) ==
    CASE wireType = "varint" ->
           LET r == SkipVarint(bytes, s)
           IN  IF r.ok /\ r.s.pos - s.pos <= Digits(LongBits) THEN Read(bytes, s, r.s.pos - s.pos)
               ELSE Fail(s)
      [] wireType = "64bit" -> Read(bytes, s, 8)
      [] wireType = "32bit" -> Read(bytes, s, 4)
      [] OTHER -> Fail(s)

----------------------------------------------------------------------------
\* pb_encode_varint: the low digits first.
EncodeVarint(v) ==
    LET n == Min({k \in 1 .. Digits(LongBits) : v < 2^(7 * k)})
    IN  [i \in 1 .. n |-> ((v \div 2^(7 * (i - 1))) % 128) + IF i < n THEN 128 ELSE 0]

EncodeTag(wireType, tag) == EncodeVarint(8 * tag + WireCode(wireType))
EncodeString(bytes) == EncodeVarint(Len(bytes)) \o bytes

\* Mutant: the negative numbers are doubled as they are.
Doubled(v) == IF v < 0 THEN -2 * v ELSE 2 * v

\* pb_encode_svarint, pb_decode_svarint.
ZigZag(v) == IF v < 0 THEN -2 * v - 1 ELSE 2 * v
UnZigZag(v) == IF v % 2 = 1 THEN -((v \div 2) + 1) ELSE v \div 2
=============================================================================
