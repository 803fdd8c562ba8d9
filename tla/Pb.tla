--------------------------------- MODULE Pb ---------------------------------
(* nanopb as the pods are built with it: no malloc, so every field is static*)
(* or a callback's.  A program holds a message, writes it with pb_encode    *)
(* into a buffer and reads messages with pb_decode from bytes that may have *)
(* been written by a program with another idea of the fields, and may have  *)
(* been cut.  Decoding goes field by field; a message read is written again *)
(* and the copy is read.                                                    *)
(*                                                                          *)
(* A field of a message type is a record [tag, slot, type, rule, bits, max, *)
(* sub]: slot is where its value lies in the struct (fields of a oneof share*)
(* one), bits the width of an integer, max the size of an array, a string or*)
(* a bytes field, sub the type of a submessage.                             *)
EXTENDS PbWire

CONSTANTS Schema,   \* the fields of each message type
          Top,      \* the type of the messages exchanged
          Pieces,   \* what an input is made of: a field each, see Wire
          MaxPieces,  \* bound: pieces of an input
          Messages, \* messages of the program's own
          Capacity, \* the size of the buffer the copy is written to
          SeenBits, \* the bits in a word of fields_seen: 32
          MaxRequired \* PB_MAX_REQUIRED_FIELDS: 64

VARIABLES bytes,   \* what is being read
          chunks,  \* the pieces the input was made of, and how much is cut off
          stack,   \* the messages being decoded: a call of pb_decode_noinit each,
                   \* the innermost last
          first,   \* the message to be written
          copy,    \* the message as read again
          phase    \* "read", "write", "reread"; "refused", "full", "copied", "broken"

vars == <<bytes, chunks, stack, first, copy, phase>>

Integer == {"varint", "uvarint", "svarint"}
Packable == Integer \cup {"fixed32", "fixed64"}
Width(type) == IF type = "fixed32" THEN 4 ELSE 8
Zeros(n) == [i \in 1 .. n |-> 0]

(* Field descriptors, as the macros PB_FIELD and PB_ONEOF_FIELD write them. *)
(* (A repeated field of strings or bytes has two sizes and is left out.)    *)
LType == Packable \cup {"string", "bytes", "fixedbytes", "submessage"}
HType == {"required", "optional", "singular", "repeated", "oneof", "callback", "extension"}
IsField(f) == DOMAIN f = {"tag", "slot", "type", "rule", "bits", "max", "sub"}

Described(f) ==
    /\ IsField(f) /\ f.type \in LType /\ f.rule \in HType
    /\ f.tag \in Nat \ {0}
    /\ f.type \in Integer => f.bits \in 1 .. LongBits
    /\ f.type = "submessage" => f.sub \in DOMAIN Schema
    /\ f.rule = "repeated" => f.max \in Nat /\ f.type \in Packable \cup {"submessage"}

Fields == [m \in DOMAIN Schema |-> Range(Schema[m])]
Regular == [m \in DOMAIN Schema |-> {f \in Fields[m] : f.type # "extension"}]
Extensions == [m \in DOMAIN Schema |-> UNION {Range(f.exts) : f \in Fields[m] \ Regular[m]}]

\* The required fields, each at its required_field_index plus one.
RequiredFields(m) == SelectSeq(Schema[m], LAMBDA f : f \in Regular[m] /\ f.rule = "required")

RECURSIVE HasOneof(_)
HasOneof(m) == \E f \in Regular[m] :
                 f.rule = "oneof" \/ (f.type = "submessage" /\ HasOneof(f.sub))

(* The union of a oneof is not initialised and is not to be looked at before*)
(* its tag is, which pb_check_proto3_default_value does.  And with no bits  *)
(* left to check in its last word the check of the required fields shifts a *)
(* word by all its bits, with more than it has bits for it reads past them: *)
(* what the build makes of these is not modelled.                           *)
ASSUME SchemaIsDescribed ==
    \A m \in DOMAIN Schema :
      /\ \A f \in Regular[m] :
           /\ Described(f) /\ f.rule # "extension"
           /\ f.rule = "singular" /\ f.type = "submessage" => ~HasOneof(f.sub)
      /\ \A f \in Extensions[m] : Described(f) /\ f.rule = "extension"
      /\ LET n == Len(RequiredFields(m)) IN n = 0 \/ (n < MaxRequired /\ n % SeenBits # 0)

----------------------------------------------------------------------------
(* pb_message_set_to_defaults.  A single value comes with its has_ flag, or *)
(* an extension's found; for a required field, which has none, has only says*)
(* here that the field was on the wire, and for a singular one, which has   *)
(* none either, it stays FALSE.  A oneof maps its tag, if it has one, to its*)
(* value.                                                                   *)
RECURSIVE Defaults(_)

Zero(f) ==
    CASE f.type \in Integer -> 0
      [] f.type \in {"fixed32", "fixed64"} -> Zeros(Width(f.type))
      [] f.type \in {"string", "bytes"} -> <<>>
      [] f.type = "fixedbytes" -> Zeros(f.max)
      [] f.type = "submessage" -> Defaults(f.sub)

Unset(f) ==
    CASE f.rule \in {"repeated", "callback", "oneof"} -> <<>>
      [] OTHER -> [has |-> FALSE, val |-> Zero(f)]

Defaults(m) ==
    [s \in {f.slot : f \in Regular[m] \cup Extensions[m]} |->
       Unset(CHOOSE f \in Regular[m] \cup Extensions[m] : f.slot = s)]

----------------------------------------------------------------------------
(* The field decoders (PB_DECODERS).                                        *)
Signed(v, bits) == LET w == v % 2^bits IN IF w >= 2^(bits - 1) THEN w - 2^bits ELSE w

\* pb_dec_varint, pb_dec_uvarint, pb_dec_svarint: the value the wire means
\* and the value that fits the field, which must be the same.
Meant(f, v) ==
    CASE f.type = "uvarint" -> v
      [] f.type = "svarint" -> UnZigZag(v)
      [] f.type = "varint" -> Signed(v, IF f.bits = LongBits THEN LongBits ELSE WordBits)
Clamped(f, v) == IF f.type = "uvarint" THEN v % 2^f.bits ELSE Signed(v, f.bits)

Checked(f, r, v) == IF r.ok /\ Clamped(f, v) = v THEN Good(v, r.s) ELSE Fail(r.s)
DecodeInteger(f, s) ==
    LET r == DecodeVarint(bytes, s, LongBits) IN Checked(f, r, Meant(f, r.val))

\* pb_dec_bytes and pb_dec_string, which needs room for the terminator; the
\* value of a string ends at its first zero.
CString(b) == SubSeq(b, 1, Min({i \in 1 .. Len(b) : b[i] = 0} \cup {Len(b) + 1}) - 1)
Room(f) == IF f.type = "string" THEN f.max - 1 ELSE f.max
ReadBytes(f, size) ==
    LET r == ReadSized(bytes, size)
    IN  IF size.ok /\ size.val > Room(f) THEN Fail(size.s)
        ELSE IF r.ok /\ f.type = "string" THEN Good(CString(r.val), r.s) ELSE r
DecodeBytes(f, s) == ReadBytes(f, DecodeVarint(bytes, s, WordBits))

\* pb_dec_fixed_length_bytes: an empty value stands for zeros.
ReadFixedBytes(f, size) ==
    IF size.ok /\ size.val = 0 THEN Good(Zeros(f.max), size.s)
    ELSE IF size.ok /\ size.val # f.max THEN Fail(size.s) ELSE ReadSized(bytes, size)
DecodeFixedBytes(f, s) == ReadFixedBytes(f, DecodeVarint(bytes, s, WordBits))

DecodeValue(f, s) ==
    CASE f.type \in Integer -> DecodeInteger(f, s)
      [] f.type \in {"fixed32", "fixed64"} -> Read(bytes, s, Width(f.type))
      [] f.type \in {"string", "bytes"} -> DecodeBytes(f, s)
      [] f.type = "fixedbytes" -> DecodeFixedBytes(f, s)

----------------------------------------------------------------------------
(* decode_static_field, decode_callback_field.                              *)
RECURSIVE DecodePacked(_, _, _), NextItem(_, _, _, _)

\* A packed array: items while there are bytes and room for them.
DecodePacked(f, sub, items) ==
    IF sub.left = 0 \/ Len(items) >= f.max
    THEN [ok |-> sub.left = 0, val |-> items, s |-> sub]
    ELSE NextItem(f, sub, items, DecodeValue(f, sub))
NextItem(f, sub, items, r) ==
    IF ~r.ok THEN Fail(sub) ELSE DecodePacked(f, r.s, Append(items, r.val))

Closed(parent, r) == IF r.ok THEN Good(r.val, CloseSubstream(parent, r.s)) ELSE r
DecodeArray(f, wire, s, items) ==
    LET sub == MakeSubstream(bytes, s)
        r == DecodeValue(f, s)
    IN  IF wire = "string" /\ f.type \in Packable
        THEN IF sub.ok THEN Closed(sub.s, DecodePacked(f, sub.val, items)) ELSE sub
        ELSE IF Len(items) < f.max /\ r.ok THEN Good(Append(items, r.val), r.s)
        ELSE Fail(s)

\* The program's callback keeps the bytes it is handed; without one the
\* field is skipped.
Kept(kept, r) == IF r.ok THEN Good(Append(kept, r.val), r.s) ELSE r
DecodeCallback(f, wire, s, kept) ==
    IF f.max = 0 THEN [SkipField(bytes, s, wire) EXCEPT !.val = kept]
    ELSE IF wire # "string" THEN Kept(kept, ReadRaw(bytes, s, wire))
    ELSE LET sub == MakeSubstream(bytes, s)
         IN  IF sub.ok THEN Kept(kept, Closed(sub.s, Read(bytes, sub.val, sub.val.left))) ELSE sub

\* What the field's slot holds once the value is v.
Placed(f, old, v) ==
    CASE f.rule \in {"callback", "repeated"} -> v
      [] f.rule = "oneof" -> f.tag :> v
      [] OTHER -> [has |-> f.rule # "singular", val |-> v]

DecodeField(f, wire, s, old) ==
    CASE f.rule = "callback" -> DecodeCallback(f, wire, s, old)
      [] f.rule = "repeated" -> DecodeArray(f, wire, s, old)
      [] OTHER -> DecodeValue(f, s)

----------------------------------------------------------------------------
(* pb_decode_noinit, a turn of its loop at a time: a tag and the field.  A  *)
(* tag that is no field's may belong to an extension, if tags that high do; *)
(* otherwise its value is skipped.                                          *)
NothingSeen == [w \in 0 .. (MaxRequired - 1) \div SeenBits |-> {}]
Frame(m, s, msg, into) == [type |-> m, s |-> s, msg |-> msg, seen |-> NothingSeen, into |-> into]
Decoding(m, b) == <<Frame(m, Stream(b), Defaults(m), <<>>)>>

\* The extension field says where the tags of extensions begin.
ExtensionFor(m, tag) ==
    {e \in UNION {Range(f.exts) : f \in {g \in Fields[m] \ Regular[m] : g.tag <= tag}} :
       e.tag = tag}

Candidates(m, tag) ==
    LET known == {f \in Regular[m] : f.tag = tag}
    IN  IF known # {} THEN known ELSE ExtensionFor(m, tag)

\* fields_seen: words of bits, each word as the set of the bits that are set.
WithField(m, f, seen) ==
    LET required == RequiredFields(m)
        i == (CHOOSE n \in DOMAIN required : required[n] = f) - 1
    IN  IF f.rule = "required" /\ i < MaxRequired
        THEN [seen EXCEPT ![i \div SeenBits] = @ \cup {i % SeenBits}] ELSE seen

\* Mutant: only the bits that fill no word are checked.
RemainingBitsSeen(m, seen) ==
    LET n == Len(RequiredFields(m))
    IN  n > 0 => seen[n \div SeenBits] = 0 .. (n % SeenBits) - 1

\* The whole words, and the remaining bits.
AllSeen(m, seen) ==
    LET n == Len(RequiredFields(m))
    IN  n > 0 => /\ \A w \in 0 .. (n \div SeenBits) - 1 : seen[w] = 0 .. SeenBits - 1
                 /\ seen[n \div SeenBits] = 0 .. (n % SeenBits) - 1

Put(x, f, v, s) ==
    [x EXCEPT !.s = s, !.msg[f.slot] = v, !.seen = WithField(x.type, f, @)]

Refuse ==
    /\ phase' = IF phase = "read" THEN "refused" ELSE "broken"
    /\ UNCHANGED <<bytes, chunks, stack, first, copy>>

Goes(stack2) == stack' = stack2 /\ UNCHANGED <<bytes, chunks, first, copy, phase>>

\* A field nobody knows, and one with a value of its own.
Skips(x, r) == IF r.ok THEN Goes(Front(stack) \o <<[x EXCEPT !.s = r.s]>>) ELSE Refuse
FieldIsUnknown(x, t) ==
    Candidates(x.type, t.tag) = {} /\ Skips(x, SkipField(bytes, t.s, t.wire))

Stores(x, f, r) ==
    IF r.ok THEN Goes(Front(stack) \o <<Put(x, f, Placed(f, x.msg[f.slot], r.val), r.s)>>)
    ELSE Refuse
FieldIsRead(x, t) ==
    \E f \in Candidates(x.type, t.tag) :
      f.type # "submessage" /\ Stores(x, f, DecodeField(f, t.wire, t.s, x.msg[f.slot]))

(* pb_dec_submessage: an entry of an array starts from the defaults, and so *)
(* does the submessage of a oneof, each time; another submessage starts from*)
(* what it holds.                                                           *)
Before(f, old) == IF f.rule \in {"repeated", "oneof"} THEN Defaults(f.sub) ELSE old.val
HasRoom(f, old) == f.rule = "repeated" => Len(old) < f.max

Enters(x, f, sub) ==
    IF sub.ok /\ HasRoom(f, x.msg[f.slot])
    THEN Goes(Front(stack) \o <<[x EXCEPT !.s = sub.s],
                                Frame(f.sub, sub.val, Before(f, x.msg[f.slot]), <<f>>)>>)
    ELSE Refuse
SubmessageBegins(x, t) ==
    \E f \in Candidates(x.type, t.tag) :
      f.type = "submessage" /\ Enters(x, f, MakeSubstream(bytes, t.s))

\* pb_decode returns, with the message if it is complete.
Returns(msg) ==
    /\ IF phase = "read" THEN first' = msg /\ phase' = "write" /\ UNCHANGED copy
       ELSE copy' = msg /\ phase' = "copied" /\ UNCHANGED first
    /\ UNCHANGED <<bytes, chunks, stack>>

\* The end of the loop: the check of the required fields, and the way back
\* to the message this one is part of.
MessageEnds(x, s) ==
    LET outer == stack[Len(stack) - 1]
        f == x.into[1]
        old == outer.msg[f.slot]
        v == Placed(f, old, IF f.rule = "repeated" THEN Append(old, x.msg) ELSE x.msg)
    IN  IF ~AllSeen(x.type, x.seen) THEN Refuse
        ELSE IF Len(stack) = 1 THEN Returns(x.msg)
        ELSE Goes(SubSeq(stack, 1, Len(stack) - 2) \o <<Put(outer, f, v, CloseSubstream(outer.s, s))>>)

AfterTag(x, t) ==
    \/ t.eof /\ MessageEnds(x, t.s)
    \/ ~t.eof /\ ~t.ok /\ Refuse
    \/ t.ok /\ FieldIsUnknown(x, t)
    \/ t.ok /\ FieldIsRead(x, t)
    \/ t.ok /\ SubmessageBegins(x, t)

Turn ==
    /\ phase \in {"read", "reread"}
    /\ LET x == Last(stack)
       IN  IF x.s.left = 0 THEN MessageEnds(x, x.s) ELSE AfterTag(x, DecodeTag(bytes, x.s))

----------------------------------------------------------------------------
(* pb_encode: the fields in the order of the descriptors.                   *)
RECURSIVE Encode(_, _)

\* The field encoders (PB_ENCODERS); a submessage is measured first.  A fixed
\* value is kept as its bytes, the lowest first.
EncodeInteger(f, v) ==
    CASE f.type = "varint" -> EncodeVarint(v % 2^LongBits)
      [] f.type = "uvarint" -> EncodeVarint(v)
      [] f.type = "svarint" -> EncodeVarint(ZigZag(v))
EncodeFixed(v) == v
EncodeBytes(v) == EncodeString(v)
EncodeSubmessage(f, v) == EncodeString(Encode(f.sub, v))

EncodeValue(f, v) ==
    CASE f.type \in Integer -> EncodeInteger(f, v)
      [] f.type \in {"fixed32", "fixed64"} -> EncodeFixed(v)
      [] f.type \in {"string", "bytes", "fixedbytes"} -> EncodeBytes(v)
      [] f.type = "submessage" -> EncodeSubmessage(f, v)

\* pb_encode_tag_for_field.
WireOf(f) ==
    CASE f.type \in Integer -> "varint"
      [] f.type = "fixed32" -> "32bit"
      [] f.type = "fixed64" -> "64bit"
      [] OTHER -> "string"
Tagged(f, v) == EncodeTag(WireOf(f), f.tag) \o EncodeValue(f, v)

Each(items, Op(_)) == FoldLeft(LAMBDA acc, x : acc \o Op(x), <<>>, items)

\* encode_array: packed whenever the type allows it.
EncodeArray(f, items) ==
    IF items = <<>> THEN <<>>
    ELSE IF f.type \in Packable
    THEN EncodeTag("string", f.tag) \o EncodeString(Each(items, LAMBDA x : EncodeValue(f, x)))
    ELSE Each(items, LAMBDA x : Tagged(f, x))

\* pb_check_proto3_default_value: of an array inside a submessage it looks
\* at the first item's bytes, not at how many there are (and at zeros in an
\* array that was never written to), and it asks for no has_ flag; an
\* extension is a pointer, and not zero.
RECURSIVE IsDefault(_, _)
IsDefault(f, v) ==
    CASE f.type = "submessage" ->
           /\ Extensions[f.sub] = {}
           /\ \A g \in Regular[f.sub] :
                LET w == v[g.slot]
                IN  CASE g.rule = "repeated" -> w = <<>> \/ IsDefault(g, w[1])
                      [] g.rule = "callback" -> g.max = 0
                      [] OTHER -> IsDefault(g, w.val)
      [] f.type = "fixedbytes" -> f.max = 0
      [] OTHER -> v = Zero(f)

\* encode_basic_field and encode_callback_field.
EncodeField(f, v) ==
    CASE f.rule \in {"required", "extension"} -> Tagged(f, v.val)
      [] f.rule = "optional" -> IF v.has THEN Tagged(f, v.val) ELSE <<>>
      [] f.rule = "singular" -> IF IsDefault(f, v.val) THEN <<>> ELSE Tagged(f, v.val)
      [] f.rule = "oneof" -> IF f.tag \in DOMAIN v THEN Tagged(f, v[f.tag]) ELSE <<>>
      [] f.rule = "repeated" -> EncodeArray(f, v)
      [] f.rule = "callback" ->
           Each(v, LAMBDA x : EncodeTag("string", f.tag) \o EncodeString(x))

\* encode_extension_field: all that are registered, found or not.
EncodeExtensions(f, msg) == Each(f.exts, LAMBDA e : EncodeField(e, msg[e.slot]))

Encode(m, msg) ==
    Each(Schema[m], LAMBDA f :
           IF f.type = "extension" THEN EncodeExtensions(f, msg)
           ELSE EncodeField(f, msg[f.slot]))

----------------------------------------------------------------------------
(* An input is made of pieces, one per field, of which the last has lost the*)
(* last cut bytes; or a message of the program's own is written first.      *)
Wire(in) ==
    LET whole == Each(in.pieces, LAMBDA p : p.bytes)
    IN  SubSeq(whole, 1, Len(whole) - in.cut)

Init ==
    /\ copy = Defaults(Top)
    /\ \/ /\ \E n \in 1 .. MaxPieces : \E ps \in [1 .. n -> Pieces] :
               \E cut \in 0 .. Len(ps[n].bytes) - 1 : chunks = [pieces |-> ps, cut |-> cut]
          /\ bytes = Wire(chunks)
          /\ first = Defaults(Top)
          /\ phase = "read"
       \/ /\ chunks = [pieces |-> <<>>, cut |-> 0]
          /\ bytes = <<>>
          /\ first \in Messages
          /\ phase = "write"
    /\ stack = Decoding(Top, bytes)

\* pb_encode into a buffer: pb_write refuses what does not fit.
WriteCopy ==
    /\ phase = "write"
    /\ LET out == Encode(Top, first)
       IN  IF Len(out) > Capacity THEN phase' = "full" /\ UNCHANGED <<bytes, stack>>
           ELSE bytes' = out /\ stack' = Decoding(Top, bytes') /\ phase' = "reread"
    /\ UNCHANGED <<chunks, first, copy>>

Next == Turn \/ WriteCopy

Spec == Init /\ [][Next]_vars

----------------------------------------------------------------------------
(* Properties.                                                              *)
RECURSIVE Fits(_, _), Whole(_, _), OnlyZeros(_, _), Same(_, _, _)

Single(f, v) ==
    CASE f.type = "string" -> Len(v) < f.max
      [] f.type = "bytes" -> Len(v) <= f.max
      [] f.type = "submessage" -> Fits(f.sub, v)
      [] f.type \in Integer -> Clamped(f, v) = v
      [] OTHER -> TRUE
Fits(m, msg) ==
    \A f \in Regular[m] \cup Extensions[m] :
      LET v == msg[f.slot]
      IN  CASE f.rule = "repeated" -> Len(v) <= f.max /\ \A x \in Range(v) : Single(f, x)
            [] f.rule = "callback" -> TRUE
            [] f.rule = "oneof" -> f.tag \in DOMAIN v => Single(f, v[f.tag])
            [] OTHER -> Single(f, v.val)

(* The types.  Every value fits the memory the struct has for it, at any    *)
(* depth, also in a message that is refused in the end; and each stream's   *)
(* position and bytes_left agree on where its message ends (substreams).    *)
TypeOK ==
    /\ phase \in {"read", "write", "reread", "refused", "full", "copied", "broken"}
    /\ bytes \in Seq(Byte)
    /\ \A i \in DOMAIN stack :
         LET x == stack[i]
             end == x.s.pos + x.s.left
         IN  /\ x.s.left >= 0 /\ Fits(x.type, x.msg)
             /\ i = 1 => end + (IF i < Len(stack) THEN stack[i + 1].s.left ELSE 0) <= Len(bytes) + 1
    /\ Fits(Top, first)

\* Every required field was on the wire, in the message and in each
\* submessage it has.
Arrived(f, v) == f.type = "submessage" => Whole(f.sub, v)
Whole(m, msg) ==
    \A f \in Regular[m] :
      LET v == msg[f.slot]
      IN  CASE f.rule = "required" -> v.has /\ Arrived(f, v.val)
            [] f.rule = "optional" -> v.has => Arrived(f, v.val)
            [] f.rule = "oneof" -> f.tag \in DOMAIN v => Arrived(f, v[f.tag])
            [] f.rule = "repeated" -> \A x \in Range(v) : Arrived(f, x)
            [] OTHER -> TRUE

Accepted == phase \in {"write", "reread", "full", "copied"}

(* No message is accepted that misses a required field, in any word of      *)
(* fields_seen and at any depth, though submessages may come in several     *)
(* parts (pb_decode_noinit); and types.                                     *)
AcceptedAreWhole == TypeOK /\ (Accepted => Whole(Top, first))

\* Every value is zero, and of an array the first item is.
IsZero(f, v) == IF f.type = "submessage" THEN OnlyZeros(f.sub, v) ELSE v = Zero(f)
OnlyZeros(m, msg) ==
    \A f \in Regular[m] :
      LET v == msg[f.slot]
      IN  CASE f.rule = "repeated" -> v = <<>> \/ IsZero(f, v[1])
            [] f.rule = "callback" -> v = <<>>
            [] OTHER -> IsZero(f, v.val)

\* What two messages hold is the same, but that a singular submessage of only
\* zeros may be lost, with its has_ flags and the rest of its arrays, and that
\* every extension of the copy has been found.
SameValue(f, v, w) == IF f.type = "submessage" THEN Same(f.sub, v, w) ELSE v = w
MayBeLost(f, v) == f.rule = "singular" /\ f.type = "submessage" /\ OnlyZeros(f.sub, v.val)
Same(m, a, b) ==
    \A f \in Regular[m] \cup Extensions[m] :
      LET v == a[f.slot]
          w == b[f.slot]
      IN  CASE f.rule = "callback" -> v = w
            [] f.rule = "repeated" ->
                 Len(v) = Len(w) /\ \A i \in DOMAIN v : SameValue(f, v[i], w[i])
            [] f.rule = "oneof" ->
                 DOMAIN v = DOMAIN w /\ (f.tag \in DOMAIN v => SameValue(f, v[f.tag], w[f.tag]))
            [] f.rule = "extension" -> w.has /\ SameValue(f, v.val, w.val)
            [] OTHER -> \/ v.has = w.has /\ SameValue(f, v.val, w.val)
                        \/ MayBeLost(f, v) /\ w = Unset(f)

(* A message that was accepted can be written, and what was written reads   *)
(* as the same message: values keep their sign and size, unknown fields, the*)
(* parts of submessages and packed or unpacked arrays make no difference    *)
(* (pb_encode against pb_decode).  Not the same are extensions, all of which*)
(* are written and so found in the copy, and a singular submessage that     *)
(* passes for zero and is not written (pb_check_proto3_default_value).      *)
CopyIsEqual == phase # "broken" /\ (phase = "copied" => Same(Top, first, copy))

(* An input that was cut inside a value is refused: no length or varint that*)
(* runs past the end is taken for a shorter one (pb_readbyte, pb_read,      *)
(* pb_make_string_substream).                                               *)
CutInValue ==
    LET last == chunks.pieces[Len(chunks.pieces)]
    IN  chunks.cut \in 1 .. Len(last.bytes) - last.tag
Regularly == \A p \in Range(chunks.pieces) : p.plain
CutIsNoticed == chunks.pieces # <<>> /\ CutInValue /\ Regularly => ~Accepted
=============================================================================
