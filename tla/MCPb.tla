-------------------------------- MODULE MCPb --------------------------------
(* A message type with a field of most kinds, and inputs made of at most    *)
(* MaxPieces pieces, cut anywhere in the last.                              *)
EXTENDS Pb

F(tag, slot, type, rule, bits, max, sub) ==
    [tag |-> tag, slot |-> slot, type |-> type, rule |-> rule, bits |-> bits, max |-> max,
     sub |-> sub]

Inner == <<F(1, "n", "varint", "required", 8, 0, ""),
           F(2, "b", "bytes", "optional", 0, 2, ""),
           F(3, "x", "uvarint", "required", 8, 0, ""),
           F(4, "y", "uvarint", "required", 8, 0, "")>>
Ending == <<F(1, "zs", "varint", "repeated", 8, 2, ""),
            F(2, "z", "varint", "optional", 8, 0, "")>>
Outer == <<F(1, "id", "uvarint", "required", 8, 0, ""),
           F(2, "delta", "svarint", "optional", LongBits, 0, ""),
           F(3, "list", "varint", "repeated", WordBits, 2, ""),
           F(4, "sub", "submessage", "optional", 0, 0, "Inner"),
           F(5, "either", "uvarint", "oneof", 8, 0, ""),
           F(6, "either", "submessage", "oneof", 0, 0, "Inner"),
           F(7, "subs", "submessage", "repeated", 0, 1, "Inner"),
           F(8, "tail", "submessage", "singular", 0, 0, "Ending"),
           F(16, "name", "string", "singular", 0, 3, ""),
           F(17, "raw", "bytes", "callback", 0, 1, ""),
           F(18, "mark", "fixedbytes", "optional", 0, 2, ""),
           [tag |-> 20, type |-> "extension",
            exts |-> <<F(21, "ext", "fixed32", "extension", 0, 0, "")>>]>>

Types == [Outer |-> Outer, Inner |-> Inner, Ending |-> Ending]

Piece(wire, tag, value, plain) ==
    [bytes |-> EncodeTag(wire, tag) \o value, tag |-> Len(EncodeTag(wire, tag)), plain |-> plain]
Sub(value) == EncodeString(value)
InnerN == EncodeTag("varint", 1) \o EncodeVarint(2^LongBits - 3)
InnerX == EncodeTag("varint", 3) \o EncodeVarint(1)
InnerY == EncodeTag("varint", 4) \o EncodeVarint(2)
InnerAll == InnerY \o InnerN \o InnerX
InnerB == EncodeTag("string", 2) \o EncodeString(<<9, 0>>)

SomePieces ==
    {Piece("varint", 1, EncodeVarint(200), TRUE),
     Piece("varint", 1, EncodeVarint(300), FALSE),
     Piece("varint", 2, EncodeVarint(ZigZag(-(2^(LongBits - 1)))), TRUE),
     Piece("varint", 3, EncodeVarint(7), TRUE),
     Piece("string", 3, EncodeString(EncodeVarint(2^LongBits - 1) \o EncodeVarint(1)), TRUE),
     Piece("string", 4, Sub(InnerAll \o InnerB), TRUE),
     Piece("string", 4, Sub(InnerN \o InnerY), FALSE),
     Piece("string", 4, Sub(InnerN \o InnerX), FALSE),
     Piece("varint", 5, EncodeVarint(1), TRUE),
     Piece("string", 6, Sub(InnerAll \o <<0>> \o InnerB), TRUE),
     Piece("string", 7, Sub(InnerAll), TRUE),
     Piece("string", 8, Sub(EncodeTag("string", 1) \o EncodeString(<<0, 5>>)), TRUE),
     Piece("string", 8, Sub(EncodeTag("varint", 2) \o <<0>>), TRUE),
     Piece("string", 16, EncodeString(<<65, 0>>), TRUE),
     Piece("string", 17, EncodeString(<<1, 2>>), TRUE),
     Piece("varint", 17, EncodeVarint(300), TRUE),
     Piece("string", 18, EncodeString(<<>>), TRUE),
     Piece("string", 19, EncodeString(<<8, 8>>), TRUE),
     Piece("32bit", 21, <<1, 0, 0, 0>>, TRUE),
     Piece("group", 19, <<>>, FALSE),
     [bytes |-> <<136, 129, 0>>, tag |-> 3, plain |-> FALSE]}

Blank == Defaults("Outer")
Has(v) == [has |-> TRUE, val |-> v]
InnerMsg(n) == [n |-> Has(n), b |-> [has |-> FALSE, val |-> <<>>], x |-> Has(0), y |-> Has(3)]
TailMsg(zs) == [has |-> FALSE, val |-> [zs |-> zs, z |-> Has(0)]]
OwnMessages ==
    {[Blank EXCEPT !.id = Has(i), !.list = l, !.either = e, !.subs = s, !.delta = Has(x),
                   !.tail = z] :
       i \in {0, 127, 255}, l \in {<<>>, <<-1>>, <<2^(WordBits - 1) - 1, 0>>},
       e \in {<<>>, 5 :> 0, 6 :> InnerMsg(-128)}, s \in {<<>>, <<InnerMsg(127)>>},
       x \in {0, -1, 2^(LongBits - 1) - 1}, z \in {Blank.tail, TailMsg(<<0, 5>>), TailMsg(<<5>>)}}
=============================================================================
