-------------------------------- MODULE Tags --------------------------------
(***************************************************************************)
(* The tag encoding of tags.go and constructed.go, octet by octet.  A      *)
(* value is a kind and a body.  Integers of 64 and 32 bits are their       *)
(* octets, most significant first, because only their octets matter here;  *)
(* floating-point values are their IEEE bits.  A decoder that returns an   *)
(* error returns Refused; which error it is makes no difference below.     *)
(***************************************************************************)
EXTENDS Integers, Sequences
LOCAL INSTANCE SequencesExt

CONSTANTS MaxConstructedDepth, \* DecodeLimits.MaxConstructedDepth
          MaxElements,         \* DecodeLimits.MaxElements
          MaxStringLength,     \* MaxOctetStringLength and MaxCharacterLength
          MaxBitStringBits     \* DecodeLimits.MaxBitStringBits

Octet == 0 .. 255
Refused == [ok |-> FALSE]

u16(n) == <<n \div 256, n % 256>>
u24(n) == <<n \div 65536>> \o u16(n % 65536)
tail(s, n) == SubSeq(s, n + 1, Len(s))
head(s, n) == SubSeq(s, 1, n)
zeros(n) == [i \in 1 .. n |-> 0]
bit(b, k) == (b \div 2 ^ k) % 2 = 1
flag(c, n) == IF c THEN n ELSE 0

tagNumberReserved == 255

kinds == <<"null", "boolean", "unsigned", "signed", "real", "double", "octets", "string", "bits",
           "enumerated", "date", "time", "objectID">>
\* ApplicationValue.TagNumber: the position of the kind in the list of tags.
TagNumber(kind) == (CHOOSE i \in 1 .. Len(kinds) : kinds[i] = kind) - 1

Value(kind, body) == [kind |-> kind, body |-> body]
App(v) == [context |-> FALSE, tag |-> TagNumber(v.kind), value |-> v]
Context(tag, v) == [context |-> TRUE, tag |-> tag, value |-> v]
Raw(tag, octets) == Context(tag, Value("context", octets))
Constructed(tag, els) == Context(tag, Value("constructed", els))
IsContextConstructed(el) == el.context /\ el.value.kind = "constructed"

(***************************************************************************)
(* Content octets.                                                         *)
(***************************************************************************)
validateBitString(octets) == Len(octets) > 0 /\ octets[1] <= 7 /\ (Len(octets) = 1 => octets[1] = 0)

\* The fewest octets, at least one: leading zeros are dropped.
encodeUnsigned(u) ==
    LET used == {i \in 1 .. Len(u) : u[i] # 0}
    IN IF used = {} THEN <<0>> ELSE tail(u, (CHOOSE i \in used : \A j \in used : i <= j) - 1)

decodeUnsigned(octets) ==
    IF Len(octets) \in 1 .. 8 THEN [ok |-> TRUE, u |-> zeros(8 - Len(octets)) \o octets] ELSE Refused

negative(octet) == octet >= 128

\* The fewest octets whose signed range holds the value: the dropped octets
\* and the top bit of the kept ones are all the sign.
encodeSigned(s) ==
    LET fill == IF negative(s[1]) THEN 255 ELSE 0
        holds(w) == (\A i \in 1 .. 8 - w : s[i] = fill) /\ negative(s[9 - w]) = negative(s[1])
        width == CHOOSE w \in 1 .. 8 : holds(w) /\ \A x \in 1 .. w - 1 : ~holds(x)
    IN tail(s, 8 - width)

decodeSigned(octets) ==
    IF Len(octets) \in 1 .. 8
    THEN [ok |-> TRUE,
          u |-> [i \in 1 .. 8 - Len(octets) |-> IF negative(octets[1]) THEN 255 ELSE 0] \o octets]
    ELSE Refused

EncodeObjectIdentifier(id) ==
    IF id[1] > 1023 \/ id[2] > 4194303
    THEN Refused
    ELSE [ok |-> TRUE, octets |-> <<id[1] \div 4>> \o u24((id[1] % 4) * 4194304 + id[2])]

DecodeObjectIdentifier(o) ==
    <<o[1] * 4 + o[2] \div 64, (o[2] % 64) * 65536 + o[3] * 256 + o[4]>>

\* The content octets of a primitive value under a context tag; the same
\* octets, but for Null and BOOLEAN, stand under an application tag.
contextContentOctets(v) ==
    LET octets(s) == [ok |-> TRUE, octets |-> s]
    IN CASE v.kind = "boolean" -> octets(<<flag(v.body, 1)>>)
         [] v.kind \in {"unsigned", "enumerated"} -> octets(encodeUnsigned(v.body))
         [] v.kind = "signed" -> octets(encodeSigned(v.body))
         [] v.kind = "bits" -> IF validateBitString(v.body) THEN octets(v.body) ELSE Refused
         [] v.kind = "objectID" -> EncodeObjectIdentifier(v.body)
         [] v.kind = "constructed" -> Refused
         [] OTHER -> octets(v.body)

decodeApplicationValue(tag, o) ==
    LET kind == IF tag + 1 \in 1 .. Len(kinds) THEN kinds[tag + 1] ELSE "octets"
        value(body) == [ok |-> TRUE, value |-> Value(kind, body)]
        exactly(n) == IF Len(o) = n THEN value(o) ELSE Refused
        u == decodeUnsigned(o)
    IN CASE kind = "null" -> exactly(0)
         [] kind = "unsigned" -> IF u.ok THEN value(u.u) ELSE Refused
         [] kind = "enumerated" -> IF u.ok /\ head(u.u, 4) = zeros(4) THEN value(tail(u.u, 4)) ELSE Refused
         [] kind = "signed" -> IF Len(o) \in 1 .. 8 THEN value(decodeSigned(o).u) ELSE Refused
         [] kind \in {"real", "date", "time"} -> exactly(4)
         [] kind = "double" -> exactly(8)
         [] kind = "string" -> IF Len(o) \in 1 .. MaxStringLength + 1 THEN value(o) ELSE Refused
         [] kind = "bits" -> IF validateBitString(o) /\ (Len(o) - 1) * 8 <= MaxBitStringBits
                             THEN value(o) ELSE Refused
         [] kind = "objectID" -> IF Len(o) = 4 THEN value(DecodeObjectIdentifier(o)) ELSE Refused
         [] OTHER -> IF Len(o) <= MaxStringLength THEN value(o) ELSE Refused

(***************************************************************************)
(* The tag itself.                                                         *)
(***************************************************************************)
initialOctet(context, tag, lvt) == (IF tag < 15 THEN tag ELSE 15) * 16 + flag(context, 8) + lvt
extension(tag) == IF tag < 15 THEN <<>> ELSE <<tag>>

\* A length of 254 written as one octet: it reads as the 16-bit escape.
encodeTagHeaderLong(context, tag, length) ==
    LET start(lvt) == <<initialOctet(context, tag, lvt)>> \o extension(tag)
    IN CASE length < 5 -> start(length)
         [] length \in 5 .. 254 -> start(5) \o <<length>>
         [] length \in 255 .. 65535 -> start(5) \o <<254>> \o u16(length)
         [] OTHER -> start(5) \o <<255, 0>> \o u24(length)

encodeTagHeader(context, tag, length) ==
    LET start(lvt) == <<initialOctet(context, tag, lvt)>> \o extension(tag)
    IN CASE length < 5 -> start(length)
         [] length \in 5 .. 253 -> start(5) \o <<length>>
         [] length \in 254 .. 65535 -> start(5) \o <<254>> \o u16(length)
         [] OTHER -> start(5) \o <<255, 0>> \o u24(length)

appendContextOpenClose(tag, opening) ==
    <<initialOctet(TRUE, tag, IF opening THEN 6 ELSE 7)>> \o extension(tag)

\* The length and the number of octets it takes after the initial octet.  A
\* 32-bit length of 2^31 or more is longer than any datagram: it is refused
\* here, where ParseTag refuses it one line later.
parseLength(data, lvt) ==
    CASE lvt < 5 -> [ok |-> TRUE, length |-> lvt, n |-> 0]
      [] lvt = 5 /\ Len(data) >= 1 /\ data[1] < 254 -> [ok |-> TRUE, length |-> data[1], n |-> 1]
      [] lvt = 5 /\ Len(data) >= 3 /\ data[1] = 254 ->
           [ok |-> TRUE, length |-> data[2] * 256 + data[3], n |-> 3]
      [] lvt = 5 /\ Len(data) >= 5 /\ data[1] = 255 /\ data[2] < 128 ->
           [ok |-> TRUE, length |-> ((data[2] * 256 + data[3]) * 256 + data[4]) * 256 + data[5], n |-> 5]
      [] OTHER -> Refused

\* One tag at the start of data: an element, or an opening or closing mark.
ParseTag(data) ==
    LET b0 == data[1]
        context == bit(b0, 3)
        extended == b0 \div 16 = 15
        tag == IF extended THEN data[2] ELSE b0 \div 16
        off == IF extended THEN 2 ELSE 1
        lvt == b0 % 8
        mark == IF context /\ lvt \in {6, 7} THEN lvt ELSE 0
        l == parseLength(tail(data, off), lvt)
        from == off + l.n
        octets == SubSeq(data, from + 1, from + l.length)
        v == decodeApplicationValue(tag, octets)
        element(el, n) == [ok |-> TRUE, mark |-> mark, el |-> el, n |-> n]
    IN CASE data = <<>> -> Refused
         [] extended /\ (Len(data) < 2 \/ tag < 15 \/ tag = tagNumberReserved) -> Refused
         [] mark # 0 -> element(Constructed(tag, <<>>), off)
         [] ~context /\ tag = TagNumber("boolean") ->
              IF lvt > 1 THEN Refused ELSE element(App(Value("boolean", lvt = 1)), off)
         [] ~l.ok \/ l.length > Len(data) - from -> Refused
         [] context -> IF l.length > MaxStringLength THEN Refused
                       ELSE element(Raw(tag, octets), from + l.length)
         [] OTHER -> IF v.ok THEN element([context |-> FALSE, tag |-> tag, value |-> v.value],
                                          from + l.length)
                     ELSE Refused

RECURSIVE AppendTags(_)
AppendTags(els) ==
    IF els = <<>> THEN [ok |-> TRUE, octets |-> <<>>]
    ELSE
    LET el == Head(els)
        rest == AppendTags(Tail(els))
        inner == AppendTags(el.value.body)
        content == contextContentOctets(el.value)
        octets == CASE el.value.kind = "constructed" /\ el.context ->
                         appendContextOpenClose(el.tag, TRUE) \o inner.octets
                         \o appendContextOpenClose(el.tag, FALSE)
                    [] el.value.kind = "constructed" -> inner.octets
                    [] ~el.context /\ el.value.kind = "null" -> <<0>>
                    [] ~el.context /\ el.value.kind = "boolean" -> <<16 + flag(el.value.body, 1)>>
                    [] OTHER -> encodeTagHeader(el.context, el.tag, Len(content.octets)) \o content.octets
    IN IF \/ el.context /\ el.tag = tagNumberReserved
          \/ ~(IF el.value.kind = "constructed" THEN inner.ok ELSE content.ok)
          \/ ~rest.ok
       THEN Refused
       ELSE [ok |-> TRUE, octets |-> octets \o rest.octets]

\* ParseSequence: the elements up to the end of data, or up to the closing
\* tag when closeTag is one.  The budget counts every element, nested or not.
RECURSIVE parseSequence(_, _, _, _)

before(el, n, rest) ==
    IF rest.ok THEN [rest EXCEPT !.els = <<el>> \o @, !.n = n + @] ELSE Refused

afterNested(t, inner, data, closeTag, depth) ==
    IF ~inner.ok THEN Refused
    ELSE before(Constructed(t.el.tag, inner.els), t.n + inner.n,
                parseSequence(tail(data, t.n + inner.n), closeTag, depth, inner.budget - 1))

parseElement(t, data, closeTag, depth, budget) ==
    CASE ~t.ok -> Refused
      [] t.mark = 7 -> IF t.el.tag = closeTag
                       THEN [ok |-> TRUE, els |-> <<>>, n |-> t.n, budget |-> budget] ELSE Refused
      [] t.mark = 6 -> afterNested(t, parseSequence(tail(data, t.n), t.el.tag, depth + 1, budget),
                                   data, closeTag, depth)
      [] OTHER -> before(t.el, t.n, parseSequence(tail(data, t.n), closeTag, depth, budget - 1))

parseSequence(data, closeTag, depth, budget) ==
    CASE depth > MaxConstructedDepth -> Refused
      [] data = <<>> -> IF closeTag >= 0 THEN Refused
                        ELSE [ok |-> TRUE, els |-> <<>>, n |-> 0, budget |-> budget]
      [] budget <= 0 -> Refused
      [] OTHER -> parseElement(ParseTag(data), data, closeTag, depth, budget)

ParseSequence(data) == parseSequence(data, -1, 0, MaxElements)
=============================================================================
