------------------------------ MODULE Services ------------------------------
(***************************************************************************)
(* The service payloads of package service: for each message its encoder   *)
(* and its decoder, translated apart from each other.  A message is the    *)
(* tuple of its fields, the field of context tag t at position t + 1 and   *)
(* None where an optional one is absent.  An encoder yields the elements   *)
(* it appends; a decoder is given the elements of ParseSequence.           *)
(*                                                                         *)
(* Almost every decoder is the same loop: a switch on tag number and       *)
(* constructedness, a check that a field is not repeated, a narrowing of   *)
(* the value, and a check at the end that nothing is missing.  A grammar   *)
(* holds what differs: for each tag, the type of its field, and whether it *)
(* is required ("one", "some") and whether a repetition is refused ("one", *)
(* "opt") or replaces the earlier value ("some", "any").                   *)
(***************************************************************************)
EXTENDS Frames, Absent
LOCAL INSTANCE SequencesExt
LOCAL INSTANCE FiniteSets
LOCAL INSTANCE FiniteSetsExt

Got(v) == [ok |-> TRUE, v |-> v]
GotIf(c, v) == IF c THEN Got(v) ELSE Refused
\* What an encoder yields when the condition it checks holds.
SendIf(c, els) == IF c THEN [ok |-> TRUE, els |-> els] ELSE Refused
Send(els) == SendIf(TRUE, els)

one(type) == [type |-> type, need |-> "one"]
opt(type) == [type |-> type, need |-> "opt"]
some(type) == [type |-> type, need |-> "some"]
any(type) == [type |-> type, need |-> "any"]
gap == [type |-> "gap", need |-> "opt"]

(***************************************************************************)
(* Values.  Integers are their octets: one, two, four or eight of them.    *)
(***************************************************************************)
width(type) == CASE type \in {"u8", "priority"} -> 1 [] type = "u16" -> 2 [] type = "u32" -> 4 [] type = "u64" -> 8
unsignedTypes == {"u8", "u16", "u32", "u64", "priority"}
primitiveTypes == unsignedTypes \cup {"bool", "objectID", "string", "bits", "real", "time"}

\* narrowU8, narrowU16, narrowU32: refused rather than cut to its low octets.
narrow(u, w) == GotIf(head(u, 8 - w) = zeros(8 - w), tail(u, 8 - w))

\* narrowS32: the dropped octets are all the sign of the kept ones.
narrowS32(s) ==
    GotIf(\A i \in 1 .. 4 : s[i] = (IF negative(s[5]) THEN 255 ELSE 0), tail(s, 4))
signed64(s) == [i \in 1 .. 4 |-> IF negative(s[1]) THEN 255 ELSE 0] \o s

\* The order of two integers given by as many octets.
leq(a, b) == a = b \/ \E i \in 1 .. Len(a) : a[i] < b[i] /\ head(a, i - 1) = head(b, i - 1)

inRange(priority) == priority[1] \in 1 .. 16

\* ContextUnsigned32, ContextBool, ContextObjectID, ContextCharacterString,
\* ContextBitString, ContextReal and ContextTime on content octets.
contextPrimitive(type, o) ==
    CASE type \in unsignedTypes ->
           IF ~decodeUnsigned(o).ok THEN Refused
           ELSE LET n == narrow(decodeUnsigned(o).u, width(type))
                IN IF n.ok /\ (type = "priority" => inRange(n.v)) THEN n ELSE Refused
      [] type = "bool" -> GotIf(o \in {<<0>>, <<1>>}, o = <<1>>)
      [] type = "objectID" -> IF Len(o) = 4 THEN Got(DecodeObjectIdentifier(o)) ELSE Refused
      [] type = "string" -> GotIf(Len(o) >= 1, o)
      [] type = "bits" -> GotIf(validateBitString(o), o)
      [] type \in {"real", "time"} -> GotIf(Len(o) = 4, o)

kindOf(type) == CASE type \in unsignedTypes -> "unsigned" [] type = "bool" -> "boolean" [] OTHER -> type

\* AppendContextUnsigned, AppendContextBool, AppendContextObjectID, ...
contextField(tag, type, v) == Context(tag, Value(kindOf(type), v))

\* A property value in its wrapper: the one application element it holds, or
\* the constructed value of all its elements.
wrapped(v) == IF v.kind = "constructed" THEN v.body ELSE <<App(v)>>
unwrap(els) == IF Len(els) = 1 /\ ~els[1].context THEN els[1].value ELSE Value("constructed", els)

app(kind, body) == App(Value(kind, body))
appUnsigned(octets) == app("unsigned", zeros(8 - Len(octets)) \o octets)
isApp(el, kind) == ~el.context /\ el.value.kind = kind

\* AsUnsigned: Unsigned, or Enumerated widened.
AsUnsigned(v) == CASE v.kind = "unsigned" -> Got(v.body)
                   [] v.kind = "enumerated" -> Got(zeros(4) \o v.body)
                   [] OTHER -> Refused
unsignedOf(el, w) == IF AsUnsigned(el.value).ok THEN narrow(AsUnsigned(el.value).v, w) ELSE Refused

\* EncodeBACnetError: class and code, enumerated under application tags.
EncodeBACnetError(e) == <<app("enumerated", <<0, 0>> \o e[1]), app("enumerated", <<0, 0>> \o e[2])>>

errorFieldUint(el) ==
    IF el.context THEN contextPrimitive("u16", el.value.body)
    ELSE unsignedOf(el, 2)

\* DecodeBACnetError: two application values in order, or two context ones
\* in either order.
DecodeBACnetError(els) ==
    LET first == IF \A i \in 1 .. Len(els) : els[i].context
                 THEN {i \in 1 .. Len(els) : els[i].tag = 0} ELSE {1}
        class == CHOOSE i \in first : TRUE
        code == 3 - class
    IN IF \/ Len(els) # 2
          \/ \E i \in 1 .. Len(els) : IsContextConstructed(els[i])
          \/ Len(els) = 2 /\ els[1].context # els[2].context
          \/ Cardinality(first) # 1
       THEN Refused
       ELSE IF \/ els[code].context /\ els[code].tag # 1
               \/ ~errorFieldUint(els[1]).ok \/ ~errorFieldUint(els[2]).ok
       THEN Refused
       ELSE Got(<<errorFieldUint(els[class]).v, errorFieldUint(els[code]).v>>)

\* A time stamp is a time of day, a sequence number or a date and time.
EncodeTimeStamp(ts) ==
    CASE ts[1] = "time" -> <<contextField(0, "time", ts[2])>>
      [] ts[1] = "sequence" -> <<contextField(1, "u32", ts[2])>>
      [] ts[1] = "dateTime" -> <<Constructed(2, <<app("date", ts[2]), app("time", ts[3])>>)>>

DecodeTimeStamp(el) ==
    LET time == contextPrimitive("time", el.value.body)
        seq == contextPrimitive("u32", el.value.body)
        parts == el.value.body
    IN CASE el.context /\ el.tag = 0 /\ ~IsContextConstructed(el) ->
              IF time.ok THEN Got(<<"time", time.v>>) ELSE Refused
         [] el.context /\ el.tag = 1 /\ ~IsContextConstructed(el) ->
              IF seq.ok THEN Got(<<"sequence", seq.v>>) ELSE Refused
         [] el.tag = 2 /\ IsContextConstructed(el) ->
              IF Len(parts) # 2 THEN Refused
              ELSE IF isApp(parts[1], "date") /\ isApp(parts[2], "time")
                   THEN Got(<<"dateTime", parts[1].value.body, parts[2].value.body>>) ELSE Refused
         [] OTHER -> Refused

\* A recipient is a device or a network number and a MAC.
appendAuditRecipient(r) ==
    IF r[1] = "device" THEN <<contextField(0, "objectID", r[2])>>
    ELSE <<Constructed(1, <<appUnsigned(r[2]), app("octets", r[3])>>)>>

decodeAuditAddress(els) ==
    IF Len(els) # 2 THEN Refused
    ELSE IF ~isApp(els[1], "unsigned") \/ ~isApp(els[2], "octets") THEN Refused
    ELSE IF unsignedOf(els[1], 2).ok
         THEN Got(<<"address", unsignedOf(els[1], 2).v, els[2].value.body>>) ELSE Refused

decodeAuditRecipient(els) ==
    LET device == contextPrimitive("objectID", els[1].value.body)
    IN CASE Len(els) # 1 -> Refused
         [] els[1].context /\ els[1].tag = 0 /\ ~IsContextConstructed(els[1]) ->
              IF device.ok THEN Got(<<"device", device.v>>) ELSE Refused
         [] els[1].tag = 1 /\ IsContextConstructed(els[1]) -> decodeAuditAddress(els[1].value.body)
         [] OTHER -> Refused

(***************************************************************************)
(* The loops over elements.                                                *)
(***************************************************************************)
isField(el, t, f) ==
    /\ f.type # "gap"
    /\ el.tag = t - 1
    /\ IsContextConstructed(el) = (f.type \notin primitiveTypes)

\* The values of the fields, unless one of them is refused.
placed(here, values) ==
    IF \E t \in DOMAIN here : \E i \in here[t] : ~values[t][i].ok THEN Refused
    ELSE Got([t \in DOMAIN here |-> IF here[t] = {} THEN None ELSE values[t][Max(here[t])].v])

RECURSIVE read(_, _)

\* What the elements at the places i \in here[t] make of field t: the last
\* of them counts.
takePlaces(els, g, here) ==
    IF \/ \E i \in 1 .. Len(els) : \A t \in DOMAIN here : i \notin here[t]
       \/ \E t \in DOMAIN here : g[t].need \in {"one", "opt"} /\ Cardinality(here[t]) > 1
       \/ \E t \in DOMAIN here : g[t].need \in {"one", "some"} /\ here[t] = {}
    THEN Refused
    ELSE placed(here, [t \in DOMAIN here |-> [i \in here[t] |-> read(g[t].type, els[i])]])
take(els, g) ==
    takePlaces(els, g, [t \in 1 .. Len(g) |-> {i \in 1 .. Len(els) : isField(els[i], t, g[t])}])

\* A list without wrappers: field t opens an entry and flushes the one
\* before it.  In order means that the tags of an entry must rise.
rising(s) == \A i \in 1 .. Len(s) - 1 : s[i].tag < s[i + 1].tag
takeEntry(e, g, inOrder) == IF inOrder /\ ~rising(e) THEN Refused ELSE take(e, g)
collected(taken) ==
    IF \A k \in DOMAIN taken : taken[k].ok THEN Got([k \in DOMAIN taken |-> taken[k].v]) ELSE Refused
takeEntries(els, at, g, inOrder) ==
    IF at[1] # 1 THEN Refused
    ELSE collected([k \in 1 .. Len(at) - 1 |-> takeEntry(SubSeq(els, at[k], at[k + 1] - 1), g, inOrder)])
takeList(els, t, g, inOrder) ==
    takeEntries(els, SelectSeq([i \in 1 .. Len(els) + 1 |-> i],
                               LAMBDA i : i <= Len(els) => isField(els[i], t, g[t])), g, inOrder)

propertyReference == <<one("u32"), opt("u32")>>
objectPropertyReference == <<one("objectID"), one("u32"), opt("u32")>>
propertyValue == <<one("u32"), opt("u32"), one("value"), opt("priority")>>
covReference == <<one("reference"), opt("real"), opt("bool")>>
propertyResult == <<gap, gap, one("u32"), any("u32"), opt("value"), opt("error")>>
covMultipleValue == <<one("u32"), any("u32"), one("value"), any("time")>>
eventSummary == <<some("objectID"), some("u32"), some("bits"), some("elements"), some("u32"),
                  some("bits"), some("elements")>>
covSubscription == <<one("objectID"), one("covReferences")>>
changedObject == <<one("objectID"), any("multipleValues")>>
objectSpecifier == <<opt("u16"), opt("objectID")>>

\* What a field that holds no others is on the wire, and is read as.
readFlat(type, el) ==
    LET els == el.value.body
    IN CASE type \in primitiveTypes -> IF el.context THEN contextPrimitive(type, els) ELSE Refused
         [] type = "value" -> Got(unwrap(els))
         [] type = "elements" -> Got(els)
         [] type = "error" -> DecodeBACnetError(els)
         [] type = "stamp" -> IF Len(els) = 1 THEN DecodeTimeStamp(els[1]) ELSE Refused

\* A recipient and the process there; both in this order.
decodeRecipientProcess(els) ==
    LET m == take(els, <<one("elements"), one("u32")>>)
        r == decodeAuditRecipient(m.v[1])
    IN IF ~m.ok THEN Refused
       ELSE IF els[1].tag = 0 /\ r.ok THEN Got(<<r.v, m.v[2]>>) ELSE Refused

priorityFilter(els) ==
    LET m == take(els, <<one("u8"), one("u8")>>)
    IN IF m.ok /\ els[1].tag = 0 THEN Got([i \in 1 .. 2 |-> zeros(3) \o m.v[i]]) ELSE Refused

\* A date and a time in a wrapper; what is of another kind reads as zeros,
\* and fewer than two elements are passed over.
dateTime(els) ==
    <<IF els[1].value.kind = "date" THEN els[1].value.body ELSE zeros(4),
      IF els[2].value.kind = "time" THEN els[2].value.body ELSE zeros(4)>>
isStamp(el) == IsContextConstructed(el) /\ el.tag = 3
stamped(els) == SelectSeq(els, LAMBDA el : isStamp(el) => Len(el.value.body) >= 2)
\* The time of a change may come as such a wrapper too.
timesOfChange(els) ==
    [i \in 1 .. Len(stamped(els)) |->
        LET el == stamped(els)[i] IN IF isStamp(el) THEN Raw(3, dateTime(el.value.body)[2]) ELSE el]

\* The one of value and error that a result must have.
oneOutcome(l) ==
    IF ~l.ok THEN Refused
    ELSE GotIf(\A i \in 1 .. Len(l.v) : (l.v[i][5] = None) # (l.v[i][6] = None), l.v)
\* Timestamped is FALSE where it is absent.
untimed(l) ==
    IF ~l.ok THEN Refused
    ELSE Got([i \in 1 .. Len(l.v) |-> IF l.v[i][3] = None THEN [l.v[i] EXCEPT ![3] = FALSE] ELSE l.v[i]])

listTypes == {"references", "someValues", "covReferences", "subscriptions"}

\* What a field of each type is read as; a list of some types may not be empty.
read(type, el) ==
    LET els == el.value.body
    IN CASE type \in listTypes /\ els = <<>> -> Refused
         [] type = "reference" -> take(els, propertyReference)
         [] type = "objectReference" -> take(els, objectPropertyReference)
         [] type = "specifier" -> IF Len(els) = 1 THEN take(els, objectSpecifier) ELSE Refused
         [] type = "recipientProcess" -> decodeRecipientProcess(els)
         [] type = "priorities" -> priorityFilter(els)
         [] type = "references" -> takeList(els, 1, propertyReference, FALSE)
         [] type \in {"values", "someValues"} -> takeList(els, 1, propertyValue, TRUE)
         [] type = "results" -> oneOutcome(takeList(els, 3, propertyResult, FALSE))
         [] type = "covReferences" -> untimed(takeList(els, 1, covReference, TRUE))
         [] type = "multipleValues" ->
              IF els # <<>> /\ isStamp(els[1]) THEN Refused
              ELSE takeList(timesOfChange(els), 1, covMultipleValue, FALSE)
         [] type = "summaries" -> takeList(els, 1, eventSummary, FALSE)
         [] type = "subscriptions" -> takeList(els, 1, covSubscription, TRUE)
         [] type = "objects" -> takeList(els, 1, changedObject, FALSE)
         [] OTHER -> readFlat(type, el)

\* The elements of the present fields of a message, in the order of tags.
put(m, types) ==
    FlattenSeq([t \in 1 .. Len(types) |->
        CASE types[t] = "gap" -> <<>>
          [] m[t] = None -> <<>>
          [] types[t] \in primitiveTypes -> <<contextField(t - 1, types[t], m[t])>>
          [] types[t] = "value" -> <<Constructed(t - 1, wrapped(m[t]))>>
          [] types[t] = "elements" -> <<Constructed(t - 1, m[t])>>
          [] types[t] = "error" -> <<Constructed(t - 1, EncodeBACnetError(m[t]))>>
          [] types[t] = "stamp" -> <<Constructed(t - 1, EncodeTimeStamp(m[t]))>>])

putAll(ms, types) == FlattenSeq([i \in 1 .. Len(ms) |-> put(ms[i], types)])
putIn(tag, m, types) == <<Constructed(tag, put(m, types))>>
putList(tag, ms, types) == <<Constructed(tag, putAll(ms, types))>>
=============================================================================
