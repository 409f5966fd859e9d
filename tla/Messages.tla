------------------------------ MODULE Messages ------------------------------
(***************************************************************************)
(* The messages of package service: an encoder and a decoder for each, in  *)
(* the terms of module Services.  A decoder that is a loop over fields is  *)
(* its grammar; what it checks or computes besides is an operator of its   *)
(* own.  Any other is an operator on the elements that ParseSequence found *)
(* in the whole payload.                                                   *)
(***************************************************************************)
EXTENDS Services
LOCAL INSTANCE SequencesExt

DeviceType == 8 \* ObjectTypeDevice

present(v) == v # None

(***************************************************************************)
(* Who-Is, I-Am, Who-Has, I-Have.                                          *)
(***************************************************************************)
EncodeWhoIs(m) == SendIf(present(m[1]) = present(m[2]), put(m, <<"u32", "u32">>))

bothLimits(m) == present(m[1]) = present(m[2]) /\ (present(m[1]) => leq(m[1], m[2]))
DecodeWhoIs == <<opt("u32"), opt("u32")>>

EncodeIAm(m) ==
    Send(<<app("objectID", m[1]), appUnsigned(m[2]), app("enumerated", zeros(3) \o m[3]), appUnsigned(m[4])>>)

DecodeIAm(els) ==
    IF ~(Len(els) = 4 /\ isApp(els[1], "objectID") /\ isApp(els[2], "unsigned")
         /\ isApp(els[3], "enumerated") /\ isApp(els[4], "unsigned"))
    THEN Refused
    ELSE LET apdu == unsignedOf(els[2], 2)
             vendor == unsignedOf(els[4], 2)
             seg == els[3].value.body
         IN IF \/ els[1].value.body[1] # DeviceType
               \/ ~leq(seg, <<0, 0, 0, 3>>)
               \/ ~apdu.ok \/ ~vendor.ok
            THEN Refused
            ELSE Got(<<els[1].value.body, apdu.v, tail(seg, 3), vendor.v>>)

EncodeWhoHas(m) ==
    SendIf(present(m[3]) # present(m[4]) /\ bothLimits(m), put(m, <<"u32", "u32", "objectID", "string">>))

oneObject(m) == bothLimits(m) /\ present(m[3]) # present(m[4])
DecodeWhoHas == <<opt("u32"), opt("u32"), opt("objectID"), opt("string")>>

EncodeIHave(m) == Send(<<app("objectID", m[1]), app("objectID", m[2]), app("string", m[3])>>)

DecodeIHave(els) ==
    IF ~(Len(els) = 3 /\ isApp(els[1], "objectID") /\ isApp(els[2], "objectID") /\ isApp(els[3], "string"))
    THEN Refused
    ELSE GotIf(els[1].value.body[1] = DeviceType, [i \in 1 .. 3 |-> els[i].value.body])

(***************************************************************************)
(* Properties.                                                             *)
(***************************************************************************)
EncodeReadProperty(m) == Send(put(m, <<"objectID", "u32", "u32">>))
DecodeReadProperty == objectPropertyReference

EncodeReadPropertyACK(m) == Send(put(m, <<"objectID", "u32", "u32", "value">>))
DecodeReadPropertyACK == <<one("objectID"), one("u32"), opt("u32"), one("value")>>

EncodeWriteProperty(m) ==
    SendIf(present(m[5]) => inRange(m[5]), put(m, <<"objectID", "u32", "u32", "value", "priority">>))
DecodeWriteProperty == <<one("objectID"), one("u32"), opt("u32"), one("value"), opt("priority")>>

\* Lists of <<object, list>>, the list in wrapper 1.
objectLists(ms, types) ==
    FlattenSeq([i \in 1 .. Len(ms) |->
        <<contextField(0, "objectID", ms[i][1])>> \o putList(1, ms[i][2], types)])

EncodeReadPropertyMultiple(m) == Send(objectLists(m, <<"u32", "u32">>))
DecodeReadPropertyMultiple == <<one("objectID"), one("references")>>

EncodeReadPropertyMultipleACK(m) ==
    Send(objectLists(m, <<"gap", "gap", "u32", "u32", "value", "error">>))
DecodeReadPropertyMultipleACK == <<one("objectID"), any("results")>>

valueTypes == <<"u32", "u32", "value", "priority">>
prioritiesInRange(values) == \A i \in 1 .. Len(values) : present(values[i][4]) => inRange(values[i][4])

EncodeWritePropertyMultiple(m) ==
    SendIf(m # <<>> /\ \A i \in 1 .. Len(m) : m[i][2] # <<>> /\ prioritiesInRange(m[i][2]),
           objectLists(m, valueTypes))
DecodeWritePropertyMultiple == <<one("objectID"), one("someValues")>>

EncodeWritePropertyMultipleError(m) ==
    Send(put(m, <<"error", "gap">>) \o putIn(1, m[2], <<"objectID", "u32", "u32">>))
DecodeWritePropertyMultipleError == <<one("error"), one("objectReference")>>

EncodeListElementRequest(m) == SendIf(m[4] # <<>>, put(m, <<"objectID", "u32", "u32", "elements">>))
DecodeListElementRequest == <<some("objectID"), some("u32"), any("u32"), some("elements")>>

(***************************************************************************)
(* ReadRange.  The range is the field of its tag: by position in 3, by     *)
(* sequence number in 6, by time in 7.                                     *)
(***************************************************************************)
EncodeReadRange(m) ==
    LET ranges == {t \in {4, 7, 8} : present(m[t])}
        t == CHOOSE x \in ranges : TRUE
        count == m[t][Len(m[t])]
        body == IF t = 8 THEN <<app("date", m[t][1]), app("time", m[t][2])>> ELSE <<appUnsigned(m[t][1])>>
    IN IF ranges = {} THEN Send(put(m, <<"objectID", "u32", "u32">>))
       ELSE SendIf(count # zeros(4),
                   put(m, <<"objectID", "u32", "u32">>)
                   \o <<Constructed(t - 1, body \o <<app("signed", signed64(count))>>)>>)

\* readRangeCount: neither zero nor the least 32-bit integer.
readRangeCount(el) ==
    LET n == narrowS32(el.value.body)
    IN IF n.ok /\ n.v # zeros(4) /\ n.v # <<128, 0, 0, 0>> THEN n ELSE Refused

decodeIndexCount(els) ==
    IF ~(Len(els) = 2 /\ isApp(els[1], "unsigned") /\ isApp(els[2], "signed")) THEN Refused
    ELSE IF unsignedOf(els[1], 4).ok /\ readRangeCount(els[2]).ok
         THEN Got(<<unsignedOf(els[1], 4).v, readRangeCount(els[2]).v>>) ELSE Refused

decodeTimeCount(els) ==
    IF ~(Len(els) = 3 /\ isApp(els[1], "date") /\ isApp(els[2], "time") /\ isApp(els[3], "signed"))
    THEN Refused
    ELSE IF readRangeCount(els[3]).ok
         THEN Got(<<els[1].value.body, els[2].value.body, readRangeCount(els[3]).v>>) ELSE Refused

DecodeReadRange ==
    <<one("objectID"), one("u32"), opt("u32"), opt("elements"), gap, gap, opt("elements"), opt("elements")>>
rangesOf(m) == {t \in {4, 7, 8} : present(m[t])}
decodeRange(m, t) == IF t = 8 THEN decodeTimeCount(m[t]) ELSE decodeIndexCount(m[t])
oneRange(m) ==
    /\ \A s, t \in rangesOf(m) : s = t
    /\ \A t \in rangesOf(m) : decodeRange(m, t).ok
withRange(m) == [t \in 1 .. 8 |-> IF t \in rangesOf(m) THEN decodeRange(m, t).v ELSE m[t]]

\* The items of any list property; the records of a Log_Buffer, which are
\* encoded from LogRecords instead, are left out.
EncodeReadRangeACK(m) ==
    LET items == FlattenSeq([i \in 1 .. Len(m[6]) |-> wrapped(m[6][i])])
    IN Send(put([m EXCEPT ![6] = items],
                <<"objectID", "u32", "u32", "bits", "u32", "elements", "u32">>))

\* An item is its value; a context-tagged one keeps its elements or itself.
itemData(els) ==
    [i \in 1 .. Len(els) |->
        IF els[i].context /\ ~IsContextConstructed(els[i]) THEN Value("context", <<els[i]>>) ELSE els[i].value]

\* The result flags are three bits in one octet, and items are counted.
shapedRange(m) ==
    /\ Len(m[4]) = 2 /\ m[4][1] = 5
    /\ (m[5] = zeros(4)) = (m[6] = <<>>)
DecodeReadRangeACK ==
    <<one("objectID"), one("u32"), opt("u32"), one("bits"), one("u32"), one("elements"), opt("u32")>>

(***************************************************************************)
(* Objects and files.                                                      *)
(***************************************************************************)
\* <<specifier, initial values>>, the specifier a type or an identifier.
EncodeCreateObject(m) ==
    LET choice == IF m[1][1] = "type" THEN contextField(0, "u16", m[1][2])
                  ELSE contextField(1, "objectID", m[1][2])
    IN SendIf(prioritiesInRange(m[2]),
              <<Constructed(0, <<choice>>)>>
              \o IF m[2] = <<>> THEN <<>> ELSE putList(1, m[2], valueTypes))

DecodeCreateObject == <<one("specifier"), any("values")>>
knownType(m) == present(m[1][1]) => n16(m[1][1], 1) <= 1023
created(m) ==
    <<IF present(m[1][1]) THEN <<"type", m[1][1]>> ELSE <<"id", m[1][2]>>, IF present(m[2]) THEN m[2] ELSE <<>>>>

\* CreateObject-ACK and DeleteObject: one object identifier.
EncodeIdentifier(m) == Send(<<app("objectID", m[1])>>)
DecodeIdentifier(els) ==
    IF Len(els) = 1 /\ els[1].value.kind = "objectID" THEN Got(<<els[1].value.body>>) ELSE Refused

octetStrings(records) == [i \in 1 .. Len(records) |-> app("octets", records[i])]
\* accessMethod: streams in wrapper 0, records in wrapper 1.
accessTag(access) == IF access = "record" THEN 1 ELSE 0

\* <<file, access, start, count>>.
EncodeAtomicReadFile(m) ==
    Send(<<app("objectID", m[1]),
           Constructed(accessTag(m[2]), <<app("signed", signed64(m[3])), appUnsigned(m[4])>>)>>)

\* The parameters inside the one wrapper: a start, then what follows it.
startOf(els) == IF els # <<>> /\ isApp(els[1], "signed") THEN narrowS32(els[1].value.body) ELSE Refused
accessOf(el) == IF el.tag = 1 THEN "record" ELSE "stream"
areOctets(els) == \A i \in 1 .. Len(els) : isApp(els[i], "octets")
contents(els) == [i \in 1 .. Len(els) |-> els[i].value.body]

\* The elements split into the one application value of a kind and the one
\* wrapper, in either order.
fileParts(els, kind) ==
    LET value == {i \in 1 .. Len(els) : isApp(els[i], kind)}
        wrapper == {i \in 1 .. Len(els) : IsContextConstructed(els[i]) /\ els[i].tag \in {0, 1}}
    IN IF Len(els) = 2 /\ value # {} /\ wrapper # {}
       THEN [ok |-> TRUE, value |-> els[CHOOSE i \in value : TRUE].value.body,
             wrapper |-> els[CHOOSE i \in wrapper : TRUE]]
       ELSE Refused

DecodeAtomicReadFile(els) ==
    LET p == fileParts(els, "objectID")
        params == p.wrapper.value.body
    IN IF ~p.ok THEN Refused
       ELSE IF Len(params) # 2 \/ ~startOf(params).ok THEN Refused
       ELSE IF ~unsignedOf(params[2], 4).ok THEN Refused
       ELSE Got(<<p.value, accessOf(p.wrapper), startOf(params).v, unsignedOf(params[2], 4).v>>)

\* The data that follows a start: one octet string of a stream, or a count
\* and the octet strings of the records.
fileData(access, data, count) ==
    IF access = "record" THEN <<appUnsigned(count)>> \o octetStrings(data) ELSE octetStrings(data)

\* <<end of file, access, start, data, record count>>.
EncodeAtomicReadFileACK(m) ==
    Send(<<app("boolean", m[1]),
           Constructed(accessTag(m[2]), <<app("signed", signed64(m[3]))>> \o fileData(m[2], m[4], m[5]))>>)

decodeFileStreamResult(params) == Len(params) = 2 /\ areOctets(tail(params, 1))
decodeFileRecordResult(params) ==
    IF Len(params) < 2 THEN FALSE ELSE unsignedOf(params[2], 4).ok /\ areOctets(tail(params, 2))

\* Without an accessMethod the result is an empty stream at 0.  A repeated
\* one, which no encoder writes, is left out.
DecodeAtomicReadFileACK(els) ==
    LET p == fileParts(els, "boolean")
        params == p.wrapper.value.body
        access == accessOf(p.wrapper)
    IN IF Len(els) = 1 /\ isApp(els[1], "boolean") THEN Got(<<els[1].value.body, "stream", zeros(4), <<>>, zeros(4)>>)
       ELSE IF ~p.ok THEN Refused
       ELSE IF ~startOf(params).ok THEN Refused
       ELSE IF access = "stream"
       THEN GotIf(decodeFileStreamResult(params),
                  <<p.value, access, startOf(params).v, contents(tail(params, 1)), zeros(4)>>)
       ELSE IF decodeFileRecordResult(params)
       THEN Got(<<p.value, access, startOf(params).v, contents(tail(params, 2)), unsignedOf(params[2], 4).v>>)
       ELSE Refused

\* <<file, access, start, data>>; the record count is the number of records.
EncodeAtomicWriteFile(m) ==
    Send(<<app("objectID", m[1]),
           Constructed(accessTag(m[2]), <<app("signed", signed64(m[3]))>>
                                        \o fileData(m[2], m[4], <<0, 0>> \o u16(Len(m[4]))))>>)

DecodeAtomicWriteFile(els) ==
    LET p == fileParts(els, "objectID")
        params == p.wrapper.value.body
        access == accessOf(p.wrapper)
        records == tail(params, 2)
        message(data) == <<p.value, access, startOf(params).v, contents(data)>>
    IN IF ~p.ok THEN Refused
       ELSE IF ~startOf(params).ok \/ Len(params) < 2 THEN Refused
       ELSE IF access = "stream" THEN GotIf(decodeFileStreamResult(params), message(tail(params, 1)))
       ELSE GotIf(/\ AsUnsigned(params[2].value) = Got(zeros(6) \o u16(Len(records)))
                  /\ areOctets(records), message(records))

\* <<access, start>>.
EncodeAtomicWriteFileACK(m) == Send(<<Context(accessTag(m[1]), Value("signed", signed64(m[2])))>>)

DecodeAtomicWriteFileACK(els) ==
    IF Len(els) # 1 THEN Refused
    ELSE IF ~els[1].context \/ IsContextConstructed(els[1]) \/ els[1].tag \notin {0, 1} THEN Refused
    ELSE LET s == decodeSigned(els[1].value.body)
         IN IF ~s.ok THEN Refused
            ELSE IF narrowS32(s.u).ok THEN Got(<<accessOf(els[1]), narrowS32(s.u).v>>) ELSE Refused
=============================================================================
