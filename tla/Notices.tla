------------------------------- MODULE Notices ------------------------------
(***************************************************************************)
(* The messages of package service about changes, alarms and the device    *)
(* itself: COV, events, device control, messaging and virtual terminals.   *)
(***************************************************************************)
EXTENDS Messages
LOCAL INSTANCE SequencesExt
LOCAL INSTANCE FiniteSets

(***************************************************************************)
(* Change of value.  A cancellation has neither of the two fields that     *)
(* say how and for how long to notify.                                     *)
(***************************************************************************)
cancels(m) == ~present(m[3]) /\ ~present(m[4])

EncodeSubscribeCOV(m) == Send(put(m, <<"u32", "objectID", "bool", "u32">>))

wholeSubscription(m) == present(m[3]) = present(m[4])
DecodeSubscribeCOV ==
    <<one("u32"), one("objectID"), opt("bool"), opt("u32")>>

\* The increment is left out of a cancellation, the property is not.
EncodeSubscribeCOVProperty(m) ==
    Send(put(m, <<"u32", "objectID", "bool", "u32">>)
         \o putIn(4, m[5], <<"u32", "u32">>)
         \o IF present(m[6]) /\ ~cancels(m) THEN <<contextField(5, "real", m[6])>> ELSE <<>>)

DecodeSubscribeCOVProperty ==
    <<one("u32"), one("objectID"), opt("bool"), opt("u32"), one("reference"), any("real")>>

EncodeCOVNotification(m) ==
    SendIf(m[5] # <<>> /\ prioritiesInRange(m[5]),
           put(m, <<"u32", "objectID", "objectID", "u32">>) \o putList(4, m[5], valueTypes))
DecodeCOVNotification ==
    <<one("u32"), one("objectID"), one("objectID"), one("u32"), one("values")>>

\* <<process, confirmed, lifetime, delay, subscriptions>>; confirmed is None
\* in a cancellation, which leaves out the lifetime too.
EncodeSubscribeCOVPropertyMultiple(m) ==
    LET reference(r) == putIn(0, r[1], <<"u32", "u32">>) \o put(r, <<"gap", "real", "bool">>)
        references(rs) == FlattenSeq([i \in 1 .. Len(rs) |-> reference(rs[i])])
        subscription(s) == <<contextField(0, "objectID", s[1]), Constructed(1, references(s[2]))>>
    IN SendIf(m[5] # <<>> /\ \A i \in 1 .. Len(m[5]) : m[5][i][2] # <<>>,
              put(IF present(m[2]) THEN m ELSE [m EXCEPT ![3] = None], <<"u32", "bool", "u32", "u32">>)
              \o <<Constructed(4, FlattenSeq([i \in 1 .. Len(m[5]) |-> subscription(m[5][i])]))>>)
\* A lifetime alone subscribes, unconfirmed.
DecodeSubscribeCOVPropertyMultiple ==
    <<some("u32"), any("bool"), any("u32"), any("u32"), one("subscriptions")>>
withConfirmed(m) == IF present(m[3]) /\ ~present(m[2]) THEN [m EXCEPT ![2] = FALSE] ELSE m

\* <<process, device, time remaining, time stamp, objects>>.
EncodeCOVNotificationMultiple(m) ==
    Send(put(m, <<"u32", "objectID", "u32">>)
         \o (IF present(m[4]) THEN <<Constructed(3, <<app("date", m[4][1]), app("time", m[4][2])>>)>> ELSE <<>>)
         \o <<Constructed(4, objectLists(m[5], <<"u32", "u32", "value", "time">>))>>)

DecodeCOVNotificationMultiple ==
    <<some("u32"), some("objectID"), some("u32"), any("elements"), any("objects")>>
withStamp(m) == [m EXCEPT ![4] = IF present(@) THEN dateTime(@) ELSE None,
                          ![5] = IF present(@) THEN @ ELSE <<>>]

(***************************************************************************)
(* Events and alarms.                                                      *)
(***************************************************************************)
EncodeAcknowledgeAlarm(m) == Send(put(m, <<"u32", "objectID", "u32", "stamp", "string", "stamp">>))
DecodeAcknowledgeAlarm ==
    <<some("u32"), some("objectID"), some("u32"), some("stamp"), some("string"), some("stamp")>>

\* Without the parameters of the event (tag 12).
EncodeEventNotification(m) ==
    Send(put(m, <<"u32", "objectID", "objectID", "stamp", "u32", "u8", "u32", "string", "u32", "bool",
                  "u32", "u32">>))
DecodeEventNotification ==
    <<one("u32"), one("objectID"), one("objectID"), one("stamp"), one("u32"), one("u8"),
                 one("u32"), opt("string"), one("u32"), opt("bool"), opt("u32"), one("u32")>>

\* <<last received>>, and nothing at all without one.
EncodeGetEventInformation(m) == Send(put(m, <<"objectID">>))
DecodeGetEventInformation ==
    <<opt("objectID")>>

\* <<summaries, more events>>.
EncodeGetEventInformationACK(m) ==
    Send(putList(0, m[1], <<"objectID", "u32", "bits", "elements", "u32", "bits", "elements">>)
         \o <<contextField(1, "bool", m[2])>>)
DecodeGetEventInformationACK ==
    <<one("summaries"), one("bool")>>

\* A sequence of <<object, state, acknowledged transitions>>.
EncodeGetAlarmSummaryACK(m) ==
    Send(FlattenSeq([i \in 1 .. Len(m) |-> <<app("objectID", m[i][1]), app("enumerated", m[i][2]),
                                             app("bits", m[i][3])>>]))
DecodeGetAlarmSummaryACK(els) ==
    LET n == Len(els) \div 3
        kind == <<"bits", "objectID", "enumerated">>
    IN IF Len(els) % 3 # 0 \/ \E i \in 1 .. Len(els) : els[i].value.kind # kind[(i % 3) + 1] THEN Refused
       ELSE Got([i \in 1 .. n |-> [k \in 1 .. 3 |-> els[3 * i - 3 + k].value.body]])

\* <<acknowledgment, recipient and process, state, type, priorities, class>>.
EncodeGetEnrollmentSummary(m) ==
    LET process(p) == <<Constructed(0, appendAuditRecipient(p[1])), contextField(1, "u32", p[2])>>
        octet(p) == head(p, 3) = zeros(3)
    IN SendIf(present(m[5]) => octet(m[5][1]) /\ octet(m[5][2]),
              put(m, <<"u8">>)
              \o (IF present(m[2]) THEN <<Constructed(1, process(m[2]))>> ELSE <<>>)
              \o put(m, <<"gap", "gap", "u32", "u32">>)
              \o (IF present(m[5]) THEN putIn(4, m[5], <<"u32", "u32">>) ELSE <<>>)
              \o put(m, <<"gap", "gap", "gap", "gap", "gap", "u32">>))

\* A field of another tag is passed over.
DecodeGetEnrollmentSummary ==
    <<some("u8"), any("recipientProcess"), any("u32"), any("u32"), any("priorities"), any("u32")>>
itsFields(els) == SelectSeq(els, LAMBDA el : \E t \in 1 .. 6 : isField(el, t, DecodeGetEnrollmentSummary[t]))

\* A sequence of <<object, type, state, priority, class or None>>.
EncodeGetEnrollmentSummaryACK(m) ==
    Send(FlattenSeq([i \in 1 .. Len(m) |->
        <<app("objectID", m[i][1]), app("enumerated", m[i][2]), app("enumerated", m[i][3]),
          appUnsigned(m[i][4])>> \o IF present(m[i][5]) THEN <<appUnsigned(m[i][5])>> ELSE <<>>]))

\* An entry is four elements, and a fifth when another Unsigned follows.
DecodeGetEnrollmentSummaryACK(els) ==
    LET starts == {i \in 1 .. Len(els) : isApp(els[i], "objectID")}
        at == SetToSortSeq(starts \cup {Len(els) + 1}, LAMBDA a, b : a < b)
        entry(k) == SubSeq(els, at[k], at[k + 1] - 1)
        fits(e) == /\ Len(e) \in {4, 5}
                   /\ isApp(e[2], "enumerated") /\ isApp(e[3], "enumerated")
                   /\ isApp(e[4], "unsigned") /\ unsignedOf(e[4], 1).ok
                   /\ Len(e) = 5 => isApp(e[5], "unsigned") /\ unsignedOf(e[5], 4).ok
        value(e) == <<e[1].value.body, e[2].value.body, e[3].value.body, zeros(3) \o unsignedOf(e[4], 1).v,
                      IF Len(e) = 5 THEN unsignedOf(e[5], 4).v ELSE None>>
    IN IF at[1] # 1 \/ \E k \in 1 .. Len(at) - 1 : ~fits(entry(k)) THEN Refused
       ELSE Got([k \in 1 .. Len(at) - 1 |-> value(entry(k))])

(***************************************************************************)
(* Device control and messaging.                                           *)
(***************************************************************************)
MaxPassword == 20
\* A string is its character set and its octets.
shortPassword(password) == present(password) => Len(password) <= MaxPassword + 1

allowedControl(m) == m[2][1] <= 2 /\ shortPassword(m[3])
EncodeDeviceCommunicationControl(m) == SendIf(allowedControl(m), put(m, <<"u16", "u8", "string">>))
DecodeDeviceCommunicationControl ==
    <<opt("u16"), one("u8"), opt("string")>>

allowedState(m) == m[1][1] <= 7 /\ shortPassword(m[2])
EncodeReinitializeDevice(m) == SendIf(allowedState(m), put(m, <<"u8", "string">>))
DecodeReinitializeDevice ==
    <<one("u8"), opt("string")>>

EncodePrivateTransfer(m) ==
    Send(put(IF m[3] = <<>> THEN [m EXCEPT ![3] = None] ELSE m, <<"u16", "u32", "elements">>))
DecodePrivateTransfer == <<some("u16"), some("u32"), any("elements")>>
withParameters(m) == IF present(m[3]) THEN m ELSE [m EXCEPT ![3] = <<>>]

\* The message is UTF-8 (character set 0); the class is in a wrapper.
EncodeTextMessage(m) ==
    Send(put(m, <<"objectID">>)
         \o (IF present(m[2]) THEN <<Constructed(1, <<contextField(0, "u32", m[2])>>)>> ELSE <<>>)
         \o put(m, <<"gap", "gap", "u8">>) \o <<contextField(3, "string", <<0>> \o m[4])>>)

\* The class is the first field 0 of its wrapper, or stands without one; the
\* text may be an application string in a wrapper.
DecodeTextMessage == <<some("objectID"), any("u32"), some("u8"), some("string")>>
bareText(els) ==
    LET classes(el) == SelectSeq(el.value.body, LAMBDA e : e.tag = 0 /\ ~IsContextConstructed(e))
        boxed(el, t) == IsContextConstructed(el) /\ el.tag = t
        text(el) == Len(el.value.body) = 1 /\ el.value.body[1].value.kind = "string"
        bare(el) == CASE boxed(el, 1) -> [classes(el)[1] EXCEPT !.tag = 1]
                      [] boxed(el, 3) /\ text(el) -> Raw(3, el.value.body[1].value.body)
                      [] OTHER -> el
        used == SelectSeq(els, LAMBDA el : boxed(el, 1) => classes(el) # <<>>)
    IN [i \in 1 .. Len(used) |-> bare(used[i])]

EncodeTimeSynchronization(m) == Send(<<app("date", m[1]), app("time", m[2])>>)
DecodeTimeSynchronization(els) ==
    IF Len(els) # 2 THEN Refused
    ELSE GotIf(els[1].value.kind = "date" /\ els[2].value.kind = "time",
               <<els[1].value.body, els[2].value.body>>)

EncodeWriteGroup(m) == SendIf(m[3] # <<>>, put(m, <<"u32", "u8", "elements", "bool">>))
DecodeWriteGroup ==
    <<some("u32"), some("u8"), some("elements"), any("bool")>>

EncodeLifeSafetyOperation(m) ==
    Send(put([m EXCEPT ![2] = <<0>> \o @], <<"u32", "string", "u32", "objectID">>))
DecodeLifeSafetyOperation == <<some("u32"), some("string"), some("u32"), any("objectID")>>

(***************************************************************************)
(* Virtual terminals.                                                      *)
(***************************************************************************)
EncodeVTOpen(m) == Send(<<app("enumerated", m[1]), appUnsigned(m[2])>>)
DecodeVTOpen(els) ==
    IF Len(els) # 2 THEN Refused
    ELSE IF els[1].value.kind = "enumerated" /\ unsignedOf(els[2], 1).ok
         THEN Got(<<els[1].value.body, unsignedOf(els[2], 1).v>>) ELSE Refused

EncodeVTOpenACK(m) == Send(<<appUnsigned(m[1])>>)
DecodeVTOpenACK(els) ==
    IF Len(els) # 1 THEN Refused
    ELSE IF unsignedOf(els[1], 1).ok THEN Got(<<unsignedOf(els[1], 1).v>>) ELSE Refused

EncodeVTData(m) == Send(<<appUnsigned(m[1]), app("octets", m[2]), appUnsigned(m[3])>>)
DecodeVTData(els) ==
    IF Len(els) # 3 THEN Refused
    ELSE IF els[2].value.kind = "octets" /\ unsignedOf(els[1], 1).ok /\ unsignedOf(els[3], 1).ok
         THEN Got(<<unsignedOf(els[1], 1).v, els[2].value.body, unsignedOf(els[3], 1).v>>) ELSE Refused

EncodeVTDataACK(m) == Send(put(m, <<"bool", "u32">>))
DecodeVTDataACK == <<one("bool"), opt("u32")>>
=============================================================================
