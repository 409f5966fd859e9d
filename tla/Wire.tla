-------------------------------- MODULE Wire --------------------------------
(***************************************************************************)
(* One conversation between a client and a server, octet by octet, over    *)
(* the paths BACnet/IP has: on one subnet, through a BBMD of which the     *)
(* client is a foreign device, and through a router to another network.    *)
(* The client looks for the device with Who-Is, takes its target from the  *)
(* I-Am, makes a call to it, and the server answers it, or notifies the    *)
(* client at the place it was called from.  Every step hands over a whole  *)
(* datagram; what a datagram says is built by the encoders and read by the *)
(* decoders of package service and the headers of bvlc, npdu and apdu.     *)
(***************************************************************************)
EXTENDS Notices

CONSTANTS
  Client, Server, Broker,  \* B/IP MACs of the client, the server and the BBMD
  NearPort, FarPort,       \* B/IP MACs of the router on its two networks
  NearNet, FarNet,         \* their network numbers
  Ways,                    \* the paths to try: subsets of {"bbmd", "router"}
  Samples,                 \* the messages to try, a sequence for each service
  InvokeID

VARIABLES
  way,       \* the path between the two
  call,      \* what the client calls: a service and which of its samples
  note,      \* what the server answers or notifies, likewise
  stage,     \* how far the conversation is
  datagram,  \* the datagram on its way, or None
  target,    \* the client's Target, or None
  peer,      \* where the server was called from, or None
  seen       \* the message last read: its service, what was sent, what was got

wireVars == <<way, call, note, stage, datagram, target, peer, seen>>

(***************************************************************************)
(* Services (apdu/codec.go, server/dispatch.go).                           *)
(***************************************************************************)
confirmedChoice == [
  AcknowledgeAlarm |-> 0, ConfirmedCOVNotification |-> 1, ConfirmedEventNotification |-> 2,
  GetAlarmSummary |-> 3, GetEnrollmentSummary |-> 4, SubscribeCOV |-> 5, AtomicReadFile |-> 6,
  AtomicWriteFile |-> 7, AddListElement |-> 8, RemoveListElement |-> 9, CreateObject |-> 10,
  DeleteObject |-> 11, ReadProperty |-> 12, ReadPropertyMultiple |-> 14, WriteProperty |-> 15,
  WritePropertyMultiple |-> 16, DeviceCommunicationControl |-> 17, ConfirmedPrivateTransfer |-> 18,
  ConfirmedTextMessage |-> 19, ReinitializeDevice |-> 20, VTOpen |-> 21, VTData |-> 23,
  ReadRange |-> 26, LifeSafetyOperation |-> 27, SubscribeCOVProperty |-> 28,
  GetEventInformation |-> 29, SubscribeCOVPropertyMultiple |-> 30,
  ConfirmedCOVNotificationMultiple |-> 31]

unconfirmedChoice == [
  IAm |-> 0, IHave |-> 1, UnconfirmedCOVNotification |-> 2, UnconfirmedEventNotification |-> 3,
  UnconfirmedPrivateTransfer |-> 4, UnconfirmedTextMessage |-> 5, TimeSynchronization |-> 6,
  WhoHas |-> 7, WhoIs |-> 8, UTCTimeSynchronization |-> 9, WriteGroup |-> 10,
  UnconfirmedCOVNotificationMultiple |-> 11]

confirmedNotices == {"ConfirmedCOVNotification", "ConfirmedEventNotification",
                     "ConfirmedCOVNotificationMultiple"}
unconfirmedNotices == {"UnconfirmedCOVNotification", "UnconfirmedEventNotification",
                       "UnconfirmedCOVNotificationMultiple"}
notices == confirmedNotices \cup unconfirmedNotices

\* The confirmed services this server has no handler for; a device of
\* another make may have one.
unserved == {"VTOpen", "VTData", "LifeSafetyOperation"}
confirmedCalls == DOMAIN confirmedChoice \ confirmedNotices
unconfirmedCalls == DOMAIN unconfirmedChoice \ (unconfirmedNotices \cup {"IAm", "IHave"})

\* The services with a result; the others are acknowledged without one.
resultOf == [
  ReadProperty |-> "ReadPropertyACK", ReadPropertyMultiple |-> "ReadPropertyMultipleACK",
  ReadRange |-> "ReadRangeACK", AtomicReadFile |-> "AtomicReadFileACK",
  AtomicWriteFile |-> "AtomicWriteFileACK", CreateObject |-> "CreateObjectACK",
  GetAlarmSummary |-> "GetAlarmSummaryACK", GetEnrollmentSummary |-> "GetEnrollmentSummaryACK",
  GetEventInformation |-> "GetEventInformationACK", VTOpen |-> "VTOpenACK", VTData |-> "VTDataACK"]

errorOf(service) == IF service = "WritePropertyMultiple" THEN "WritePropertyMultipleError" ELSE "Error"

\* What the handler of a call may make of it.
answersTo(service) ==
    (IF service \in DOMAIN resultOf THEN {resultOf[service]} ELSE {"SimpleACK"})
    \cup (IF service \in confirmedCalls THEN {errorOf(service)} ELSE {})
    \cup (IF service = "Segment" THEN {"SegmentACK"} ELSE {})
    \cup (IF service = "WhoHas" THEN {"IHave"} ELSE {})
    \cup (IF service = "WhoIs" THEN {"IAm"} ELSE {})
    \cup (IF service = "SubscribeCOV" THEN notices ELSE {})

message(c) == Samples[c[1]][c[2]]

Encode(service, m) ==
    CASE service = "WhoIs" -> EncodeWhoIs(m)
      [] service = "IAm" -> EncodeIAm(m)
      [] service = "WhoHas" -> EncodeWhoHas(m)
      [] service = "IHave" -> EncodeIHave(m)
      [] service = "ReadProperty" -> EncodeReadProperty(m)
      [] service = "ReadPropertyACK" -> EncodeReadPropertyACK(m)
      [] service = "WriteProperty" -> EncodeWriteProperty(m)
      [] service = "ReadPropertyMultiple" -> EncodeReadPropertyMultiple(m)
      [] service = "ReadPropertyMultipleACK" -> EncodeReadPropertyMultipleACK(m)
      [] service = "WritePropertyMultiple" -> EncodeWritePropertyMultiple(m)
      [] service = "WritePropertyMultipleError" -> EncodeWritePropertyMultipleError(m)
      [] service = "Error" -> Send(EncodeBACnetError(m))
      [] service \in {"AddListElement", "RemoveListElement"} -> EncodeListElementRequest(m)
      [] service = "ReadRange" -> EncodeReadRange(m)
      [] service = "ReadRangeACK" -> EncodeReadRangeACK(m)
      [] service = "CreateObject" -> EncodeCreateObject(m)
      [] service \in {"CreateObjectACK", "DeleteObject"} -> EncodeIdentifier(m)
      [] service = "AtomicReadFile" -> EncodeAtomicReadFile(m)
      [] service = "AtomicReadFileACK" -> EncodeAtomicReadFileACK(m)
      [] service = "AtomicWriteFile" -> EncodeAtomicWriteFile(m)
      [] service = "AtomicWriteFileACK" -> EncodeAtomicWriteFileACK(m)
      [] service = "SubscribeCOV" -> EncodeSubscribeCOV(m)
      [] service = "SubscribeCOVProperty" -> EncodeSubscribeCOVProperty(m)
      [] service = "SubscribeCOVPropertyMultiple" -> EncodeSubscribeCOVPropertyMultiple(m)
      [] service \in {"ConfirmedCOVNotification", "UnconfirmedCOVNotification"} -> EncodeCOVNotification(m)
      [] service \in {"ConfirmedCOVNotificationMultiple", "UnconfirmedCOVNotificationMultiple"} ->
           EncodeCOVNotificationMultiple(m)
      [] service \in {"ConfirmedEventNotification", "UnconfirmedEventNotification"} ->
           EncodeEventNotification(m)
      [] service = "AcknowledgeAlarm" -> EncodeAcknowledgeAlarm(m)
      [] service = "GetAlarmSummary" -> Send(<<>>)
      [] service = "GetAlarmSummaryACK" -> EncodeGetAlarmSummaryACK(m)
      [] service = "GetEnrollmentSummary" -> EncodeGetEnrollmentSummary(m)
      [] service = "GetEnrollmentSummaryACK" -> EncodeGetEnrollmentSummaryACK(m)
      [] service = "GetEventInformation" -> EncodeGetEventInformation(m)
      [] service = "GetEventInformationACK" -> EncodeGetEventInformationACK(m)
      [] service = "DeviceCommunicationControl" -> EncodeDeviceCommunicationControl(m)
      [] service = "ReinitializeDevice" -> EncodeReinitializeDevice(m)
      [] service \in {"ConfirmedPrivateTransfer", "UnconfirmedPrivateTransfer"} -> EncodePrivateTransfer(m)
      [] service \in {"ConfirmedTextMessage", "UnconfirmedTextMessage"} -> EncodeTextMessage(m)
      [] service \in {"TimeSynchronization", "UTCTimeSynchronization"} -> EncodeTimeSynchronization(m)
      [] service = "WriteGroup" -> EncodeWriteGroup(m)
      [] service = "LifeSafetyOperation" -> EncodeLifeSafetyOperation(m)
      [] service = "VTOpen" -> EncodeVTOpen(m)
      [] service = "VTOpenACK" -> EncodeVTOpenACK(m)
      [] service = "VTData" -> EncodeVTData(m)
      [] service = "VTDataACK" -> EncodeVTDataACK(m)
      [] service = "SimpleACK" -> Send(<<>>)

\* DecodeError: a bare error, or one in a wrapper with parameters after it.
DecodeError(els) ==
    IF els # <<>> /\ els[1].tag = 0 /\ IsContextConstructed(els[1])
    THEN DecodeBACnetError(els[1].value.body) ELSE DecodeBACnetError(els)

\* The decoders that are grammars.
grammar == [
  WhoIs |-> DecodeWhoIs, WhoHas |-> DecodeWhoHas, ReadProperty |-> DecodeReadProperty,
  ReadPropertyACK |-> DecodeReadPropertyACK, WriteProperty |-> DecodeWriteProperty,
  WritePropertyMultipleError |-> DecodeWritePropertyMultipleError,
  AddListElement |-> DecodeListElementRequest, RemoveListElement |-> DecodeListElementRequest,
  ReadRange |-> DecodeReadRange, ReadRangeACK |-> DecodeReadRangeACK, CreateObject |-> DecodeCreateObject,
  SubscribeCOV |-> DecodeSubscribeCOV, SubscribeCOVProperty |-> DecodeSubscribeCOVProperty,
  SubscribeCOVPropertyMultiple |-> DecodeSubscribeCOVPropertyMultiple,
  ConfirmedCOVNotification |-> DecodeCOVNotification, UnconfirmedCOVNotification |-> DecodeCOVNotification,
  ConfirmedCOVNotificationMultiple |-> DecodeCOVNotificationMultiple,
  UnconfirmedCOVNotificationMultiple |-> DecodeCOVNotificationMultiple,
  ConfirmedEventNotification |-> DecodeEventNotification,
  UnconfirmedEventNotification |-> DecodeEventNotification,
  AcknowledgeAlarm |-> DecodeAcknowledgeAlarm, GetEnrollmentSummary |-> DecodeGetEnrollmentSummary,
  GetEventInformation |-> DecodeGetEventInformation,
  GetEventInformationACK |-> DecodeGetEventInformationACK,
  DeviceCommunicationControl |-> DecodeDeviceCommunicationControl,
  ReinitializeDevice |-> DecodeReinitializeDevice,
  ConfirmedPrivateTransfer |-> DecodePrivateTransfer, UnconfirmedPrivateTransfer |-> DecodePrivateTransfer,
  ConfirmedTextMessage |-> DecodeTextMessage, UnconfirmedTextMessage |-> DecodeTextMessage,
  WriteGroup |-> DecodeWriteGroup, LifeSafetyOperation |-> DecodeLifeSafetyOperation,
  VTDataACK |-> DecodeVTDataACK]

\* The payloads that are lists without wrappers.
listGrammar == [
  ReadPropertyMultiple |-> DecodeReadPropertyMultiple,
  ReadPropertyMultipleACK |-> DecodeReadPropertyMultipleACK,
  WritePropertyMultiple |-> DecodeWritePropertyMultiple]

\* What a decoder passes over or rewrites before it takes the fields, the
\* checks on them together, and what it makes of them.
tidied(service, els) ==
    CASE service \in {"ConfirmedCOVNotificationMultiple", "UnconfirmedCOVNotificationMultiple"} -> stamped(els)
      [] service \in {"ConfirmedTextMessage", "UnconfirmedTextMessage"} -> bareText(els)
      [] service = "GetEnrollmentSummary" -> itsFields(els)
      [] OTHER -> els

holds(service, els, m) ==
    CASE service = "WhoIs" -> bothLimits(m)
      [] service = "WhoHas" -> oneObject(m)
      [] service = "ReadRange" -> oneRange(m)
      [] service = "ReadRangeACK" -> shapedRange(m)
      [] service = "CreateObject" -> knownType(m)
      [] service \in {"SubscribeCOV", "SubscribeCOVProperty"} -> wholeSubscription(m)
      [] service = "DeviceCommunicationControl" -> allowedControl(m)
      [] service = "ReinitializeDevice" -> allowedState(m)
      [] service = "VTDataACK" -> els[1].tag = 0
      [] OTHER -> TRUE

meaning(service, m) ==
    CASE service = "ReadRange" -> withRange(m)
      [] service = "ReadRangeACK" -> [m EXCEPT ![6] = itemData(@)]
      [] service = "CreateObject" -> created(m)
      [] service = "SubscribeCOVPropertyMultiple" -> withConfirmed(m)
      [] service \in {"ConfirmedCOVNotificationMultiple", "UnconfirmedCOVNotificationMultiple"} -> withStamp(m)
      [] service \in {"ConfirmedPrivateTransfer", "UnconfirmedPrivateTransfer"} -> withParameters(m)
      [] service \in {"ConfirmedTextMessage", "UnconfirmedTextMessage"} -> [m EXCEPT ![4] = Tail(@)]
      [] service = "LifeSafetyOperation" -> [m EXCEPT ![2] = Tail(@)]
      [] OTHER -> m

understood(service, els, m) ==
    IF ~m.ok THEN Refused
    ELSE IF holds(service, els, m.v) THEN Got(meaning(service, m.v)) ELSE Refused

\* Only the result of ReadPropertyMultiple may be empty.
Decode(service, els) ==
    CASE service \in DOMAIN grammar ->
           understood(service, els, take(tidied(service, els), grammar[service]))
      [] service \in DOMAIN listGrammar ->
           IF els = <<>> /\ service # "ReadPropertyMultipleACK" THEN Refused
           ELSE takeList(els, 1, listGrammar[service], FALSE)
      [] service = "IAm" -> DecodeIAm(els)
      [] service = "IHave" -> DecodeIHave(els)
      [] service = "Error" -> DecodeError(els)
      [] service \in {"CreateObjectACK", "DeleteObject"} -> DecodeIdentifier(els)
      [] service = "AtomicReadFile" -> DecodeAtomicReadFile(els)
      [] service = "AtomicReadFileACK" -> DecodeAtomicReadFileACK(els)
      [] service = "AtomicWriteFile" -> DecodeAtomicWriteFile(els)
      [] service = "AtomicWriteFileACK" -> DecodeAtomicWriteFileACK(els)
      [] service = "GetAlarmSummary" -> GotIf(els = <<>>, <<>>)
      [] service = "GetAlarmSummaryACK" -> DecodeGetAlarmSummaryACK(els)
      [] service = "GetEnrollmentSummaryACK" -> DecodeGetEnrollmentSummaryACK(els)
      [] service \in {"TimeSynchronization", "UTCTimeSynchronization"} -> DecodeTimeSynchronization(els)
      [] service = "VTOpen" -> DecodeVTOpen(els)
      [] service = "VTOpenACK" -> DecodeVTOpenACK(els)
      [] service = "VTData" -> DecodeVTData(els)

\* The octets of a message, and what a receiver makes of octets.
appended(e) == IF e.ok THEN AppendTags(e.els) ELSE Refused
payloadOf(c) == appended(Encode(c[1], message(c)))
decoded(service, els) == IF els.ok THEN Decode(service, els.els) ELSE Refused
readAs(service, octets) == decoded(service, ParseSequence(octets))
noticed(c, got) == [service |-> c[1], sent |-> message(c), got |-> got]

(***************************************************************************)
(* Sending (internal/link, client.sendNPDU, server.sendAPDU).              *)
(***************************************************************************)
Everyone == <<>> \* the destination of a local broadcast

\* link.APDU: a destination specifier only for what is not local.
linkAPDU(dest, expecting, octets) ==
    [network |-> FALSE, expecting |-> expecting, priority |-> 0,
     dst |-> IF hasDst(dest) THEN dest ELSE NoAddress, src |-> NoAddress,
     hop |-> 255, type |-> 0, data |-> octets]

\* link.Frame, handed to the transport.
transmit(from, to, fn, n) ==
    LET raw == appendNpdu(n)
        frame == appendBvlc(Bvlc(fn, 0, <<>>, raw.octets))
    IN IF raw.ok /\ frame.ok THEN [from |-> from, to |-> to, octets |-> frame.octets] ELSE None

isForeign == "bbmd" \in way

\* A registered foreign device has its BBMD distribute its broadcasts.
clientSends(to, dest, expecting, octets) ==
    LET n == linkAPDU(dest, expecting, octets)
    IN CASE to # Everyone -> transmit(Client, to, FunctionOriginalUnicastNPDU, n)
         [] isForeign -> transmit(Client, Broker, FunctionDistributeBroadcastToNetwork, n)
         [] OTHER -> transmit(Client, Everyone, FunctionOriginalBroadcastNPDU, n)

serverSends(to, dest, expecting, octets) ==
    transmit(Server, to, IF to = Everyone THEN FunctionOriginalBroadcastNPDU ELSE FunctionOriginalUnicastNPDU,
             linkAPDU(dest, expecting, octets))

\* server.reply without the destination behind the router.
replyToHop(p, octets) == serverSends(p.immediate, NoAddress, FALSE, octets)
reply(p, octets) == serverSends(p.immediate, p.source, FALSE, octets)

\* broadcastAPDU: on the network the request came from.
broadcastAPDU(p, octets) ==
    IF p.source.scope = "remoteStation"
    THEN serverSends(p.immediate, RemoteBroadcast(p.source.net), FALSE, octets)
    ELSE serverSends(Everyone, NoAddress, FALSE, octets)

\* sendIAm and the end of whoHas: as the request came.
announce(p, octets) == IF p.broadcast THEN broadcastAPDU(p, octets) ELSE reply(p, octets)

(***************************************************************************)
(* Receiving (client and server handlePacket).                             *)
(***************************************************************************)
localAddress(mac) == LocalStation(mac)

\* The layers of a datagram; a layer is opened when the one around it is
\* of a kind the receiver takes.
npduOf(m) ==
    IF ~m.ok THEN Refused
    ELSE IF \/ m.message.function \notin {FunctionOriginalUnicastNPDU, FunctionOriginalBroadcastNPDU, FunctionForwardedNPDU}
            \/ m.message.payload = <<>>
    THEN Refused ELSE parseNpdu(m.message.payload)
apduOf(n) ==
    IF ~n.ok THEN Refused
    ELSE IF n.npdu.network \/ n.npdu.data = <<>> THEN Refused ELSE parseApdu(n.npdu.data)
layers(d, m, n) ==
    [npdu |-> n, apdu |-> apduOf(n), from |-> d.from,
     forwarded |-> m.ok /\ m.message.function = FunctionForwardedNPDU,
     unicast |-> m.ok /\ m.message.function = FunctionOriginalUnicastNPDU,
     origin |-> IF n.ok /\ m.message.function = FunctionForwardedNPDU THEN m.message.origin ELSE d.from]
openedAs(d, m) == layers(d, m, npduOf(m))
opened(d) == openedAs(d, parseBvlc(d.octets))

clientHandles(l) ==
    LET n == l.npdu.npdu
    IN CASE ~l.apdu.ok -> Refused
         [] l.forwarded /\ isForeign /\ l.from # Broker -> Refused
         [] OTHER -> [ok |-> TRUE, pdu |-> l.apdu.pdu, dst |-> n.dst,
                      src |-> [address |-> IF n.src = NoAddress THEN localAddress(l.origin) ELSE n.src,
                               origin |-> l.origin, immediate |-> l.from]]
clientReads(d) == clientHandles(opened(d))

serverHandles(l) ==
    LET n == l.npdu.npdu
    IN CASE ~l.apdu.ok -> Refused
         [] n.dst.scope \in {"remoteStation", "remoteBroadcast"} -> Refused
         [] OTHER -> [ok |-> TRUE, pdu |-> l.apdu.pdu,
                      peer |-> [immediate |-> l.from, origin |-> l.origin,
                                source |-> IF n.src.scope = "remoteStation" THEN n.src ELSE NoAddress,
                                broadcast |-> ~l.unicast \/ n.dst = GlobalBroadcast]]
serverReads(d) == serverHandles(opened(d))

\* DeviceObservation.Target: a device seen through a BBMD is asked directly,
\* one behind a router through the immediate peer.
TargetOf(src) ==
    [address |-> src.address,
     endpoint |-> IF src.origin # src.immediate /\ src.address.scope # "remoteStation"
                  THEN src.origin ELSE src.immediate]

\* matchTargetSource for a target without an expected origin.
matchTargetSource(t, src) == src.address = t.address /\ src.immediate = t.endpoint

responseDestination(src) == IF src.address.scope = "remoteStation" THEN src.address ELSE NoAddress

(***************************************************************************)
(* Between them.  The BBMD is package bbmd with the client as its only     *)
(* foreign device (see module Bbmd for the mesh); the router is external.  *)
(***************************************************************************)
viaRouter == "router" \in way

Hearer(d) ==
    CASE d.to # Everyone -> d.to
      [] d.from \in {Client, Broker} -> IF viaRouter THEN NearPort ELSE Server
      [] d.from = FarPort -> Server
      [] d.from = Server /\ viaRouter -> None
      [] OTHER -> IF isForeign THEN Broker ELSE Client

\* HandleBVLC: broadcasts go on with the address of their origin.
forwarded(d) ==
    LET m == parseBvlc(d.octets).message
        frame == appendBvlc(Bvlc(FunctionForwardedNPDU, 0, d.from, m.payload))
    IN CASE m.function = FunctionDistributeBroadcastToNetwork ->
              [from |-> Broker, to |-> Everyone, octets |-> frame.octets]
         [] m.function = FunctionOriginalBroadcastNPDU ->
              [from |-> Broker, to |-> Client, octets |-> frame.octets]
         [] OTHER -> None

\* A router replaces the destination specifier by that of the source.
route(l, out, net, hereNet) ==
    LET n == l.npdu.npdu
        on(dst) == [n EXCEPT !.dst = dst, !.src = RemoteStation(hereNet, l.origin), !.hop = @ - 1]
    IN CASE n.dst = GlobalBroadcast -> transmit(out, Everyone, FunctionOriginalBroadcastNPDU, on(GlobalBroadcast))
         [] n.dst = RemoteBroadcast(net) -> transmit(out, Everyone, FunctionOriginalBroadcastNPDU, on(NoAddress))
         [] n.dst.scope = "remoteStation" /\ n.dst.net = net ->
              transmit(out, n.dst.mac, FunctionOriginalUnicastNPDU, on(NoAddress))
         [] OTHER -> None
routed(d, out, net, hereNet) == route(opened(d), out, net, hereNet)

(***************************************************************************)
(* The conversation.                                                       *)
(***************************************************************************)
whoIs == IF call[1] = "WhoIs" THEN call ELSE <<"WhoIs", 1>>
iAm == IF note[1] = "IAm" THEN note ELSE <<"IAm", 1>>
\* What a call is answered with before anything is notified.
answer == IF note[1] \in notices THEN <<"SimpleACK", 1>> ELSE note

\* sendUnconfirmed knows local addresses only.
localCalls == unconfirmedCalls \ {"WhoIs", "WhoHas"}

WireInit ==
    /\ way \in Ways
    /\ \E s \in confirmedCalls \cup unconfirmedCalls \cup {"Segment"} :
         \E a \in answersTo(s) : \E i \in 1 .. Len(Samples[s]), j \in 1 .. Len(Samples[a]) :
           /\ i = 1 \/ j = 1
           /\ viaRouter => s \notin localCalls
           /\ call = <<s, i>> /\ note = <<a, j>>
    /\ stage = "start" /\ datagram = None /\ target = None /\ peer = None /\ seen = None

unconfirmedPDU(c, octets) == appendApdu([type |-> "unconfirmed", choice |-> unconfirmedChoice[c[1]], payload |-> octets])
confirmedPDU(choice, segment, octets) ==
    appendApdu([type |-> "confirmed", accepted |-> TRUE, maxSegments |-> 7, maxAPDU |-> 5, invoke |-> InvokeID,
                segment |-> segment, choice |-> choice, payload |-> octets])
segmentOf(m) == Segmented(m[1], m[2], m[3])
rejectPDU(reason) == appendApdu([type |-> "reject", invoke |-> InvokeID, reason |-> reason])
simplePDU(choice) == appendApdu([type |-> "simpleACK", invoke |-> InvokeID, choice |-> choice])

\* The service with a choice, as the receiver finds it.
confirmedService(choice) == CHOOSE s \in DOMAIN confirmedChoice : confirmedChoice[s] = choice
unconfirmedService(choice) == CHOOSE s \in DOMAIN unconfirmedChoice : unconfirmedChoice[s] = choice

\* SendWhoIs of a discovery.
SendWhoIs ==
    /\ stage = "start"
    /\ \E p \in {payloadOf(whoIs)} :
         datagram' = IF p.ok
                     THEN clientSends(Everyone, GlobalBroadcast, FALSE, unconfirmedPDU(whoIs, p.octets))
                     ELSE None
    /\ stage' = IF datagram' = None THEN "over" ELSE "finding"
    /\ UNCHANGED <<way, call, note, target, peer, seen>>

\* A confirmed request, SendWhoHas or sendUnconfirmed; what the encoder
\* refuses is not sent.
toTarget(pdu) == clientSends(target.endpoint, target.address, TRUE, pdu)
callDatagram(p) ==
    CASE ~p.ok -> None
      [] call[1] \in confirmedCalls -> toTarget(confirmedPDU(confirmedChoice[call[1]], Unsegmented, p.octets))
      [] OTHER -> clientSends(Everyone, IF call[1] = "WhoHas" THEN GlobalBroadcast ELSE LocalBroadcast, FALSE,
                              unconfirmedPDU(call, p.octets))
Call ==
    /\ stage = "found"
    /\ datagram' = IF call[1] = "Segment"
                   THEN toTarget(confirmedPDU(confirmedChoice["WriteProperty"], segmentOf(message(call)), <<1, 2>>))
                   ELSE callDatagram(payloadOf(call))
    /\ stage' = IF datagram' = None THEN "over" ELSE "calling"
    /\ UNCHANGED <<way, call, note, target, peer, seen>>

\* The server notifies where it was called from.
notifyDatagram(p) ==
    CASE ~p.ok -> None
      [] note[1] \in confirmedNotices ->
           serverSends(peer.immediate, peer.source, TRUE,
                       confirmedPDU(confirmedChoice[note[1]], Unsegmented, p.octets))
      [] OTHER -> serverSends(peer.immediate, peer.source, FALSE, unconfirmedPDU(note, p.octets))
Notify ==
    /\ stage = "called"
    /\ datagram' = notifyDatagram(payloadOf(note))
    /\ stage' = IF datagram' = None THEN "over" ELSE "noting"
    /\ UNCHANGED <<way, call, note, target, peer, seen>>

Relay ==
    /\ datagram # None
    /\ Hearer(datagram) \in {None, Broker, NearPort, FarPort}
    /\ datagram' = CASE Hearer(datagram) = Broker -> forwarded(datagram)
                     [] Hearer(datagram) = NearPort -> routed(datagram, FarPort, FarNet, NearNet)
                     [] Hearer(datagram) = FarPort -> routed(datagram, NearPort, NearNet, FarNet)
                     [] OTHER -> None
    /\ stage' = IF datagram' = None THEN "lost" ELSE stage
    /\ UNCHANGED <<way, call, note, target, peer, seen>>

drop == datagram' = None /\ stage' = "lost"
finish(s) == datagram' = None /\ stage' = s

\* result.encode for what the handler of the call returned.
answerPDU(octets) ==
    LET choice == confirmedChoice[call[1]]
    IN CASE answer[1] = "SimpleACK" -> simplePDU(choice)
         [] answer[1] = errorOf(call[1]) ->
              appendApdu([type |-> "error", invoke |-> InvokeID, choice |-> choice, payload |-> octets])
         [] OTHER -> appendApdu([type |-> "complexACK", invoke |-> InvokeID, segment |-> Unsegmented,
                                 choice |-> choice, payload |-> octets])

serverTakesUnconfirmed(pdu, p) ==
    LET asked == IF stage = "finding" THEN whoIs ELSE call
        told == IF stage = "finding" THEN iAm ELSE note
        instance == <<0>> \o u24(message(told)[1][2])
        asksMe(m) == present(m[1]) => leq(m[1], instance) /\ leq(instance, m[2])
    IN \E got \in {readAs(unconfirmedService(pdu.choice), pdu.payload)} :
       /\ seen' = noticed(asked, got)
       /\ IF ~got.ok THEN drop
          ELSE IF told[1] = "SimpleACK" THEN finish("over")
          ELSE IF ~asksMe(got.v) THEN finish("over")
          ELSE datagram' = announce(p, unconfirmedPDU(told, payloadOf(told).octets)) /\ UNCHANGED stage

\* On a worker: a service without a handler and a payload that does not
\* decode are rejected.
serverTakesConfirmed(pdu, p) ==
    \E got \in {readAs(confirmedService(pdu.choice), pdu.payload)}, served \in {call[1] \notin unserved, TRUE} :
         /\ seen' = noticed(call, got)
         /\ datagram' = reply(p, CASE ~served -> rejectPDU(9)
                                   [] ~got.ok -> rejectPDU(4)
                                   [] OTHER -> answerPDU(payloadOf(answer).octets))
         /\ UNCHANGED stage

serverTakesSegment(pdu, p) ==
    LET m == message(answer)
    IN /\ seen' = noticed(call, Got(<<pdu.segment.more, pdu.segment.seq, pdu.segment.window>>))
       /\ datagram' = reply(p, IF answer[1] = "SegmentACK"
                               THEN appendApdu([type |-> "segmentACK", negative |-> m[1], server |-> TRUE,
                                                invoke |-> InvokeID, seq |-> m[2], window |-> m[3]])
                               ELSE appendApdu([type |-> "abort", server |-> TRUE, invoke |-> InvokeID, reason |-> 4]))
       /\ UNCHANGED stage

ServerHears ==
    /\ datagram # None
    /\ Hearer(datagram) = Server
    /\ UNCHANGED <<way, call, note, target>>
    /\ \E r \in {serverReads(datagram)} :
          \/ ~r.ok /\ drop /\ UNCHANGED <<peer, seen>>
          \/ /\ r.ok /\ r.pdu.type = "unconfirmed"
             /\ serverTakesUnconfirmed(r.pdu, r.peer) /\ UNCHANGED peer
          \/ /\ r.ok /\ r.pdu.type = "confirmed" /\ peer' = r.peer
             /\ IF r.pdu.segment.segmented THEN serverTakesSegment(r.pdu, r.peer)
                ELSE serverTakesConfirmed(r.pdu, r.peer)
          \* requester.response: any answer of the node the request went to.
          \/ /\ r.ok /\ r.pdu.type \in {"simpleACK", "reject"}
             /\ IF r.peer.immediate = peer.immediate /\ r.pdu.invoke = InvokeID THEN finish("over") ELSE drop
             /\ UNCHANGED <<peer, seen>>

clientTakesUnconfirmed(pdu, src) ==
    LET finding == stage = "finding"
    IN \E got \in {readAs(unconfirmedService(pdu.choice), pdu.payload)} :
       /\ seen' = noticed(IF finding THEN iAm ELSE note, got)
       /\ target' = IF finding /\ got.ok THEN TargetOf(src) ELSE target
       /\ IF ~got.ok THEN drop ELSE finish(IF finding /\ call[1] # "WhoIs" THEN "found" ELSE "over")

\* handleConfirmedIndication.
clientTakesConfirmed(pdu, src, dst) ==
    \E got \in {readAs(confirmedService(pdu.choice), pdu.payload)} :
       /\ seen' = noticed(note, got)
       /\ IF dst.scope \in {"remoteStation", "remoteBroadcast"} THEN drop
          ELSE datagram' = clientSends(src.immediate, responseDestination(src), FALSE,
                                       IF got.ok THEN simplePDU(pdu.choice) ELSE rejectPDU(4))
               /\ UNCHANGED stage

\* handleConfirmedResponse and segmentSender.deliver.
clientTakesAnswer(pdu, src) ==
    LET mine == /\ pdu.invoke = InvokeID
                /\ matchTargetSource(target, src)
                /\ pdu.type \in {"simpleACK", "complexACK"} => pdu.choice = confirmedChoice[call[1]]
                /\ pdu.type = "segmentACK" => pdu.server
        result == IF pdu.type = "error" THEN errorOf(call[1]) ELSE resultOf[call[1]]
        got == CASE pdu.type \in {"complexACK", "error"} -> readAs(result, pdu.payload)
                 [] pdu.type = "segmentACK" -> Got(<<pdu.negative, pdu.seq, pdu.window>>)
                 [] OTHER -> Got(<<>>)
    IN /\ seen' = IF mine /\ pdu.type \notin {"reject", "abort"} THEN noticed(answer, got) ELSE seen
       /\ IF ~mine THEN drop ELSE finish(IF note[1] \in notices THEN "called" ELSE "over")

ClientHears ==
    /\ datagram # None
    /\ Hearer(datagram) = Client
    /\ UNCHANGED <<way, call, note, peer>>
    /\ \E r \in {clientReads(datagram)} :
          \/ ~r.ok /\ drop /\ UNCHANGED <<target, seen>>
          \/ r.ok /\ r.pdu.type = "unconfirmed" /\ clientTakesUnconfirmed(r.pdu, r.src)
          \/ r.ok /\ r.pdu.type = "confirmed" /\ clientTakesConfirmed(r.pdu, r.src, r.dst) /\ UNCHANGED target
          \/ r.ok /\ r.pdu.type \notin {"unconfirmed", "confirmed"} /\ clientTakesAnswer(r.pdu, r.src) /\ UNCHANGED target

(***************************************************************************)
(* Properties.                                                             *)
(***************************************************************************)
\* What an encoder writes though its decoder refuses it.
Unreadable(service, m) ==
    CASE service = "WhoIs" -> present(m[1]) /\ ~leq(m[1], m[2])
      [] service = "IAm" -> m[1][1] # DeviceType \/ m[3][1] > 3
      [] service = "IHave" -> m[1][1] # DeviceType
      [] service = "ReadPropertyMultiple" -> m = <<>> \/ \E i \in 1 .. Len(m) : m[i][2] = <<>>
      [] service = "ReadRange" -> \E t \in {4, 7, 8} : present(m[t]) /\ m[t][Len(m[t])] = <<128, 0, 0, 0>>
      [] service = "ReadRangeACK" -> ~shapedRange(m)
      [] service = "CreateObject" -> m[1][1] = "type" /\ n16(m[1][2], 1) > 1023
      [] service = "GetEnrollmentSummaryACK" -> \E i \in 1 .. Len(m) : ~leq(m[i][4], <<0, 0, 0, 255>>)
      [] service \in {"Segment", "SegmentACK"} -> ~checkWindowSize(m[3])
      [] OTHER -> FALSE

\* Whatever one side encodes, the other reads as it was meant, through the
\* service codec, the tags and the three headers, and over every path; it may
\* refuse only the listed messages, which the encoders let through.
ReadAsWritten ==
    seen # None => IF seen.got.ok THEN seen.got.v = seen.sent ELSE Unreadable(seen.service, seen.sent)

\* No datagram of a conversation is dropped for its addresses: the target an
\* I-Am gives leads to the device, what the device answers or notifies comes
\* back to the client that called it, and passes the check of its source.
EveryAnswerArrives ==
    stage = "lost" => \E c \in {call, note} : Unreadable(c[1], message(c))
=============================================================================
