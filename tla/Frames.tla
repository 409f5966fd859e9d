------------------------------- MODULE Frames -------------------------------
(***************************************************************************)
(* The three headers of a BACnet/IP datagram, octet by octet: bvlc/codec.go *)
(* (BVLC), npdu/codec.go (network layer) and apdu/codec.go (application    *)
(* layer).  An encoder or decoder that returns an error returns Refused.   *)
(***************************************************************************)
EXTENDS Tags
LOCAL INSTANCE SequencesExt

CONSTANTS MaxDatagramSize, \* DecodeLimits.MaxDatagramSize
          MaxAPDUSize      \* DecodeLimits.MaxAPDUSize

Encoded(octets) == [ok |-> TRUE, octets |-> octets]
n16(data, i) == data[i] * 256 + data[i + 1]

(***************************************************************************)
(* BVLC.                                                                   *)
(***************************************************************************)
TypeBACnetIP == 129
FunctionResult == 0
FunctionForwardedNPDU == 4
FunctionRegisterForeignDevice == 5
FunctionDistributeBroadcastToNetwork == 9
FunctionOriginalUnicastNPDU == 10
FunctionOriginalBroadcastNPDU == 11

\* A message: its function, the 16-bit number of a BVLC-Result or of a
\* Register-Foreign-Device, the six octets of the origin of a Forwarded-NPDU,
\* and the payload.
Bvlc(fn, number, origin, payload) ==
    [function |-> fn, number |-> number, origin |-> origin, payload |-> payload]

appendBvlc(m) ==
    LET body == CASE m.function \in {FunctionResult, FunctionRegisterForeignDevice} -> u16(m.number)
                  [] m.function = FunctionForwardedNPDU -> m.origin \o m.payload
                  [] OTHER -> m.payload
        total == 4 + Len(body)
    IN IF total > 65535 THEN Refused
       ELSE Encoded(<<TypeBACnetIP, m.function>> \o u16(total) \o body)

parseBvlc(data) ==
    LET body == tail(data, 4)
        fn == data[2]
        message(m) == [ok |-> TRUE, message |-> m]
    IN CASE Len(data) < 4 \/ Len(data) > MaxDatagramSize -> Refused
         [] data[1] # TypeBACnetIP \/ n16(data, 3) # Len(data) -> Refused
         [] fn \in {FunctionResult, FunctionRegisterForeignDevice} ->
              IF Len(body) = 2 THEN message(Bvlc(fn, n16(body, 1), <<>>, <<>>)) ELSE Refused
         [] fn = FunctionForwardedNPDU ->
              IF Len(body) < 6 THEN Refused ELSE message(Bvlc(fn, 0, head(body, 6), tail(body, 6)))
         [] OTHER -> message(Bvlc(fn, 0, <<>>, body))

(***************************************************************************)
(* Network layer.                                                          *)
(***************************************************************************)
LocalStation(mac) == [scope |-> "localStation", net |-> 0, mac |-> mac]
LocalBroadcast == [scope |-> "localBroadcast", net |-> 0, mac |-> <<>>]
RemoteStation(net, mac) == [scope |-> "remoteStation", net |-> net, mac |-> mac]
RemoteBroadcast(net) == [scope |-> "remoteBroadcast", net |-> net, mac |-> <<>>]
GlobalBroadcast == [scope |-> "globalBroadcast", net |-> 0, mac |-> <<>>]
\* The zero Address of Go: a local station without a MAC.
NoAddress == LocalStation(<<>>)
MaxMACLength == 7

validateRemoteNetwork(net) == net \in 1 .. 65534

hasDst(a) == a.scope \in {"remoteStation", "remoteBroadcast", "globalBroadcast"}
hasSrc(a) == a.scope \in {"localStation", "remoteStation"} /\ a.mac # <<>>

specifier(net, mac) == u16(net) \o <<Len(mac)>> \o mac

\* Append: the control octet comes from the typed fields alone, and the hop
\* count follows the source address.
appendNpdu(n) ==
    LET control == flag(n.network, 128) + flag(hasDst(n.dst), 32) + flag(hasSrc(n.src), 8)
                   + flag(n.expecting, 4) + (n.priority % 4)
        dnet == IF n.dst.scope = "globalBroadcast" THEN 65535 ELSE n.dst.net
        hop == IF n.hop = 0 THEN 255 ELSE n.hop
        bad == \/ n.dst.scope = "remoteStation" /\ n.dst.mac = <<>>
               \/ n.dst.scope \in {"remoteStation", "remoteBroadcast"} /\ ~validateRemoteNetwork(n.dst.net)
               \/ n.src.scope = "remoteStation" /\ n.src.mac # <<>> /\ ~validateRemoteNetwork(n.src.net)
    IN IF bad THEN Refused
       ELSE Encoded(<<1, control>>
                    \o (IF hasDst(n.dst) THEN specifier(dnet, n.dst.mac) ELSE <<>>)
                    \o (IF hasSrc(n.src) THEN specifier(n.src.net, n.src.mac) ELSE <<>>)
                    \o (IF hasDst(n.dst) THEN <<hop>> ELSE <<>>)
                    \o (IF n.network THEN <<n.type>> ELSE <<>>) \o n.data)

\* A network number, a length and that many octets of MAC at an offset.
parseSpecifier(data, off) ==
    LET length == data[off + 3]
        mac == SubSeq(data, off + 4, off + 3 + length)
    IN IF off + 3 > Len(data) THEN Refused
       ELSE IF length > MaxMACLength \/ off + 3 + length > Len(data) THEN Refused
       ELSE [ok |-> TRUE, net |-> n16(data, off + 1), mac |-> mac, off |-> off + 3 + length]

parseDestination(s) ==
    CASE s.net = 65535 -> IF s.mac = <<>> THEN [ok |-> TRUE, address |-> GlobalBroadcast] ELSE Refused
      [] s.net = 0 -> Refused
      [] s.mac = <<>> -> [ok |-> TRUE, address |-> RemoteBroadcast(s.net)]
      [] OTHER -> [ok |-> TRUE, address |-> RemoteStation(s.net, s.mac)]

parseSource(s) ==
    CASE s.mac = <<>> \/ s.net = 65535 -> Refused
      [] s.net = 0 -> [ok |-> TRUE, address |-> LocalStation(s.mac)]
      [] OTHER -> [ok |-> TRUE, address |-> RemoteStation(s.net, s.mac)]

\* Router lists hold whole, non-zero numbers; rejections and could-be-router
\* hold three octets; Network-Number-Is at least two.
validateNetworkMessageData(type, data) ==
    CASE type \in {1, 4, 5} -> Len(data) % 2 = 0 /\ \A i \in 1 .. Len(data) \div 2 : n16(data, 2 * i - 1) # 0
      [] type \in {2, 3} -> Len(data) = 3
      [] type = 19 -> Len(data) >= 2
      [] OTHER -> TRUE

parseNpdu(data) ==
    LET c == data[2]
        none(off, a) == [ok |-> TRUE, address |-> a, off |-> off]
        at(off, present, parse(_)) ==
            IF ~present THEN none(off, NoAddress)
            ELSE LET s == parseSpecifier(data, off)
                 IN IF ~s.ok THEN Refused
                    ELSE IF ~parse(s).ok THEN Refused ELSE none(s.off, parse(s).address)
        dst == at(2, bit(c, 5), parseDestination)
        src == at(dst.off, bit(c, 3), parseSource)
        hopAt == src.off + flag(bit(c, 5), 1)
        typeAt == hopAt + flag(bit(c, 7), 1)
        n == [network |-> bit(c, 7), expecting |-> bit(c, 2), priority |-> c % 4,
              dst |-> dst.address, src |-> src.address,
              hop |-> IF bit(c, 5) THEN data[hopAt] ELSE 0,
              type |-> IF bit(c, 7) THEN data[typeAt] ELSE 0,
              data |-> tail(data, typeAt)]
    IN CASE Len(data) < 2 \/ Len(data) > MaxDatagramSize -> Refused
         [] data[1] # 1 \/ bit(c, 6) \/ bit(c, 4) -> Refused
         [] ~dst.ok -> Refused
         [] ~src.ok -> Refused
         [] typeAt > Len(data) -> Refused
         [] n.network /\ ~validateNetworkMessageData(n.type, n.data) -> Refused
         [] OTHER -> [ok |-> TRUE, npdu |-> n]

(***************************************************************************)
(* Application layer.  The segment fields are one record, or None-like     *)
(* empty, as they are present together.                                    *)
(***************************************************************************)
Unsegmented == [segmented |-> FALSE, more |-> FALSE, seq |-> 0, window |-> 0]
Segmented(more, seq, window) == [segmented |-> TRUE, more |-> more, seq |-> seq, window |-> window]

appendSegment(s) == IF s.segmented THEN <<s.seq, s.window>> ELSE <<>>

AppendConfirmedRequest(p) ==
    <<flag(p.segment.segmented, 8) + flag(p.segment.more, 4) + flag(p.accepted, 2),
      (p.maxSegments % 8) * 16 + (p.maxAPDU % 16), p.invoke>>
    \o appendSegment(p.segment) \o <<p.choice>> \o p.payload

AppendComplexACK(p) ==
    <<48 + flag(p.segment.segmented, 8) + flag(p.segment.more, 4), p.invoke>>
    \o appendSegment(p.segment) \o <<p.choice>> \o p.payload

AppendSegmentACK(p) == <<64 + flag(p.negative, 2) + flag(p.server, 1), p.invoke, p.seq, p.window>>

appendApdu(p) ==
    CASE p.type = "confirmed" -> AppendConfirmedRequest(p)
      [] p.type = "unconfirmed" -> <<16, p.choice>> \o p.payload
      [] p.type = "simpleACK" -> <<32, p.invoke, p.choice>>
      [] p.type = "complexACK" -> AppendComplexACK(p)
      [] p.type = "segmentACK" -> AppendSegmentACK(p)
      [] p.type = "error" -> <<80, p.invoke, p.choice>> \o p.payload
      [] p.type = "reject" -> <<96, p.invoke, p.reason>>
      [] p.type = "abort" -> <<112 + flag(p.server, 1), p.invoke, p.reason>>

checkWindowSize(w) == w \in 1 .. 127
DecodeMaxAPDUSize(code) == code \in 0 .. 5

\* The segment fields after the fixed header of n octets, then the service
\* choice: shared by the two PDUs that can be segmented.
parseSegmented(data, n) ==
    LET segmented == bit(data[1], 3)
        off == n + IF segmented THEN 2 ELSE 0
        s == IF segmented THEN Segmented(bit(data[1], 2), data[n + 1], data[n + 2]) ELSE Unsegmented
    IN IF \/ bit(data[1], 2) /\ ~segmented
          \/ off >= Len(data)
       THEN Refused
       ELSE IF segmented /\ ~checkWindowSize(s.window) THEN Refused
       ELSE [ok |-> TRUE, segment |-> s, choice |-> data[off + 1], payload |-> tail(data, off + 1)]

parseConfirmed(data) ==
    LET r == parseSegmented(data, 3)
    IN CASE Len(data) < 4 -> Refused
         [] bit(data[1], 0) \/ bit(data[2], 7) \/ ~DecodeMaxAPDUSize(data[2] % 16) -> Refused
         [] ~r.ok -> Refused
         [] OTHER -> [ok |-> TRUE,
                      pdu |-> [type |-> "confirmed", accepted |-> bit(data[1], 1),
                               maxSegments |-> data[2] \div 16, maxAPDU |-> data[2] % 16,
                               invoke |-> data[3], segment |-> r.segment, choice |-> r.choice,
                               payload |-> r.payload]]

parseComplexACK(data) ==
    LET r == parseSegmented(data, 2)
    IN CASE Len(data) < 3 \/ data[1] % 4 # 0 -> Refused
         [] ~r.ok -> Refused
         [] OTHER -> [ok |-> TRUE,
                      pdu |-> [type |-> "complexACK", invoke |-> data[2], segment |-> r.segment,
                               choice |-> r.choice, payload |-> r.payload]]

parseSegmentACK(data) ==
    IF Len(data) # 4 THEN Refused
    ELSE IF data[1] % 16 > 3 \/ ~checkWindowSize(data[4]) THEN Refused
    ELSE [ok |-> TRUE, pdu |-> [type |-> "segmentACK", negative |-> bit(data[1], 1),
                                server |-> bit(data[1], 0), invoke |-> data[2], seq |-> data[3],
                                window |-> data[4]]]

\* The PDUs without options: a length, and no bits set beside the type.
parsePlain(data) ==
    LET type == data[1] \div 16
        pdu(p) == [ok |-> TRUE, pdu |-> p]
    IN CASE type = 1 /\ Len(data) >= 2 /\ data[1] % 16 = 0 ->
              pdu([type |-> "unconfirmed", choice |-> data[2], payload |-> tail(data, 2)])
         [] type = 2 /\ Len(data) = 3 /\ data[1] % 16 = 0 ->
              pdu([type |-> "simpleACK", invoke |-> data[2], choice |-> data[3]])
         [] type = 5 /\ Len(data) >= 3 /\ data[1] % 16 = 0 ->
              pdu([type |-> "error", invoke |-> data[2], choice |-> data[3], payload |-> tail(data, 3)])
         [] type = 6 /\ Len(data) = 3 /\ data[1] % 16 = 0 ->
              pdu([type |-> "reject", invoke |-> data[2], reason |-> data[3]])
         [] type = 7 /\ Len(data) = 3 /\ data[1] % 16 < 2 ->
              pdu([type |-> "abort", server |-> bit(data[1], 0), invoke |-> data[2], reason |-> data[3]])
         [] OTHER -> Refused

parseApdu(data) ==
    CASE data = <<>> -> Refused
      [] Len(data) > MaxAPDUSize -> Refused
      [] data[1] \div 16 = 0 -> parseConfirmed(data)
      [] data[1] \div 16 = 3 -> parseComplexACK(data)
      [] data[1] \div 16 = 4 -> parseSegmentACK(data)
      [] OTHER -> parsePlain(data)
=============================================================================
