-------------------------- MODULE SegRequestProofs --------------------------
(***************************************************************************)
(* That a segmented request is all or nothing, for every window, limit and *)
(* length, however the network loses, repeats and reorders.                *)
(*                                                                         *)
(* The invariant: the reassembly is a prefix of the message; a SegmentACK  *)
(* in flight names a stored segment; and whatever was sent, stored or      *)
(* acknowledged lies below Bound, the end of the window that begins at the *)
(* first segment not acknowledged.  Bound never falls, although nextToSend *)
(* does (a negative SegmentACK rewinds it), and a client that waits has    *)
(* sent everything below it.                                               *)
(***************************************************************************)
EXTENDS SegRequest, TLAPS

Prefix(n) == [k \in 1 .. n |-> k - 1]

Bound ==
  IF highestAcked = -1 THEN 1 ELSE Least(highestAcked + 1 + ActualWindow, segs)

Running == {"build", "fill", "wait"}

ClientInv ==
  /\ segs \in Sizes
  /\ phase \in {"build", "fill", "wait", "sent", "failed"}
  /\ highestAcked \in -1 .. segs - 1
  /\ nextToSend \in highestAcked + 1 .. Bound
  /\ inFlight = nextToSend - highestAcked - 1
  /\ window \in 1 .. MaxWindow
  /\ nakRounds \in 0 .. NakLimit + 1
  /\ phase \in Running =>
       /\ nakRounds <= NakLimit
       /\ window = IF highestAcked = -1 THEN 1 ELSE ActualWindow
  /\ phase = "wait" => nextToSend = Bound
  /\ phase = "sent" => highestAcked = segs - 1

\* The reassembly holds the first n segments.
Holds(n) ==
  /\ asm = [expected |-> n, inWindow |-> asm.inWindow, buf |-> Prefix(n)]
  /\ asm.inWindow \in 0 .. ActualWindow
  /\ n <= limits.segments /\ n <= limits.octets
  /\ n <= stored
  /\ server = "asm" <=> n > 0
  /\ n = 0 => asm.inWindow = 0

ServerInv ==
  /\ limits \in Limits
  /\ server \in {"none", "asm", "exec"}
  /\ \E n \in 0 .. segs - 1 : Holds(n)
  /\ stored \in 0 .. Bound
  /\ stored = segs => accepted # <<>>
  /\ accepted \in Seq(Seq(Payloads))
  /\ highestAcked < stored

InFlight(m) ==
  \/ \E i \in Nat : i < Bound /\ m = Seg(i)
  \/ \E s \in Nat : \E nak \in BOOLEAN : s < stored /\ m = Ack(s, nak)
  \/ m = ClientAbort

NetInv == \A m \in net : InFlight(m)

\* A request that does not fit the sequence numbers is never begun.
Begun ==
  phase = "build" \/ segs > SeqMod =>
    /\ phase \in {"build", "failed"}
    /\ net = {} /\ server = "none" /\ highestAcked = -1 /\ nextToSend = 0

Inv == ClientInv /\ ServerInv /\ NetInv /\ Begun /\ disturbed \in BOOLEAN

\* The actual window is a window.
LEMMA WindowType == ActualWindow \in 1 .. MaxWindow /\ ValidWindow(ActualWindow)
BY SegmentAssumption, RequestAssumption DEF ActualWindow, Window, ValidWindow

\* The constants a request depends on.
LEMMA SizeType == Sizes \subseteq Nat \ {0} /\ SeqMod \in Nat /\ SeqMod > 1
BY SegmentAssumption, RequestAssumption

\* The end of the window is within the message.
LEMMA BoundType ==
  ASSUME segs \in Sizes, highestAcked \in -1 .. segs - 1
  PROVE  Bound \in 1 .. segs /\ highestAcked < Bound
BY WindowType, SizeType, SegmentAssumption DEF Bound, Least

\* Prefixes of the message grow by one segment.
LEMMA PrefixFacts ==
  ASSUME NEW n \in Nat, segs \in Sizes
  PROVE  /\ Prefix(n) \in Seq(Nat) /\ Len(Prefix(n)) = n
         /\ Append(Prefix(n), n) = Prefix(n + 1)
         /\ n <= segs => Prefix(n) \in Seq(Payloads)
         /\ n = segs => Prefix(n) = Message
<1>1. Prefix(n) \in Seq(Nat) /\ Len(Prefix(n)) = n
  BY DEF Prefix
<1>2. Append(Prefix(n), n) = Prefix(n + 1)
  BY DEF Prefix
<1>3. n <= segs => Prefix(n) \in Seq(Payloads)
  BY SizeType DEF Prefix, Payloads
<1>4. n = segs => Prefix(n) = Message
  BY Zenon DEF Prefix, Message
<1> QED BY Zenon, <1>1, <1>2, <1>3, <1>4

\* The messages have different types.
LEMMA MessageTypes ==
  ASSUME NEW m, InFlight(m)
  PROVE  /\ m.type = "seg" => \E i \in Nat : i < Bound /\ m = Seg(i)
         /\ m.type = "ack" =>
              \E s \in Nat : \E nak \in BOOLEAN : s < stored /\ m = Ack(s, nak)
BY DEF InFlight, Seg, Ack, ClientAbort

\* The initial state satisfies the invariant.
LEMMA InitInv == Init => Inv
<1> SUFFICES ASSUME Init PROVE Inv BY Zenon
<1> USE SizeType, RequestAssumption
<1>1. segs \in Nat /\ segs > 0
  BY DEF Init
<1>2. Bound = 1
  BY Zenon DEF Init, Bound
<1>3. ClientInv
  BY <1>1, <1>2, WindowType, SegmentAssumption DEF Init, ClientInv, Running
<1>4. Prefix(0) = <<>>
  BY DEF Prefix
<1>5. Holds(0)
  BY <1>4, WindowType DEF Init, Holds, NewReassembly
<1>6. ServerInv
  BY <1>1, <1>2, <1>5 DEF Init, ServerInv
<1>7. disturbed \in BOOLEAN
  BY Zenon DEF Init
<1> QED BY Zenon, <1>3, <1>6, <1>7 DEF Init, Inv, NetInv, Begun

(***************************************************************************)
(* What steps have in common.                                              *)
(***************************************************************************)
\* Acknowledgements only move the window's end up.
LEMMA BoundGrows ==
  ASSUME segs \in Sizes, highestAcked \in -1 .. segs - 1,
         highestAcked' \in highestAcked .. segs - 1, segs' = segs
  PROVE  Bound' >= Bound /\ Bound' \in 1 .. segs
BY WindowType, SizeType, SegmentAssumption DEF Bound, Least, ActualWindow

\* A message in flight stays accounted for while nothing is forgotten.
LEMMA StaysInFlight ==
  ASSUME NEW m, InFlight(m), segs' = segs, Bound \in Nat, Bound' \in Nat,
         Bound' >= Bound, stored \in Nat, stored' \in Nat, stored' >= stored
  PROVE  InFlight(m)'
<1>1. CASE \E i \in Nat : i < Bound /\ m = Seg(i)
  BY <1>1 DEF InFlight, Seg
<1>2. CASE \E s \in Nat : \E nak \in BOOLEAN : s < stored /\ m = Ack(s, nak)
  <2>1. PICK s \in Nat : s < stored /\ \E nak \in BOOLEAN : m = Ack(s, nak)
    BY Zenon, <1>2
  <2>2. s < stored'
    BY <2>1
  <2> QED BY Zenon, <2>1, <2>2 DEF InFlight, Ack
<1>3. CASE m = ClientAbort
  BY Zenon, <1>3 DEF InFlight, ClientAbort
<1> QED BY Zenon, <1>1, <1>2, <1>3 DEF InFlight

\* Delivery removes messages or leaves copies, and adds out.
LEMMA DeliveryKeeps ==
  ASSUME NEW m, NEW out, Deliver(m, out) \/ DeliverDisturbed(m, out),
         disturbed \in BOOLEAN
  PROVE  net' \subseteq net \cup out /\ disturbed' \in BOOLEAN
<1>1. net' \subseteq net \cup out
  BY Zenon DEF Deliver, DeliverDisturbed
<1>2. disturbed' \in BOOLEAN
  BY Zenon DEF Deliver, DeliverDisturbed
<1> QED BY Zenon, <1>1, <1>2

\* The network after a step that sends only what may be in flight.
LEMMA NetKeeps ==
  ASSUME Inv, NEW out, net' \subseteq net \cup out, segs' = segs,
         highestAcked' \in highestAcked .. segs - 1,
         stored' \in Nat, stored' >= stored,
         \A m \in out : InFlight(m)'
  PROVE  NetInv'
<1>1. Bound' >= Bound /\ Bound' \in 1 .. segs /\ Bound \in 1 .. segs /\ segs \in Nat
  BY Zenon, BoundGrows, BoundType, SizeType DEF Inv, ClientInv
<1>2. stored \in Nat
  BY <1>1 DEF Inv, ServerInv
<1>3. \A m \in net : InFlight(m)'
  BY <1>1, <1>2, StaysInFlight DEF Inv, NetInv
<1> QED BY Zenon, <1>3 DEF NetInv

\* The server after a step of the client.
LEMMA ServerKeeps ==
  ASSUME Inv, segs' = segs, highestAcked' \in highestAcked .. segs - 1,
         highestAcked' < stored, UNCHANGED serverVars
  PROVE  ServerInv'
<1>1. Bound' >= Bound /\ Bound' \in 1 .. segs /\ Bound \in 1 .. segs /\ segs \in Nat
  BY Zenon, BoundGrows, BoundType, SizeType DEF Inv, ClientInv
<1>2. \E n \in 0 .. segs' - 1 : Holds(n)'
  BY Zenon DEF Inv, ServerInv, Holds, serverVars, ActualWindow
<1>3. stored' \in 0 .. Bound'
  BY <1>1 DEF Inv, ServerInv, serverVars
<1>4. accepted' \in Seq(Seq(Payloads))' /\ (stored' = segs' => accepted' # <<>>)
  BY Zenon DEF Inv, ServerInv, serverVars, Payloads
<1> QED BY Zenon, <1>2, <1>3, <1>4 DEF Inv, ServerInv, serverVars

\* The client after a step of the server or of the network.
LEMMA ClientKeeps ==
  ASSUME ClientInv, UNCHANGED clientVars
  PROVE  ClientInv' /\ Bound' = Bound /\ segs' = segs /\ phase' = phase
         /\ highestAcked' = highestAcked
BY Zenon DEF ClientInv, clientVars, Bound, ActualWindow, Running

\* A segmented request under way fits the sequence numbers.
LEMMA UnderWay ==
  ASSUME Inv, phase \in {"fill", "wait", "sent"} \/ net # {} \/ server # "none"
  PROVE  segs <= SeqMod /\ phase # "build"
BY SizeType DEF Inv, Begun, ClientInv

\* Once under way, always under way.
LEMMA BegunKeeps ==
  ASSUME segs' = segs, segs <= SeqMod, segs \in Sizes, phase' # "build"
  PROVE  Begun'
BY SizeType DEF Begun

(***************************************************************************)
(* The client's steps.                                                     *)
(***************************************************************************)
\* Building segments begins the request or refuses it.
LEMMA BuildInv == ASSUME Inv, buildConfirmedSegments PROVE Inv'
<1>1. net = {} /\ server = "none" /\ highestAcked = -1 /\ nextToSend = 0
  BY Zenon DEF Inv, Begun, buildConfirmedSegments
<1>2. segs \in Nat /\ segs > 0 /\ Bound' = Bound
  BY SizeType DEF Inv, ClientInv, buildConfirmedSegments, Bound, ActualWindow
<1>3. ClientInv'
  BY Zenon, <1>1, <1>2 DEF Inv, ClientInv, buildConfirmedSegments, Running, ActualWindow
<1>4. ServerInv'
  BY <1>1, <1>2, ServerKeeps DEF buildConfirmedSegments, Inv, ServerInv
<1>5. Begun' /\ NetInv'
  BY Zenon, <1>1, <1>2, SizeType DEF buildConfirmedSegments, Begun, NetInv, Inv, serverVars
<1> QED BY Zenon, <1>3, <1>4, <1>5 DEF Inv, buildConfirmedSegments

\* The window is filled up to Bound.
LEMMA FillToBound ==
  ASSUME Inv, phase = "fill"
  PROVE  FillEnd = Bound
<1>1. segs \in Nat /\ Bound \in 1 .. segs /\ highestAcked < Bound
  BY Zenon, BoundType, SizeType DEF Inv, ClientInv
<1> QED BY <1>1, WindowType, SegmentAssumption
        DEF Inv, ClientInv, FillEnd, Bound, Least, Running

\* Sending the window, whole or in part.
LEMMA FillInv == ASSUME Inv, FillWindow \/ FillFails PROVE Inv'
<1> USE DEF FillWindow, FillFails
<1>1. segs <= SeqMod /\ segs \in Nat /\ segs \in Sizes
  BY Zenon, UnderWay, SizeType DEF Inv, ClientInv
<1>2. FillEnd = Bound /\ Bound \in 1 .. segs /\ Bound' = Bound
  BY Zenon, FillToBound, BoundType DEF Inv, ClientInv, Bound, ActualWindow
<1>3. ClientInv'
  <2>1. nextToSend' \in highestAcked + 1 .. Bound /\ inFlight' = nextToSend' - highestAcked - 1
    BY <1>1, <1>2 DEF Inv, ClientInv
  <2> QED BY Zenon, <1>1, <1>2, <2>1 DEF Inv, ClientInv, Running, ActualWindow
<1>4. ServerInv'
  BY <1>1, ServerKeeps DEF Inv, ServerInv, ClientInv
<1>5. NetInv'
  <2> DEFINE sent == {Seg(i) : i \in nextToSend .. Bound - 1}
  <2>1. net' \subseteq net \cup sent
    BY <1>2 DEF Inv, ClientInv
  <2>2. \A m \in sent : InFlight(m)'
    <3> SUFFICES ASSUME NEW i \in nextToSend .. Bound - 1 PROVE InFlight(Seg(i))'
      BY Zenon DEF Seg
    <3>1. i \in Nat /\ i < Bound'
      BY <1>1, <1>2 DEF Inv, ClientInv
    <3> QED BY Zenon, <3>1 DEF InFlight
  <2>3. stored' \in Nat /\ stored' >= stored
    BY <1>2 DEF Inv, ServerInv, serverVars
  <2> HIDE DEF sent
  <2> QED BY <1>1, <2>1, <2>2, <2>3, NetKeeps DEF Inv, ClientInv
<1> QED BY Zenon, <1>1, <1>3, <1>4, <1>5, BegunKeeps DEF Inv

\* The client gives up.
LEMMA EndInv == ASSUME Inv, GiveUp \/ CloseSeen PROVE Inv'
<1> USE DEF GiveUp, CloseSeen
<1>1. segs <= SeqMod /\ segs \in Nat /\ segs \in Sizes
  BY Zenon, UnderWay, SizeType DEF Inv, ClientInv
<1>2. ClientInv' /\ Bound' = Bound
  BY Zenon, <1>1 DEF Inv, ClientInv, Running, Bound, ActualWindow
<1>3. ServerInv'
  BY <1>1, ServerKeeps DEF Inv, ServerInv, ClientInv
<1>4. NetInv'
  <2> DEFINE out == {ClientAbort}
  <2>1. \A m \in out : InFlight(m)'
    BY Zenon DEF InFlight, ClientAbort
  <2>2. stored' \in Nat /\ stored' >= stored
    BY <1>1, BoundType DEF Inv, ClientInv, ServerInv, serverVars
  <2>3. net' \subseteq net \cup out
    BY Zenon
  <2>4. segs' = segs /\ highestAcked' \in highestAcked .. segs - 1
    BY <1>1 DEF Inv, ClientInv
  <2> HIDE DEF out
  <2> QED BY Zenon, <2>1, <2>2, <2>3, <2>4, NetKeeps
<1> QED BY Zenon, <1>1, <1>2, <1>3, <1>4, BegunKeeps DEF Inv

\* A negative SegmentACK asks for the segment after the one it names: that
\* 255 might also mean a restart never matters, because the first window is
\* a single segment.
LEMMA ResumeValue ==
  ASSUME Inv, phase = "wait", NEW m, NEW s \in Nat, s < stored, m.seq = s
  PROVE  Resume(m) = s + 1
<1>1. segs <= SeqMod /\ segs \in Nat /\ segs > 0
  BY UnderWay, SizeType DEF Inv, ClientInv
<1>2. stored \in Nat /\ stored <= Bound /\ Bound \in 1 .. segs
  BY <1>1, BoundType DEF Inv, ClientInv, ServerInv
<1>3. CASE s + 1 < SeqMod
  <2>1. (s + 1) % SeqMod = s + 1
    BY <1>3, SizeType
  <2> QED BY <2>1 DEF Resume
<1>4. CASE s + 1 = SeqMod
  <2>1. (s + 1) % SeqMod = 0
    BY <1>4, SizeType
  <2>2. highestAcked >= 0
    <3> SUFFICES ASSUME highestAcked = -1 PROVE FALSE
      BY <1>1 DEF Inv, ClientInv
    <3>1. Bound = 1
      BY Zenon DEF Bound
    <3> QED BY <1>2, <1>4, <3>1, SizeType
  <2> QED BY Zenon, <1>4, <2>1, <2>2 DEF Resume
<1> QED BY <1>1, <1>2, <1>3, <1>4, SizeType

\* What a SegmentACK does to the client.
LEMMA AckEffect ==
  ASSUME Inv, NEW m \in net, HandleAck(m)
  PROVE  /\ segs' = segs /\ segs <= SeqMod
         /\ highestAcked' \in highestAcked .. segs - 1 /\ highestAcked' < stored
         /\ phase' \in {"fill", "wait", "sent", "failed"}
         /\ ClientInv'
         /\ Deliver(m, {}) \/ Deliver(m, {ClientAbort})
<1> USE DEF HandleAck
<1>1. segs <= SeqMod /\ segs \in Nat /\ segs > 0 /\ segs \in Sizes
  BY UnderWay, SizeType DEF Inv, ClientInv
<1>2. PICK s \in Nat : \E nak \in BOOLEAN : s < stored /\ m = Ack(s, nak)
  BY Zenon, MessageTypes DEF Inv, NetInv
<1>3. s < stored /\ m.seq = s
  BY <1>2 DEF Ack
<1>4. Resume(m) = s + 1
  BY Zenon, <1>3, ResumeValue
<1>5. /\ stored \in Nat /\ stored <= Bound /\ Bound \in 1 .. segs
      /\ nextToSend = Bound /\ highestAcked \in -1 .. segs - 1
      /\ inFlight = nextToSend - highestAcked - 1
      /\ highestAcked < stored
  BY <1>1, BoundType DEF Inv, ClientInv, ServerInv
<1>6. window' = ActualWindow /\ ActualWindow \in 1 .. MaxWindow /\ segs' = segs
  BY Zenon, WindowType
<1>7. nakRounds \in 0 .. NakLimit /\ NakLimit \in Nat
  BY RequestAssumption DEF Inv, ClientInv, Running
<1>8. CASE NakTooMany(m)
  <2>1. Bound' = Bound
    BY Zenon, <1>6, <1>8 DEF NakTooMany, Bound, ActualWindow
  <2>2. ClientInv'
    BY <1>1, <1>5, <1>6, <1>7, <1>8, <2>1 DEF NakTooMany, ClientInv, Running
  <2> QED BY <1>1, <1>5, <1>6, <1>8, <2>2 DEF NakTooMany
<1>9. ~NakUnsent(m) /\ ~AckUnsent(m)
  BY <1>3, <1>4, <1>5 DEF NakUnsent, AckUnsent
<1>10. CASE NakStale(m) \/ AckDuplicate(m)
  <2>1. highestAcked >= 0 /\ highestAcked' = highestAcked /\ phase' = "wait"
        /\ nextToSend' = nextToSend /\ inFlight' = inFlight /\ nakRounds' \in 0 .. NakLimit
    BY <1>3, <1>4, <1>5, <1>7, <1>10 DEF NakStale, AckDuplicate
  <2>2. Bound' = Bound
    BY Zenon, <1>6, <2>1 DEF Bound, ActualWindow
  <2>3. ClientInv'
    BY <1>1, <1>5, <1>6, <1>7, <2>1, <2>2 DEF ClientInv, Running, ActualWindow
  <2> QED BY <1>1, <1>5, <1>6, <1>10, <2>1, <2>3 DEF NakStale, AckDuplicate
<1>11. CASE NakResume(m) \/ AckProgress(m)
  <2>1. /\ highestAcked' = s /\ s >= highestAcked
        /\ nakRounds' \in 0 .. NakLimit
        /\ phase' = IF s + 1 < segs THEN "fill" ELSE "sent"
    BY <1>3, <1>4, <1>5, <1>7, <1>11 DEF NakResume, AckProgress, Proceed
  <2>2. \E n \in s + 1 .. Bound : nextToSend' = n /\ inFlight' = n - s - 1
    <3>1. CASE NakResume(m)
      BY <1>3, <1>4, <1>5, <3>1 DEF NakResume
    <3>2. CASE AckProgress(m)
      BY <1>3, <1>5, <3>2 DEF AckProgress
    <3> QED BY Zenon, <1>11, <3>1, <3>2
  <2>3. highestAcked' \in highestAcked .. segs - 1
    BY <1>1, <1>3, <1>5, <2>1
  <2>4. Bound' >= Bound /\ Bound' \in 1 .. segs
    BY Zenon, <1>1, <1>5, <1>6, <2>3, BoundGrows
  <2>5. ClientInv'
    BY <1>1, <1>3, <1>5, <1>6, <1>7, <2>1, <2>2, <2>3, <2>4
    DEF ClientInv, Running, ActualWindow
  <2> QED BY Zenon, <1>1, <1>3, <1>5, <1>6, <1>11, <2>1, <2>3, <2>5 DEF NakResume, AckProgress
<1> QED BY Zenon, <1>8, <1>9, <1>10, <1>11

\* A SegmentACK keeps the invariant.
LEMMA AckInv == ASSUME Inv, NEW m \in net, HandleAck(m) PROVE Inv'
<1>1. PICK out \in {{}, {ClientAbort}} : Deliver(m, out)
  BY Zenon, AckEffect
<1>2. UNCHANGED serverVars
  BY Zenon DEF HandleAck
<1>3. \A a \in out : InFlight(a)'
  BY Zenon, <1>1 DEF InFlight, ClientAbort
<1>4. net' \subseteq net \cup out /\ disturbed' \in BOOLEAN
  BY Zenon, <1>1, DeliveryKeeps DEF Inv
<1>5. stored \in Nat /\ stored' = stored /\ segs \in Sizes
  BY <1>2, BoundType, SizeType DEF Inv, ServerInv, ClientInv, serverVars
<1>6. NetInv'
  BY <1>3, <1>4, <1>5, AckEffect, NetKeeps
<1>7. ServerInv'
  BY Zenon, <1>2, AckEffect, ServerKeeps
<1>8. Begun'
  BY Zenon, <1>5, AckEffect, BegunKeeps
<1> QED BY Zenon, <1>4, <1>6, <1>7, <1>8, AckEffect DEF Inv

(***************************************************************************)
(* The server's steps.                                                     *)
(***************************************************************************)
\* A step that leaves the client alone, and whose effect on the server and
\* messages are right.
LEMMA ServerStepInv ==
  ASSUME Inv, UNCHANGED clientVars, net # {} \/ server # "none",
         ServerInv', stored' \in Nat, stored' >= stored,
         NEW out, net' \subseteq net \cup out, \A m \in out : InFlight(m)',
         disturbed' \in BOOLEAN
  PROVE  Inv'
<1>1. segs <= SeqMod /\ segs \in Sizes /\ segs \in Nat /\ phase # "build"
  BY Zenon, UnderWay, SizeType DEF Inv, ClientInv
<1>2. ClientInv' /\ segs' = segs /\ phase' = phase /\ highestAcked' = highestAcked
  BY Zenon, ClientKeeps DEF Inv
<1>3. highestAcked' \in highestAcked .. segs - 1
  BY <1>1, <1>2 DEF Inv, ClientInv
<1>4. NetInv'
  BY Zenon, <1>2, <1>3, NetKeeps
<1>5. Begun'
  BY Zenon, <1>1, <1>2, BegunKeeps
<1> QED BY Zenon, <1>2, <1>4, <1>5 DEF Inv

\* The fields of a segment in flight: sequence numbers are not reused.
LEMMA SegmentFields ==
  ASSUME Inv, NEW m \in net, m.type = "seg"
  PROVE  \E i \in Nat : /\ i < Bound /\ i < segs
                        /\ m.seq = i /\ m.payload = i /\ m.more = (i < segs - 1)
<1>1. segs <= SeqMod /\ segs \in Nat /\ Bound \in 1 .. segs
  BY Zenon, UnderWay, SizeType, BoundType DEF Inv, ClientInv
<1>2. PICK i \in Nat : i < Bound /\ m = Seg(i)
  BY Zenon, MessageTypes DEF Inv, NetInv
<1>3. i % SeqMod = i
  BY <1>1, <1>2, SizeType
<1> QED BY <1>1, <1>2, <1>3 DEF Seg

\* The reassembly a segment is added to is asm, also when it is new.
LEMMA CurrentIsAsm ==
  ASSUME NEW n \in Nat, Holds(n)
  PROVE  /\ Current = asm
         /\ asm.expected = n /\ asm.buf = Prefix(n) /\ Len(asm.buf) = n
<1>1. Len(Prefix(n)) = n
  BY DEF Prefix
<1>2. asm.expected = n /\ asm.buf = Prefix(n)
  BY DEF Holds
<1>3. CASE server = "none"
  <2>1. n = 0 /\ asm = [expected |-> 0, inWindow |-> 0, buf |-> Prefix(0)]
    BY <1>3 DEF Holds
  <2>2. Prefix(0) = <<>>
    BY DEF Prefix
  <2> QED BY Zenon, <1>1, <1>2, <1>3, <2>1, <2>2 DEF Current, NewReassembly
<1> QED BY Zenon, <1>1, <1>2, <1>3 DEF Current

\* Forgetting a reassembly.
LEMMA ForgetInv ==
  ASSUME Inv, segs' = segs, UNCHANGED <<limits, accepted, stored>>,
         highestAcked' = highestAcked, Bound' = Bound,
         server' \in {"none", "exec"}, asm' = NewReassembly
  PROVE  ServerInv'
<1>1. segs \in Nat /\ segs > 0 /\ Bound \in 1 .. segs
  BY SizeType, BoundType DEF Inv, ClientInv
<1>2. limits.segments \in Nat /\ limits.octets \in Nat /\ stored \in Nat
  BY <1>1, RequestAssumption DEF Inv, ServerInv
<1>3. Prefix(0) = <<>>
  BY DEF Prefix
<1>4. Holds(0)'
  BY <1>2, <1>3, WindowType DEF Holds, NewReassembly, ActualWindow, Prefix
<1>5. \E n \in 0 .. segs' - 1 : Holds(n)'
  BY <1>1, <1>4
<1> QED BY Zenon, <1>5 DEF Inv, ServerInv, Payloads

\* What Add answers when the reassembly holds n segments.
LEMMA OutcomeMeans ==
  ASSUME NEW n \in Nat, Holds(n), NEW m, limits \in Limits
  PROVE  /\ Outcome(m) = "OutOfOrder" <=> m.seq # n
         /\ Outcome(m) \in {"Stored", "StoredAck", "Complete"} =>
              m.seq = n /\ n + 1 <= limits.segments /\ n + 1 <= limits.octets
         /\ Outcome(m) = "Complete" => ~m.more
         /\ Outcome(m) \in {"Stored", "StoredAck"} => m.more = TRUE \/ m.more
         /\ Outcome(m) = "Stored" => asm.inWindow + 1 < ActualWindow
<1>1. Current = asm /\ asm.expected = n /\ Len(asm.buf) = n
  BY Zenon, CurrentIsAsm
<1>2. limits.segments \in Nat /\ limits.octets \in Nat
  BY Zenon, RequestAssumption
<1>3. asm.inWindow \in Nat /\ ActualWindow \in Nat
  BY WindowType, SegmentAssumption DEF Holds
<1> QED BY <1>1, <1>2, <1>3 DEF Outcome, AddOutcome

\* A step of the server that sends nothing.
LEMMA QuietStepInv ==
  ASSUME Inv, UNCHANGED clientVars, net # {} \/ server # "none",
         ServerInv', stored' \in Nat, stored' >= stored,
         net' \subseteq net, disturbed' \in BOOLEAN
  PROVE  Inv'
<1> DEFINE out == {}
<1>1. net' \subseteq net \cup out /\ \A m \in out : InFlight(m)'
  BY Zenon
<1> HIDE DEF out
<1> QED BY Zenon, <1>1, ServerStepInv

\* A step of the server that answers with a SegmentACK for a stored segment.
LEMMA AnswerStepInv ==
  ASSUME Inv, UNCHANGED clientVars, net # {},
         ServerInv', stored' \in Nat, stored' >= stored,
         NEW s \in Nat, NEW nak \in BOOLEAN, s < stored',
         net' \subseteq net \cup {Ack(s, nak)}, disturbed' \in BOOLEAN
  PROVE  Inv'
<1> DEFINE out == {Ack(s, nak)}
<1>1. ASSUME NEW m \in out PROVE InFlight(m)'
  <2>1. \E t \in Nat : \E b \in BOOLEAN : t < stored' /\ m = Ack(t, b)
    BY Zenon
  <2>2. Ack(s, nak)' = Ack(s, nak)
    BY Zenon DEF Ack
  <2> QED BY Zenon, <2>1, <2>2 DEF InFlight, Ack
<1>2. net' \subseteq net \cup out
  BY Zenon
<1> HIDE DEF out
<1> QED BY Zenon, <1>1, <1>2, ServerStepInv

\* A segment that is not wanted.
LEMMA IgnoredInv ==
  ASSUME Inv, NEW m \in net, m.type = "seg", UNCHANGED clientVars, SegmentIgnored(m)
  PROVE  Inv'
<1>1. net' \subseteq net /\ disturbed' \in BOOLEAN
  BY DeliveryKeeps DEF Inv, SegmentIgnored
<1>2. segs \in Nat /\ segs' = segs /\ highestAcked' = highestAcked /\ Bound \in 1 .. segs
  BY Zenon, ClientKeeps, BoundType, SizeType DEF Inv, ClientInv
<1>3. UNCHANGED serverVars
  BY Zenon DEF SegmentIgnored
<1>4. ServerInv'
  BY <1>2, <1>3, ServerKeeps DEF Inv, ServerInv, ClientInv
<1>5. stored' \in Nat /\ stored' >= stored
  BY <1>2, <1>3 DEF Inv, ServerInv, serverVars
<1> QED BY Zenon, <1>1, <1>4, <1>5, QuietStepInv

\* A segment out of order is refused by the number of the last one stored.
LEMMA OutOfOrderInv ==
  ASSUME Inv, NEW m \in net, m.type = "seg", UNCHANGED clientVars,
         SegmentOutOfOrder(m)
  PROVE  Inv'
<1>2. segs \in Nat /\ segs' = segs /\ highestAcked' = highestAcked /\ Bound \in 1 .. segs
  BY Zenon, ClientKeeps, BoundType, SizeType DEF Inv, ClientInv
<1>3. UNCHANGED serverVars
  BY Zenon DEF SegmentOutOfOrder
<1>4. ServerInv'
  BY <1>2, <1>3, ServerKeeps DEF Inv, ServerInv, ClientInv
<1>5. stored' \in Nat /\ stored' >= stored /\ stored' = stored
  BY <1>2, <1>3 DEF Inv, ServerInv, serverVars
<1>6. PICK n \in 0 .. segs - 1 : Holds(n)
  BY Zenon DEF Inv, ServerInv
<1>7. Current = asm /\ asm.expected = n /\ n \in Nat
  BY <1>2, <1>6, CurrentIsAsm
<1>8. m.seq # n
  BY Zenon, <1>6, <1>7, OutcomeMeans DEF SegmentOutOfOrder, Inv, ServerInv
<1>9. n > 0
  BY <1>6, <1>7, <1>8 DEF SegmentOutOfOrder, Accepts, Holds
<1>10. segs <= SeqMod
  BY Zenon, UnderWay
<1>11. Last(Current) = n - 1
  BY <1>2, <1>6, <1>7, <1>9, <1>10, SizeType DEF Last
<1>12. PICK nak \in BOOLEAN : DeliverDisturbed(m, {Ack(n - 1, nak)})
  BY <1>11, Zenon DEF SegmentOutOfOrder
<1>13. net' \subseteq net \cup {Ack(n - 1, nak)} /\ disturbed' \in BOOLEAN
  BY Zenon, <1>12, DeliveryKeeps DEF Inv
<1>14. n - 1 \in Nat /\ n - 1 < stored'
  BY <1>2, <1>5, <1>6, <1>7, <1>9 DEF Holds
<1> QED BY Zenon, <1>4, <1>5, <1>13, <1>14, AnswerStepInv

\* A server that is not reassembling holds nothing.
LEMMA Idle == ASSUME Inv, server # "asm" PROVE asm = NewReassembly
<1>1. segs \in Nat
  BY Zenon, SizeType DEF Inv, ClientInv
<1>2. PICK n \in 0 .. segs - 1 : Holds(n)
  BY Zenon DEF Inv, ServerInv
<1>3. Prefix(0) = <<>>
  BY DEF Prefix
<1> QED BY <1>1, <1>2, <1>3 DEF Holds, NewReassembly

\* A step that forgets the reassembly and sends nothing.
LEMMA DropInv ==
  ASSUME Inv, UNCHANGED <<clientVars, limits, accepted, stored>>,
         net # {} \/ server # "none",
         server' \in {"none", "exec"}, asm' = NewReassembly,
         net' \subseteq net, disturbed' \in BOOLEAN
  PROVE  Inv'
<1>1. segs' = segs /\ highestAcked' = highestAcked /\ Bound' = Bound
  BY Zenon, ClientKeeps DEF Inv
<1>2. ServerInv'
  BY Zenon, <1>1, ForgetInv
<1>3. stored' \in Nat /\ stored' >= stored
  BY BoundType, SizeType DEF Inv, ServerInv, ClientInv
<1> QED BY Zenon, <1>2, <1>3, QuietStepInv

\* The steps that only drop: a message too long, a reply sent, a reassembly
\* timer, an Abort.
LEMMA DropStepsInv ==
  ASSUME Inv
  PROVE  /\ \A m \in net : SegmentTooMany(m) /\ UNCHANGED clientVars => Inv'
         /\ Release => Inv'
         /\ Expire => Inv'
         /\ AbortFromClient => Inv'
<1>1. ASSUME NEW m \in net, SegmentTooMany(m), UNCHANGED clientVars PROVE Inv'
  <2>1. net' \subseteq net /\ disturbed' \in BOOLEAN
    BY <1>1, DeliveryKeeps DEF SegmentTooMany, Inv
  <2> QED BY Zenon, <1>1, <2>1, DropInv DEF SegmentTooMany
<1>2. ASSUME Release PROVE Inv'
  <2>1. asm' = NewReassembly
    BY Zenon, <1>2, Idle DEF Release
  <2>2. net' \subseteq net /\ disturbed' \in BOOLEAN
    BY <1>2, Zenon DEF Release, Inv
  <2> QED BY Zenon, <1>2, <2>1, <2>2, DropInv DEF Release
<1>3. ASSUME Expire PROVE Inv'
  <2>1. net' \subseteq net /\ disturbed' \in BOOLEAN
    BY <1>3, Zenon DEF Expire
  <2> QED BY Zenon, <1>3, <2>1, DropInv DEF Expire
<1>4. ASSUME AbortFromClient PROVE Inv'
  <2>1. net' \subseteq net /\ disturbed' \in BOOLEAN
    BY <1>4, DeliveryKeeps DEF AbortFromClient, Inv
  <2>2. asm' = NewReassembly /\ server' \in {"none", "exec"}
    BY Zenon, <1>4, Idle DEF AbortFromClient, Inv, ServerInv
  <2>3. net # {}
    BY Zenon, <1>4 DEF AbortFromClient
  <2> QED BY Zenon, <1>4, <2>1, <2>2, <2>3, DropInv DEF AbortFromClient
<1> QED BY Zenon, <1>1, <1>2, <1>3, <1>4

\* The next segment is stored, and perhaps acknowledged.
LEMMA StoredInv ==
  ASSUME Inv, NEW m \in net, m.type = "seg", UNCHANGED clientVars, SegmentStored(m)
  PROVE  Inv'
<1>1. segs \in Nat /\ segs \in Sizes /\ segs' = segs /\ highestAcked' = highestAcked
      /\ Bound \in 1 .. segs /\ Bound' = Bound /\ segs <= SeqMod
  BY Zenon, ClientKeeps, BoundType, SizeType, UnderWay DEF Inv, ClientInv
<1>2. PICK n \in 0 .. segs - 1 : Holds(n)
  BY Zenon DEF Inv, ServerInv
<1>3. n \in Nat /\ Current = asm /\ asm.expected = n /\ asm.buf = Prefix(n)
  BY <1>1, <1>2, CurrentIsAsm
<1>4. /\ m.seq = n /\ n + 1 <= limits.segments /\ n + 1 <= limits.octets
      /\ (Outcome(m) = "Stored" => asm.inWindow + 1 < ActualWindow)
      /\ m.more = TRUE \/ m.more
  BY Zenon, <1>2, <1>3, OutcomeMeans DEF SegmentStored, Inv, ServerInv
<1>5. n < Bound /\ n < segs - 1 /\ m.payload = n
  <2>1. PICK i \in Nat : /\ i < Bound /\ i < segs
                         /\ m.seq = i /\ m.payload = i /\ m.more = (i < segs - 1)
    BY Zenon, SegmentFields
  <2> QED BY Zenon, <1>4, <2>1
<1>6. asm' = [expected |-> n + 1, inWindow |-> asm'.inWindow, buf |-> Prefix(n + 1)]
      /\ asm'.inWindow \in 0 .. ActualWindow
  <2>1. (n + 1) % SeqMod = n + 1
    BY <1>1, <1>3, <1>5, SizeType
  <2>2. Append(asm.buf, m.payload) = Prefix(n + 1)
    BY Zenon, <1>1, <1>3, <1>5, PrefixFacts
  <2>3. asm.inWindow \in Nat /\ ActualWindow \in Nat
    BY <1>2, WindowType, SegmentAssumption DEF Holds
  <2> QED BY <1>3, <1>4, <2>1, <2>2, <2>3 DEF SegmentStored, AddStored
<1>7. stored' \in Nat /\ stored' >= stored /\ stored' >= n + 1 /\ stored' <= Bound
      /\ stored \in Nat /\ stored' \in {stored, n + 1}
  <2>1. Len(asm'.buf) = n + 1
    BY <1>1, <1>3, <1>6, PrefixFacts
  <2>2. stored \in 0 .. Bound
    BY Zenon DEF Inv, ServerInv
  <2> QED BY <1>1, <1>3, <1>5, <2>1, <2>2 DEF SegmentStored
<1>8. ServerInv'
  <2>1. ActualWindow' = ActualWindow /\ Prefix(n + 1)' = Prefix(n + 1)
    BY Zenon DEF ActualWindow, Prefix
  <2>2. Holds(n + 1)'
    BY <1>3, <1>4, <1>6, <1>7, <2>1 DEF Holds, SegmentStored
  <2>3. \E k \in 0 .. segs' - 1 : Holds(k)'
    BY <1>1, <1>3, <1>5, <2>2
  <2>4. stored' = segs' => accepted' # <<>>
    BY <1>1, <1>3, <1>5, <1>7 DEF Inv, ServerInv, SegmentStored
  <2>5. highestAcked' < stored'
    BY <1>1, <1>7 DEF Inv, ServerInv, ClientInv
  <2> QED BY <1>1, <1>7, <2>3, <2>4, <2>5 DEF Inv, ServerInv, SegmentStored, Payloads
<1>9. CASE Outcome(m) = "StoredAck"
  <2>1. Deliver(m, {Ack(n, FALSE)})
    BY Zenon, <1>4, <1>9 DEF SegmentStored
  <2>2. net' \subseteq net \cup {Ack(n, FALSE)} /\ disturbed' \in BOOLEAN
    BY Zenon, <2>1, DeliveryKeeps DEF Inv
  <2>3. n < stored'
    BY <1>3, <1>7
  <2> QED BY Zenon, <1>3, <1>7, <1>8, <2>2, <2>3, AnswerStepInv
<1>10. CASE Outcome(m) = "Stored"
  <2>1. net' \subseteq net /\ disturbed' \in BOOLEAN
    BY <1>10, DeliveryKeeps DEF SegmentStored, Inv
  <2> QED BY Zenon, <1>7, <1>8, <2>1, QuietStepInv
<1> QED BY Zenon, <1>9, <1>10 DEF SegmentStored

\* What is handed over when the last segment arrives is the message.
LEMMA CompleteEffect ==
  ASSUME Inv, NEW m \in net, m.type = "seg", SegmentComplete(m)
  PROVE  /\ m.seq = segs - 1 /\ Bound = segs
         /\ accepted' = Append(accepted, Message)
         /\ stored' = segs
<1>1. segs \in Nat /\ segs \in Sizes /\ Bound \in 1 .. segs
  BY Zenon, BoundType, SizeType DEF Inv, ClientInv
<1>2. PICK n \in 0 .. segs - 1 : Holds(n)
  BY Zenon DEF Inv, ServerInv
<1>3. n \in Nat /\ Current = asm /\ asm.expected = n /\ asm.buf = Prefix(n)
  BY <1>1, <1>2, CurrentIsAsm
<1>4. m.seq = n /\ n + 1 <= limits.segments /\ ~m.more
  BY Zenon, <1>2, <1>3, OutcomeMeans DEF SegmentComplete, Inv, ServerInv
<1>5. n = segs - 1 /\ Bound = segs /\ m.payload = n
  <2>1. PICK i \in Nat : /\ i < Bound /\ i < segs
                         /\ m.seq = i /\ m.payload = i /\ m.more = (i < segs - 1)
    BY Zenon, SegmentFields
  <2>2. ~(i < segs - 1)
    BY <1>4, <2>1, Zenon
  <2> QED BY <1>1, <1>4, <2>1, <2>2
<1>6. Append(asm.buf, m.payload) = Message /\ Len(Message) = segs
  <2>1. n + 1 = segs
    BY <1>1, <1>5
  <2>3. Append(Prefix(n), n) = Prefix(n + 1)
    BY Zenon, <1>1, <1>3, PrefixFacts
  <2>2. Prefix(segs) = Message /\ Len(Prefix(segs)) = segs
    BY Zenon, <1>1, PrefixFacts
  <2> QED BY Zenon, <1>3, <1>5, <2>1, <2>2, <2>3
<1>7. accepted' = Append(accepted, Message)
      /\ stored' = IF stored < segs THEN segs ELSE stored
  BY Zenon, <1>3, <1>6 DEF SegmentComplete, AddStored
<1>8. stored' = segs
  BY <1>1, <1>5, <1>7 DEF Inv, ServerInv
<1> QED BY Zenon, <1>4, <1>5, <1>7, <1>8

\* The last segment is acknowledged and the message handed over.
LEMMA CompleteInv ==
  ASSUME Inv, NEW m \in net, m.type = "seg", UNCHANGED clientVars, SegmentComplete(m)
  PROVE  Inv'
<1>1. segs \in Nat /\ segs > 0 /\ segs \in Sizes /\ segs' = segs
      /\ highestAcked' = highestAcked /\ highestAcked < segs /\ Bound' = Bound
  BY ClientKeeps, SizeType DEF Inv, ClientInv
<1>2. /\ m.seq = segs - 1 /\ Bound = segs
      /\ accepted' = Append(accepted, Message) /\ stored' = segs
  BY Zenon, CompleteEffect
<1>3. accepted' \in Seq(Seq(Payloads)) /\ accepted' # <<>>
  <2>1. Message \in Seq(Payloads)
    BY <1>1, PrefixFacts
  <2>2. accepted \in Seq(Seq(Payloads))
    BY Zenon DEF Inv, ServerInv
  <2> QED BY <1>2, <2>1, <2>2
<1>4. Holds(0)'
  <2>1. limits.segments \in Nat /\ limits.octets \in Nat
    BY Zenon, RequestAssumption DEF Inv, ServerInv
  <2>2. Prefix(0)' = <<>>
    BY DEF Prefix
  <2> QED BY <1>1, <1>2, <2>1, <2>2, WindowType
          DEF Holds, SegmentComplete, NewReassembly, ActualWindow
<1>5. ServerInv'
  <2>1. \E k \in 0 .. segs' - 1 : Holds(k)'
    BY <1>1, <1>4
  <2> QED BY <1>1, <1>2, <1>3, <2>1 DEF Inv, ServerInv, SegmentComplete, Payloads
<1>6. Deliver(m, {Ack(segs - 1, FALSE)})
  BY Zenon, <1>2 DEF SegmentComplete
<1>7. PICK s \in Nat : s = segs - 1
  BY <1>1
<1>8. net' \subseteq net \cup {Ack(s, FALSE)} /\ disturbed' \in BOOLEAN
  BY Zenon, <1>6, <1>7, DeliveryKeeps DEF Inv
<1>9. s < stored' /\ stored' \in Nat /\ stored' >= stored
  BY <1>1, <1>2, <1>7 DEF Inv, ServerInv
<1> QED BY Zenon, <1>5, <1>8, <1>9, AnswerStepInv

\* Losing a message disturbs nothing.
LEMMA LoseInv == ASSUME Inv, NEW m \in net, Lose(m) PROVE Inv'
<1>1. segs \in Nat /\ segs' = segs /\ highestAcked' = highestAcked /\ Bound \in 1 .. segs
  BY Zenon, ClientKeeps, BoundType, SizeType DEF Inv, ClientInv, Lose
<1>2. ServerInv'
  BY <1>1, ServerKeeps DEF Inv, ServerInv, ClientInv, Lose
<1>3. stored' \in Nat /\ stored' >= stored
  BY <1>1 DEF Inv, ServerInv, serverVars, Lose
<1>4. net' \subseteq net /\ disturbed' \in BOOLEAN
  BY Zenon DEF Lose
<1> QED BY Zenon, <1>2, <1>3, <1>4, QuietStepInv DEF Lose

\* A step that changes nothing.
LEMMA StutterInv == ASSUME Inv, UNCHANGED vars PROVE Inv'
BY ZenonT(30) DEF Inv, vars, clientVars, serverVars, ClientInv, ServerInv, NetInv, Begun,
       Bound, ActualWindow, Running, Holds, Prefix, Payloads, InFlight, Seg, Ack,
       ClientAbort

\* The invariant is inductive.
LEMMA NextInv == Inv /\ [Next]_vars => Inv'
<1> SUFFICES ASSUME Inv, [Next]_vars PROVE Inv'
  BY Zenon
<1>1. CASE ClientStep
  BY Zenon, <1>1, BuildInv, FillInv, EndInv DEF ClientStep
<1>2. CASE ServerStep
  BY Zenon, <1>2, DropStepsInv DEF ServerStep
<1>3. ASSUME NEW m \in net, HandleAck(m) PROVE Inv'
  BY Zenon, <1>3, AckInv
<1>4. ASSUME NEW m \in net, Segment(m) PROVE Inv'
  BY Zenon, <1>4, IgnoredInv, OutOfOrderInv, DropStepsInv, StoredInv, CompleteInv DEF Segment
<1>5. ASSUME NEW m \in net, Lose(m) PROVE Inv'
  BY Zenon, <1>5, LoseInv
<1>6. CASE UNCHANGED vars
  BY Zenon, <1>6, StutterInv
<1> QED BY Zenon, <1>1, <1>2, <1>3, <1>4, <1>5, <1>6 DEF Next

(***************************************************************************)
(* The theorems.                                                           *)
(***************************************************************************)
\* Spec keeps the invariant.
LEMMA Invariance == Spec => []Inv
<1>1. Init => Inv
  BY Zenon, InitInv
<1>2. Inv /\ [Next]_vars => Inv'
  BY Zenon, NextInv
<1> QED BY <1>1, <1>2, PTL DEF Spec

\* The invariant bounds the variables.
LEMMA InvTypes == Inv => TypeOK
<1> SUFFICES ASSUME Inv PROVE TypeOK
  BY Zenon
<1>1. segs \in Nat /\ segs \in Sizes /\ Bound \in 1 .. segs
  BY Zenon, BoundType, SizeType DEF Inv, ClientInv
<1>2. PICK n \in 0 .. segs - 1 : Holds(n)
  BY Zenon DEF Inv, ServerInv
<1>3. n \in 0 .. SeqMod - 1
  <2>1. CASE n = 0
    BY <2>1, SizeType
  <2>2. CASE n > 0
    BY <1>1, <1>2, <2>2, UnderWay, SizeType DEF Holds
  <2> QED BY <1>1, <2>1, <2>2
<1>4. /\ asm.expected \in 0 .. SeqMod - 1 /\ asm.inWindow \in 0 .. ActualWindow
      /\ asm.buf \in Seq(Payloads)
      /\ Len(asm.buf) <= limits.segments /\ Len(asm.buf) <= limits.octets
  <2>1. n \in Nat /\ n <= segs
    BY <1>1
  <2>2. Prefix(n) \in Seq(Payloads) /\ Len(Prefix(n)) = n
    BY Zenon, <1>1, <2>1, PrefixFacts
  <2>3. asm.expected = n /\ asm.buf = Prefix(n) /\ asm.inWindow \in 0 .. ActualWindow
        /\ n <= limits.segments /\ n <= limits.octets
    BY <1>2 DEF Holds
  <2> QED BY Zenon, <1>3, <2>2, <2>3
<1>5. ASSUME NEW m \in net
      PROVE  \/ m.type = "seg" /\ m.payload \in Payloads /\ m = Seg(m.payload)
             \/ m.type = "ack" /\ m = Ack(m.seq, m.nak)
                  /\ m.seq \in 0 .. SeqMod - 1 /\ m.nak \in BOOLEAN
             \/ m = ClientAbort
  <2>1. segs <= SeqMod
    BY Zenon, UnderWay
  <2>2. CASE \E i \in Nat : i < Bound /\ m = Seg(i)
    BY <1>1, <2>2 DEF Seg, Payloads
  <2>3. CASE \E s \in Nat : \E nak \in BOOLEAN : s < stored /\ m = Ack(s, nak)
    <3>1. stored <= SeqMod /\ stored \in Nat
      BY <1>1, <2>1, SizeType DEF Inv, ServerInv
    <3>2. PICK s \in Nat, nak \in BOOLEAN : s < stored /\ m = Ack(s, nak)
      BY Zenon, <2>3
    <3>3. s \in 0 .. SeqMod - 1
      BY <3>1, <3>2, SizeType
    <3>4. m.type = "ack" /\ m.seq = s /\ m.nak = nak
      BY Zenon, <3>2 DEF Ack
    <3> QED BY <3>2, <3>3, <3>4, Zenon
  <2> QED BY Zenon, <2>2, <2>3 DEF Inv, NetInv, InFlight
<1>6. disturbed \in BOOLEAN
  BY Zenon DEF Inv
<1>7. stored \in 0 .. segs /\ limits \in Limits /\ accepted \in Seq(Seq(Payloads))
      /\ server \in {"none", "asm", "exec"}
  BY <1>1 DEF Inv, ServerInv
<1>8. /\ phase \in {"build", "fill", "wait", "sent", "failed", "violation"}
      /\ nextToSend \in 0 .. segs /\ highestAcked \in -1 .. segs - 1
      /\ inFlight \in 0 .. segs /\ window \in 1 .. MaxWindow
      /\ nakRounds \in 0 .. NakLimit + 1
  BY <1>1 DEF Inv, ClientInv
<1> QED BY Zenon, <1>1, <1>4, <1>5, <1>6, <1>7, <1>8 DEF TypeOK

\* The variables keep their types and a reassembly its limits.
THEOREM RequestTypes == Spec => []TypeOK
BY Invariance, InvTypes, PTL

\* A segment the client takes as acknowledged was stored by the server, for
\* every window, limit and length.
THEOREM AcknowledgedIsStored == Spec => []AckedIsStored
<1>1. Inv => AckedIsStored
  BY Zenon DEF Inv, ServerInv, AckedIsStored
<1> QED BY <1>1, Invariance, PTL

\* The client never takes a SegmentACK of this server for one about a segment
\* it did not send, whatever is lost, repeated or reordered.
THEOREM NoFalseProtocolViolation == Spec => []NoFalseViolation
<1>1. Inv => NoFalseViolation
  BY Zenon DEF Inv, ClientInv, NoFalseViolation
<1> QED BY <1>1, Invariance, PTL

Handed == phase = "sent" => accepted # <<>>

\* A request the client counts as sent has been handed over.
LEMMA SentIsAccepted == Inv => Handed
<1> SUFFICES ASSUME Inv, phase = "sent" PROVE accepted # <<>>
  BY Zenon DEF Handed
<1>1. segs \in Nat /\ Bound \in 1 .. segs
  BY Zenon, BoundType, SizeType DEF Inv, ClientInv
<1>2. stored = segs
  BY <1>1 DEF Inv, ClientInv, ServerInv
<1> QED BY Zenon, <1>2 DEF Inv, ServerInv

\* How a step looks to the abstract specification.
LEMMA StepEffect ==
  ASSUME Inv, Next
  PROVE  /\ Message' = Message
         /\ \/ accepted' = accepted /\ (Ended => phase' = phase)
            \/ /\ accepted' = Append(accepted, Message) /\ phase' = phase
               /\ Len(accepted) < MaxAccepts
<1>1. segs' = segs
  BY Zenon DEF Next, ClientStep, ServerStep, buildConfirmedSegments, FillWindow, FillFails,
         GiveUp, CloseSeen, Release, Expire, AbortFromClient, HandleAck, Segment, Lose,
         clientVars
<1>2. ASSUME ClientStep PROVE accepted' = accepted /\ ~Ended
  BY Zenon, <1>2 DEF ClientStep, buildConfirmedSegments, FillWindow, FillFails, GiveUp,
              CloseSeen, Ended, serverVars
<1>3. ASSUME ServerStep PROVE accepted' = accepted /\ phase' = phase
  BY Zenon, <1>3 DEF ServerStep, Release, Expire, AbortFromClient, clientVars
<1>4. ASSUME NEW m \in net, HandleAck(m) PROVE accepted' = accepted /\ ~Ended
  BY Zenon, <1>4 DEF HandleAck, serverVars, Ended
<1>5. ASSUME NEW m \in net, Lose(m) PROVE accepted' = accepted /\ phase' = phase
  BY Zenon, <1>5 DEF Lose, serverVars, clientVars
<1>6. ASSUME NEW m \in net, Segment(m)
      PROVE  /\ phase' = phase
             /\ \/ accepted' = accepted
                \/ accepted' = Append(accepted, Message) /\ Len(accepted) < MaxAccepts
  <2>1. phase' = phase /\ m.type = "seg"
    BY Zenon, <1>6 DEF Segment, clientVars
  <2>2. CASE SegmentComplete(m)
    BY Zenon, <2>1, <2>2, CompleteEffect DEF SegmentComplete
  <2>3. CASE ~SegmentComplete(m)
    BY Zenon, <1>6, <2>1, <2>3 DEF Segment, SegmentIgnored, SegmentOutOfOrder, SegmentTooMany,
                            SegmentStored, serverVars
  <2> QED BY Zenon, <2>2, <2>3
<1>7. Message' = Message
  BY Zenon, <1>1 DEF Message
<1> QED BY Zenon, <1>2, <1>3, <1>4, <1>5, <1>6, <1>7 DEF Next

\* Every step of the transfer is a step or a stutter of the abstract one.
LEMMA StepMaps ==
  Inv /\ Handed' /\ [Next]_vars => [T!Next]_<<Message, accepted, verdict>>
<1> SUFFICES ASSUME Inv, Handed', [Next]_vars
             PROVE  T!Next \/ UNCHANGED <<Message, accepted, verdict>>
  BY Zenon
<1>1. CASE UNCHANGED vars
  BY Zenon, <1>1 DEF vars, clientVars, serverVars, Message, verdict
<1>2. CASE Next
  <2>1. CASE /\ accepted' = Append(accepted, Message) /\ phase' = phase
             /\ Len(accepted) < MaxAccepts
    BY Zenon, <1>2, <2>1, StepEffect DEF T!Next, T!Accept, verdict
  <2>2. CASE accepted' = accepted /\ (Ended => phase' = phase)
    <3>1. phase' = "sent" => accepted' # <<>>
      BY Zenon DEF Handed
    <3>2. Message' = Message
      BY Zenon, <1>2, StepEffect
    <3> QED BY Zenon, <2>2, <3>1, <3>2 DEF T!Next, T!Succeed, T!Fail, verdict, Ended
  <2> QED BY Zenon, <1>2, <2>1, <2>2, StepEffect
<1> QED BY Zenon, <1>1, <1>2

\* The segmented request implements the abstract transfer: what the server
\* executes is the whole request, and the client goes on to wait for its
\* answer only after the server had it.
THEOREM RequestImplementsTransfer == Spec => ImplementsTransfer
<1>1. Init => T!Init
  BY Zenon DEF Init, T!Init, verdict
<1>2. Inv /\ Handed' /\ [Next]_vars => [T!Next]_<<Message, accepted, verdict>>
  BY Zenon, StepMaps
<1> QED BY <1>1, <1>2, Invariance, SentIsAccepted, PTL DEF Spec, ImplementsTransfer, T!Spec

(***************************************************************************)
(* That the two sides of an undisturbed transfer keep step.  Between two   *)
(* windows nothing is in flight.  Within one, either the segments still to *)
(* come are in flight and the server has counted the others of the window, *)
(* or the SegmentACK of its last segment is.                               *)
(***************************************************************************)
Receiving(n) == Holds(n) /\ asm.inWindow = n - highestAcked - 1 /\ server # "exec"

Sending(n) == Receiving(n) /\ net = {Seg(i) : i \in n .. Bound - 1}

Owed ==
  /\ net = {Ack(Bound - 1, FALSE)}
  /\ Bound < segs => Holds(Bound) /\ asm.inWindow = 0

Lockstep ==
  ~disturbed =>
    /\ phase \in {"fill", "wait"} => highestAcked + 1 < segs
    /\ phase = "fill" => /\ net = {} /\ nextToSend = highestAcked + 1
                         /\ Receiving(nextToSend)
    /\ phase = "wait" => \/ \E n \in highestAcked + 1 .. Bound - 1 : Sending(n)
                         \/ Owed

\* The numbers of a transfer under way.
LEMMA WindowNumbers ==
  ASSUME Inv, phase \in {"fill", "wait"}, highestAcked + 1 < segs
  PROVE  /\ segs \in Nat /\ segs > 0 /\ segs <= SeqMod /\ highestAcked \in -1 .. segs - 1
         /\ Bound \in 1 .. segs /\ highestAcked + 1 < Bound
         /\ highestAcked = -1 => Bound = 1
         /\ highestAcked # -1 /\ Bound < segs => Bound = highestAcked + 1 + ActualWindow
         /\ highestAcked # -1 => Bound <= highestAcked + 1 + ActualWindow
         /\ ActualWindow \in Nat /\ ActualWindow > 0
<1>1. segs \in Nat /\ segs > 0 /\ segs <= SeqMod /\ highestAcked \in -1 .. segs - 1
  BY UnderWay, SizeType DEF Inv, ClientInv
<1>2. ActualWindow \in Nat /\ ActualWindow > 0
  BY WindowType, SegmentAssumption
<1> QED BY <1>1, <1>2 DEF Bound, Least

\* The client begins, and sends its window.
LEMMA ClientLockstep ==
  ASSUME Inv, Lockstep, ClientStep
  PROVE  Lockstep'
<1> SUFFICES ASSUME ~disturbed', phase' \in {"fill", "wait"} PROVE Lockstep'
  BY Zenon DEF Lockstep
<1>1. CASE buildConfirmedSegments
  <2>1. /\ net = {} /\ server = "none" /\ highestAcked = -1 /\ nextToSend = 0
    BY Zenon, <1>1 DEF Inv, Begun, buildConfirmedSegments
  <2>2. segs \in Nat /\ segs > 0
    BY SizeType DEF Inv, ClientInv
  <2>3. PICK n \in 0 .. segs - 1 : Holds(n)
    BY Zenon DEF Inv, ServerInv
  <2>4. n = 0
    BY <2>1, <2>3 DEF Holds
  <2>5. Holds(0) /\ asm.inWindow = 0
    BY <2>3, <2>4 DEF Holds
  <2>6. Holds(0)'
    BY Zenon, <1>1, <2>5 DEF Holds, buildConfirmedSegments, serverVars, Prefix, ActualWindow
  <2>7. UNCHANGED <<segs, nextToSend, highestAcked, server, asm, net>> /\ phase' = "fill"
    BY Zenon, <1>1 DEF buildConfirmedSegments, serverVars
  <2>8. Receiving(nextToSend)'
    BY <2>1, <2>5, <2>6, <2>7 DEF Receiving
  <2> QED BY <2>1, <2>2, <2>7, <2>8 DEF Lockstep
<1>2. CASE FillWindow
  <2>1. /\ phase = "fill" /\ phase' = "wait" /\ ~disturbed
        /\ UNCHANGED <<segs, highestAcked, serverVars>>
        /\ net' = net \cup {Seg(i) : i \in nextToSend .. FillEnd - 1}
    BY Zenon, <1>2 DEF FillWindow
  <2>2. /\ net = {} /\ nextToSend = highestAcked + 1 /\ highestAcked + 1 < segs
        /\ Receiving(nextToSend)
    BY Zenon, <2>1 DEF Lockstep
  <2>3. FillEnd = Bound /\ Bound' = Bound
    BY Zenon, <2>1, FillToBound DEF Bound, ActualWindow
  <2>4. /\ segs \in Nat /\ highestAcked \in -1 .. segs - 1 /\ Bound \in 1 .. segs
        /\ highestAcked + 1 < Bound
    BY Zenon, <2>1, <2>2, WindowNumbers
  <2>v. PICK n : n = nextToSend
    OBVIOUS
  <2>5. n \in highestAcked' + 1 .. Bound' - 1
    BY <2>1, <2>2, <2>3, <2>4, <2>v
  <2>6. Receiving(n)'
    BY Zenon, <2>1, <2>2, <2>v DEF Receiving, Holds, serverVars, Prefix, ActualWindow
  <2>7. net' = {Seg(i)' : i \in n .. Bound' - 1}
    BY Zenon, <2>1, <2>2, <2>3, <2>v DEF Seg
  <2>8. Sending(n)'
    BY Zenon, <2>6, <2>7 DEF Sending
  <2> QED BY Zenon, <2>1, <2>2, <2>5, <2>8 DEF Lockstep
<1>3. CASE FillFails \/ GiveUp \/ CloseSeen
  BY Zenon, <1>3 DEF FillFails, GiveUp, CloseSeen
<1> QED BY Zenon, <1>1, <1>2, <1>3 DEF ClientStep

\* What is in flight while the client waits.
LEMMA WaitingFor ==
  ASSUME Inv, Lockstep, ~disturbed, phase \in {"fill", "wait"}, NEW m \in net
  PROVE  /\ phase = "wait" /\ m # ClientAbort
         /\ m.type = "seg" =>
              \E n \in highestAcked + 1 .. Bound - 1 :
                Sending(n) /\ \E i \in n .. Bound - 1 : m = Seg(i)
         /\ m.type = "ack" => Owed /\ m = Ack(Bound - 1, FALSE)
<1>1. phase = "wait"
  BY Zenon DEF Lockstep
<1>2. CASE Owed
  <2>1. m = Ack(Bound - 1, FALSE)
    BY Zenon, <1>2 DEF Owed
  <2>2. m.type = "ack"
    BY <2>1 DEF Ack
  <2>3. m # ClientAbort
    BY <2>1 DEF Ack, ClientAbort
  <2>4. "ack" # "seg"
    OBVIOUS
  <2> QED BY Zenon, <1>1, <1>2, <2>1, <2>2, <2>3, <2>4
<1>3. CASE \E n \in highestAcked + 1 .. Bound - 1 : Sending(n)
  <2>1. PICK n \in highestAcked + 1 .. Bound - 1 : Sending(n)
    BY Zenon, <1>3
  <2>2. PICK i \in n .. Bound - 1 : m = Seg(i)
    BY Zenon, <2>1 DEF Sending
  <2>3. m.type = "seg"
    BY <2>2 DEF Seg
  <2>4. m # ClientAbort
    BY <2>2 DEF Seg, ClientAbort
  <2>5. "ack" # "seg"
    OBVIOUS
  <2> QED BY Zenon, <1>1, <2>1, <2>2, <2>3, <2>4, <2>5
<1> QED BY Zenon, <1>1, <1>2, <1>3 DEF Lockstep

\* The server forgets a transaction only when it does not receive.
LEMMA ServerLockstep ==
  ASSUME Inv, Lockstep, ServerStep
  PROVE  Lockstep'
<1> SUFFICES ASSUME ~disturbed', phase' \in {"fill", "wait"} PROVE Lockstep'
  BY Zenon DEF Lockstep
<1>1. CASE Release
  <2>1. /\ UNCHANGED <<segs, phase, nextToSend, highestAcked, asm, net, limits, stored, disturbed>>
        /\ server = "exec" /\ server' = "none"
    BY Zenon, <1>1 DEF Release, clientVars
  <2>2. Bound' = Bound
    BY Zenon, <2>1 DEF Bound, ActualWindow
  <2>3. ASSUME NEW n PROVE ~Sending(n) /\ ~Receiving(n)
    BY Zenon, <2>1 DEF Sending, Receiving
  <2>4. phase = "wait" /\ highestAcked + 1 < segs /\ Owed /\ ~disturbed
    BY Zenon, <2>1, <2>3 DEF Lockstep
  <2>6. "none" # "asm" /\ "exec" # "asm"
    OBVIOUS
  <2>7. Holds(Bound) => Holds(Bound)'
    BY Zenon, <2>1, <2>2, <2>6 DEF Holds, Prefix, ActualWindow
  <2>8. Owed'
    BY Zenon, <2>1, <2>2, <2>4, <2>7 DEF Owed, Ack
  <2> QED BY Zenon, <2>1, <2>4, <2>8 DEF Lockstep
<1>2. CASE Expire
  BY Zenon, <1>2 DEF Expire
<1>3. CASE AbortFromClient
  <2>1. ClientAbort \in net /\ phase' = phase
    BY Zenon, <1>3 DEF AbortFromClient, clientVars
  <2>2. Deliver(ClientAbort, {})
    BY Zenon, <1>3 DEF AbortFromClient
  <2>3. ~disturbed
    BY Zenon, <2>2 DEF Deliver
  <2> QED BY Zenon, <2>1, <2>3, WaitingFor
<1> QED BY Zenon, <1>1, <1>2, <1>3 DEF ServerStep

\* The SegmentACK of the last segment of a window begins the next one.
LEMMA AckLockstep ==
  ASSUME Inv, Lockstep, NEW m \in net, HandleAck(m)
  PROVE  Lockstep'
<1> SUFFICES ASSUME ~disturbed', phase' \in {"fill", "wait"} PROVE Lockstep'
  BY Zenon DEF Lockstep
<1>1. phase = "wait" /\ m.type = "ack" /\ UNCHANGED <<segs, serverVars>>
  BY Zenon DEF HandleAck
<1>2. ~disturbed
  <2>1. Deliver(m, {}) \/ Deliver(m, {ClientAbort})
    BY Zenon, AckEffect
  <2> QED BY Zenon, <2>1 DEF Deliver
<1>3. Owed /\ m = Ack(Bound - 1, FALSE) /\ highestAcked + 1 < segs
  BY Zenon, <1>1, <1>2, WaitingFor DEF Lockstep
<1>4. /\ segs \in Nat /\ highestAcked \in -1 .. segs - 1 /\ Bound \in 1 .. segs
      /\ highestAcked + 1 < Bound
  BY Zenon, <1>1, <1>3, WindowNumbers
<1>5. m.seq = Bound - 1 /\ m.nak = FALSE
  BY <1>3 DEF Ack
<1>6. nextToSend = Bound
  BY Zenon, <1>1 DEF Inv, ClientInv
<1>7. m.seq > highestAcked /\ m.seq < nextToSend /\ ~(m.seq <= highestAcked)
      /\ ~(m.seq >= nextToSend)
  BY <1>4, <1>5, <1>6
<1>8. AckProgress(m)
  BY Zenon, <1>5, <1>7 DEF HandleAck, AckDuplicate, AckUnsent
<1>9. highestAcked' = Bound - 1 /\ nextToSend' = Bound /\ Deliver(m, {}) /\ Proceed
  BY Zenon, <1>5, <1>6, <1>8 DEF AckProgress
<1>10. net' = {}
  BY Zenon, <1>2, <1>3, <1>9 DEF Deliver, Owed
<1>11. highestAcked' + 1 = Bound
  BY <1>4, <1>9
<1>12. phase' = "fill" /\ Bound < segs
  BY Zenon, <1>9, <1>11 DEF Proceed
<1>13. Holds(Bound) /\ asm.inWindow = 0
  BY Zenon, <1>3, <1>12 DEF Owed
<1>v. PICK n : n = Bound
  OBVIOUS
<1>14. Holds(n)' /\ asm'.inWindow = 0 /\ server' # "exec"
  <2>1. Holds(n)'
    BY Zenon, <1>1, <1>13, <1>v DEF Holds, serverVars, Prefix, ActualWindow
  <2>2. asm'.inWindow = 0
    BY Zenon, <1>1, <1>13 DEF serverVars
  <2>3. n > 0
    BY <1>4, <1>v
  <2> QED BY <2>1, <2>2, <2>3 DEF Holds
<1>15. Receiving(nextToSend)'
  BY <1>4, <1>9, <1>11, <1>14, <1>v DEF Receiving
<1> QED BY <1>1, <1>9, <1>10, <1>11, <1>12, <1>15 DEF Lockstep

\* A segment is stored in its turn; the one that ends the window is
\* acknowledged, and no other is.
LEMMA SegmentLockstep ==
  ASSUME Inv, Lockstep, NEW m \in net, Segment(m)
  PROVE  Lockstep'
<1> SUFFICES ASSUME ~disturbed', phase' \in {"fill", "wait"} PROVE Lockstep'
  BY Zenon DEF Lockstep
<1>1. m.type = "seg" /\ UNCHANGED clientVars
  BY Zenon DEF Segment
<1>2. phase' = phase /\ segs' = segs /\ highestAcked' = highestAcked /\ Bound' = Bound
  BY Zenon, <1>1, ClientKeeps DEF Inv
<1>3. ~disturbed
  BY Zenon DEF Segment, SegmentIgnored, SegmentOutOfOrder, SegmentTooMany, SegmentStored,
               SegmentComplete, Deliver, DeliverDisturbed
<1>4. phase = "wait" /\ highestAcked + 1 < segs
  BY Zenon, <1>1, <1>2, <1>3, WaitingFor DEF Lockstep
<1>5. PICK n \in highestAcked + 1 .. Bound - 1 :
        Sending(n) /\ \E i \in n .. Bound - 1 : m = Seg(i)
  BY Zenon, <1>1, <1>2, <1>3, WaitingFor
<1>6. PICK i \in n .. Bound - 1 : m = Seg(i)
  BY Zenon, <1>5
<1>7. /\ segs \in Nat /\ segs > 0 /\ segs <= SeqMod /\ highestAcked \in -1 .. segs - 1
      /\ Bound \in 1 .. segs /\ highestAcked + 1 < Bound
      /\ highestAcked = -1 => Bound = 1
      /\ highestAcked # -1 /\ Bound < segs => Bound = highestAcked + 1 + ActualWindow
      /\ highestAcked # -1 => Bound <= highestAcked + 1 + ActualWindow
      /\ ActualWindow \in Nat /\ ActualWindow > 0
  BY Zenon, <1>4, WindowNumbers
<1>8. n \in Nat /\ i \in Nat /\ n < Bound /\ i < Bound /\ n <= i
      /\ n >= highestAcked + 1 /\ i % SeqMod = i
  BY <1>7, SizeType
<1>9. m.seq = i /\ m.payload = i /\ m.more = (i < segs - 1)
  BY <1>6, <1>8 DEF Seg
<1>10. Holds(n) /\ asm.inWindow = n - highestAcked - 1 /\ server # "exec"
       /\ net = {Seg(j) : j \in n .. Bound - 1}
  BY Zenon, <1>5 DEF Sending, Receiving
<1>11. Current = asm /\ asm.expected = n /\ asm.buf = Prefix(n) /\ Len(asm.buf) = n
  BY Zenon, <1>8, <1>10, CurrentIsAsm
<1>12. ~SegmentIgnored(m)
  <2>1. SUFFICES ASSUME server = "none", m.seq # 0 PROVE FALSE
    BY Zenon, <1>10 DEF SegmentIgnored
  <2>2. n = 0
    BY <1>8, <1>10, <2>1 DEF Holds
  <2> QED BY <1>7, <1>8, <1>9, <2>1, <2>2
<1>13. ~SegmentOutOfOrder(m) /\ ~SegmentTooMany(m)
  BY Zenon DEF SegmentOutOfOrder, SegmentTooMany, DeliverDisturbed
<1>14. SegmentStored(m) \/ SegmentComplete(m)
  BY Zenon, <1>12, <1>13 DEF Segment
<1>15. /\ m.seq = n
       /\ Outcome(m) = "Complete" => ~m.more
       /\ Outcome(m) \in {"Stored", "StoredAck"} => m.more = TRUE \/ m.more
       /\ Outcome(m) = "Stored" => asm.inWindow + 1 < ActualWindow
  BY Zenon, <1>8, <1>10, <1>14, OutcomeMeans DEF SegmentStored, SegmentComplete, Inv, ServerInv
<1>16. i = n
  BY Zenon, <1>9, <1>15
<1>17. ASSUME NEW out, Deliver(m, out)
       PROVE  net' = {Seg(j) : j \in n + 1 .. Bound - 1} \cup out
  <2>1. net' = (net \ {m}) \cup out
    BY Zenon, <1>17, <1>3 DEF Deliver
  <2>2. \A j, k : Seg(j) = Seg(k) => j = k
    <3> SUFFICES ASSUME NEW j, NEW k, Seg(j) = Seg(k) PROVE j = k
      BY Zenon
    <3>1. Seg(j).payload = j /\ Seg(k).payload = k
      BY DEF Seg
    <3> QED BY Zenon, <3>1
  <2>3. \A j : j \in n .. Bound - 1 /\ j # n <=> j \in n + 1 .. Bound - 1
    BY <1>7, <1>8
  <2>4. net \ {m} = {Seg(j) : j \in n + 1 .. Bound - 1}
    BY Zenon, <1>6, <1>10, <1>16, <2>2, <2>3
  <2> QED BY Zenon, <2>1, <2>4
<1>18. \A j : Seg(j)' = Seg(j)
  BY Zenon, <1>2 DEF Seg
<1>19. CASE SegmentComplete(m)
  <2>1. ~(n < segs - 1)
    BY Zenon, <1>9, <1>15, <1>16, <1>19 DEF SegmentComplete
  <2>2. Bound = segs /\ n = segs - 1 /\ n + 1 = Bound
    BY <1>7, <1>8, <2>1
  <2>3. net' = {Seg(j) : j \in n + 1 .. Bound - 1} \cup {Ack(n, FALSE)}
    BY Zenon, <1>15, <1>17, <1>19 DEF SegmentComplete
  <2>4. n + 1 .. Bound - 1 = {} /\ n = Bound - 1
    BY <1>7, <1>8, <2>2
  <2>5. net' = {Ack(Bound - 1, FALSE)}
    BY Zenon, <2>3, <2>4
  <2>6. ~(Bound < segs)
    BY <1>7, <2>2
  <2>7. Owed'
    BY Zenon, <1>2, <2>5, <2>6 DEF Owed, Ack
  <2> QED BY Zenon, <1>2, <1>4, <2>7 DEF Lockstep
<1>20. CASE SegmentStored(m)
  <2>1. n < segs - 1
    BY Zenon, <1>9, <1>15, <1>16, <1>20 DEF SegmentStored
  <2>2. Inv'
    BY Zenon, <1>1, <1>20, StoredInv
  <2>3. asm' = AddStored(asm, Outcome(m), n) /\ server' = "asm"
    BY Zenon, <1>9, <1>11, <1>16, <1>20 DEF SegmentStored
  <2>4. asm'.expected = n + 1
    <3>1. (n + 1) % SeqMod = n + 1
      BY <1>7, <1>8, <2>1, SizeType
    <3> QED BY <1>11, <2>3, <3>1 DEF AddStored
  <2>5. PICK k \in 0 .. segs' - 1 : Holds(k)'
    BY Zenon, <2>2 DEF Inv, ServerInv
  <2>6. k = n + 1
    BY <2>4, <2>5 DEF Holds
  <2>v. PICK t \in Nat : t = n + 1
    BY <1>8
  <2>7. Holds(t)' /\ server' # "exec"
    BY Zenon, <2>3, <2>5, <2>6, <2>v
  <2>8. Outcome(m) = IF n = 0 \/ asm.inWindow + 1 >= ActualWindow THEN "StoredAck" ELSE "Stored"
    <3>1. limits.segments \in Nat /\ limits.octets \in Nat
      BY Zenon, RequestAssumption DEF Inv, ServerInv
    <3>2. Outcome(m) \in {"Stored", "StoredAck"}
      BY Zenon, <1>20 DEF SegmentStored
    <3> QED BY <1>8, <1>10, <1>11, <3>1, <3>2 DEF Outcome, AddOutcome
  <2>9. CASE n + 1 = Bound
    <3>1. Outcome(m) = "StoredAck"
      BY <1>7, <1>8, <1>10, <2>1, <2>8, <2>9
    <3>2. net' = {Seg(j) : j \in n + 1 .. Bound - 1} \cup {Ack(n, FALSE)}
      BY Zenon, <1>15, <1>17, <1>20, <3>1 DEF SegmentStored
    <3>3. n + 1 .. Bound - 1 = {} /\ n = Bound - 1
      BY <1>7, <1>8, <2>9
    <3>4. net' = {Ack(Bound - 1, FALSE)}
      BY Zenon, <3>2, <3>3
    <3>5. asm'.inWindow = 0
      BY <2>3, <3>1 DEF AddStored
    <3>6. Owed'
      BY Zenon, <1>2, <2>7, <2>9, <2>v, <3>4, <3>5 DEF Owed, Ack
    <3> QED BY Zenon, <1>2, <1>4, <3>6 DEF Lockstep
  <2>10. CASE n + 1 # Bound
    <3>1. Outcome(m) = "Stored"
      BY <1>7, <1>8, <1>10, <2>8, <2>10
    <3>2. net' = {Seg(j) : j \in n + 1 .. Bound - 1}
      <4>1. Deliver(m, {})
        BY <1>20, <3>1 DEF SegmentStored
      <4>2. net' = {Seg(j) : j \in n + 1 .. Bound - 1} \cup {}
        BY Zenon, <1>17, <4>1
      <4> QED BY Zenon, <4>2
    <3>3. asm'.inWindow = t - highestAcked' - 1
      BY <1>2, <1>7, <1>8, <1>10, <2>3, <2>v, <3>1 DEF AddStored
    <3>4. t \in highestAcked' + 1 .. Bound' - 1
      BY <1>2, <1>7, <1>8, <2>10, <2>v
    <3>5. net' = {Seg(j)' : j \in t .. Bound' - 1}
      BY Zenon, <1>2, <1>18, <2>v, <3>2
    <3>6. Sending(t)'
      BY Zenon, <2>7, <3>3, <3>5 DEF Sending, Receiving
    <3> QED BY Zenon, <1>2, <1>4, <3>4, <3>6 DEF Lockstep
  <2> QED BY Zenon, <2>9, <2>10
<1> QED BY Zenon, <1>14, <1>19, <1>20

\* The two sides of an undisturbed transfer keep step.
LEMMA LockstepInvariance == Spec => []Lockstep
<1>1. Init => Lockstep
  BY Zenon DEF Init, Lockstep
<1>2. Inv /\ Lockstep /\ [Next]_vars => Lockstep'
  <2> SUFFICES ASSUME Inv, Lockstep, [Next]_vars PROVE Lockstep'
    BY Zenon
  <2>1. CASE UNCHANGED vars
    <3>1. UNCHANGED <<segs, phase, nextToSend, highestAcked, limits, server, asm, stored,
                      net, disturbed>>
      BY Zenon, <2>1 DEF vars, clientVars, serverVars
    <3>2. Bound' = Bound
      BY Zenon, <3>1 DEF Bound, ActualWindow
    <3>3. \A n : Holds(n)' = Holds(n)
      BY Zenon, <3>1 DEF Holds, Prefix, ActualWindow
    <3>4. \A n : Receiving(n)' = Receiving(n)
      BY Zenon, <3>1, <3>3 DEF Receiving
    <3>5. \A n : Sending(n)' = Sending(n)
      BY Zenon, <3>1, <3>2, <3>4 DEF Sending, Seg
    <3>6. Owed' = Owed
      BY Zenon, <3>1, <3>2, <3>3 DEF Owed, Ack
    <3> QED BY Zenon, <3>1, <3>2, <3>4, <3>5, <3>6 DEF Lockstep
  <2>2. ASSUME NEW m \in net, Lose(m) PROVE Lockstep'
    BY Zenon, <2>2 DEF Lose, Lockstep
  <2> QED BY Zenon, <2>1, <2>2, ClientLockstep, ServerLockstep, AckLockstep, SegmentLockstep
          DEF Next
<1> QED BY <1>1, <1>2, Invariance, PTL DEF Spec

\* An undisturbed client never waits for a SegmentACK the server does not
\* owe, whatever windows the two sides propose.
THEOREM NeverStalls == Spec => []NoStall
<1>1. Inv /\ Lockstep => NoStall
  <2> SUFFICES ASSUME Inv, Lockstep, phase = "wait", ~disturbed PROVE net # {}
    BY Zenon DEF NoStall
  <2>1. CASE Owed
    BY Zenon, <2>1 DEF Owed
  <2>2. ASSUME NEW n \in highestAcked + 1 .. Bound - 1, Sending(n) PROVE net # {}
    <3>1. highestAcked \in Int /\ Bound \in Int
      <4>1. segs \in Sizes /\ highestAcked \in -1 .. segs - 1
        BY Zenon DEF Inv, ClientInv
      <4>2. Bound \in 1 .. segs /\ segs \in Nat
        BY Zenon, <4>1, BoundType, SizeType
      <4> QED BY <4>1, <4>2
    <3>2. n \in n .. Bound - 1
      BY <2>2, <3>1
    <3> QED BY Zenon, <2>2, <3>2 DEF Sending
  <2> QED BY Zenon, <2>1, <2>2 DEF Lockstep
<1> QED BY <1>1, Invariance, LockstepInvariance, PTL
=============================================================================
