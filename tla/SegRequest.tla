----------------------------- MODULE SegRequest -----------------------------
(***************************************************************************)
(* A segmented confirmed request: sendConfirmedSegments of the client      *)
(* (client/segment_send.go), the reassembly of the server's responder      *)
(* (server/responder.go) and a network that may lose, repeat and reorder   *)
(* everything.  Timers may expire at any moment: the model does not relate *)
(* the client's segment timer to the server's.  The client's SegmentACK    *)
(* channel is part of the network (a full channel drops, as a network      *)
(* does).  The server's Abort PDUs end the client's transaction, not its   *)
(* sending, and are left to ClientTx.                                      *)
(***************************************************************************)
EXTENDS Segment, FiniteSets

CONSTANTS
  Sizes,         \* numbers of segments a request may need
  LocalWindow,   \* window of the server (WithSegmentation)
  Proposed,      \* window the client proposes in every segment
  Limits,        \* segments and octets the server may be set to accept
  NakLimit,      \* negative SegmentACKs in a row before giving up: retries + 3
  MaxAccepts     \* bound on the copies of the request the server reassembles

ASSUME RequestAssumption ==
  /\ Sizes \subseteq Nat \ {0}
  /\ LocalWindow \in 1 .. MaxWindow /\ Proposed \in 1 .. MaxWindow
  /\ Limits \subseteq [segments : Nat, octets : Nat]
  /\ NakLimit \in Nat /\ MaxAccepts \in Nat

VARIABLES
  segs,        \* len(segments) of this request
  phase,       \* the client: building, filling the window, waiting, or ended
  nextToSend, highestAcked, inFlight, window, nakRounds,
  limits,      \* what this server accepts; segments have length 1
  server,      \* "none", "asm" (reassembling) or "exec": the rtx of the key
  asm,         \* its reassembly
  accepted,    \* messages handed to execute
  stored,      \* most segments a reassembly has held so far (history)
  net,         \* messages in flight
  disturbed    \* whether a message was lost or repeated, a segment overtaken
               \* by another, or a reassembly dropped (history)

clientVars == <<segs, phase, nextToSend, highestAcked, inFlight, window, nakRounds>>
serverVars == <<limits, server, asm, accepted, stored>>
vars == <<clientVars, serverVars, net, disturbed>>

Seg(i) == [type |-> "seg", seq |-> i % SeqMod, more |-> i < segs - 1, payload |-> i]
Ack(seq, nak) == [type |-> "ack", seq |-> seq, nak |-> nak]
ClientAbort == [type |-> "abort"]

Message == [k \in 1 .. segs |-> k - 1]

\* m is delivered and out is sent; the network may keep a copy of m.
DeliverDisturbed(m, out) ==
  net' \in {net \cup out, (net \ {m}) \cup out} /\ disturbed' = TRUE
Deliver(m, out) ==
  \/ net' = (net \ {m}) \cup out /\ UNCHANGED disturbed
  \/ net' = net \cup out /\ disturbed' = TRUE

Init ==
  /\ segs \in Sizes
  /\ phase = "build"
  /\ nextToSend = 0 /\ highestAcked = -1 /\ inFlight = 0
  /\ window = 1 /\ nakRounds = 0
  /\ limits \in Limits
  /\ server = "none" /\ asm = NewReassembly /\ accepted = <<>> /\ stored = 0
  /\ net = {} /\ disturbed = FALSE

(***************************************************************************)
(* The client.                                                             *)
(***************************************************************************)
\* Mutant: the limit of 256 segments is not enforced.
buildUnlimited ==
  /\ phase = "build"
  /\ phase' = "fill"
  /\ UNCHANGED <<segs, nextToSend, highestAcked, inFlight, window, nakRounds,
                 serverVars, net, disturbed>>

\* Refuses rather than reuse sequence number 0.
buildConfirmedSegments ==
  /\ phase = "build"
  /\ phase' = IF segs > SeqMod THEN "failed" ELSE "fill"
  /\ UNCHANGED <<segs, nextToSend, highestAcked, inFlight, window, nakRounds,
                 serverVars, net, disturbed>>

\* How far the inner loop gets: the end of the window or of the message.
FillEnd ==
  IF inFlight < window THEN Least(nextToSend + window - inFlight, segs)
                       ELSE nextToSend

FillWindow ==
  /\ phase = "fill"
  /\ net' = net \cup {Seg(i) : i \in nextToSend .. FillEnd - 1}
  /\ nextToSend' = FillEnd
  /\ inFlight' = inFlight + FillEnd - nextToSend
  /\ phase' = "wait"
  /\ UNCHANGED <<segs, highestAcked, window, nakRounds, serverVars, disturbed>>

\* The transport fails after some of the segments (possibly having sent the
\* one it failed on).
FillFails ==
  /\ phase = "fill"
  /\ \E n \in nextToSend .. FillEnd :
       net' = net \cup {Seg(i) : i \in nextToSend .. n - 1}
  /\ phase' = "failed"
  /\ UNCHANGED <<segs, nextToSend, highestAcked, inFlight, window, nakRounds,
                 serverVars, disturbed>>

\* The segment timer, or the end of the caller's context: an Abort is sent.
GiveUp ==
  /\ phase = "wait"
  /\ phase' = "failed"
  /\ net' = net \cup {ClientAbort}
  /\ UNCHANGED <<segs, nextToSend, highestAcked, inFlight, window, nakRounds,
                 serverVars, disturbed>>

\* Close: no Abort is sent.
CloseSeen ==
  /\ phase = "wait"
  /\ phase' = "failed"
  /\ UNCHANGED <<segs, nextToSend, highestAcked, inFlight, window, nakRounds,
                 serverVars, net, disturbed>>

\* The segment a negative SegmentACK asks for: the one after the last it names.
Resume(m) ==
  LET r == (m.seq + 1) % SeqMod
  IN IF r = 0 /\ highestAcked >= 0 THEN SeqMod ELSE r

Proceed == phase' = IF highestAcked' + 1 < segs THEN "fill" ELSE "sent"

NakTooMany(m) ==
  /\ nakRounds + 1 > NakLimit
  /\ nakRounds' = nakRounds + 1
  /\ phase' = "failed"
  /\ Deliver(m, {ClientAbort})
  /\ UNCHANGED <<nextToSend, highestAcked, inFlight>>

\* Names a segment that was never sent.
NakUnsent(m) ==
  /\ nakRounds + 1 <= NakLimit /\ Resume(m) > nextToSend
  /\ nakRounds' = nakRounds + 1
  /\ phase' = "violation"
  /\ Deliver(m, {ClientAbort})
  /\ UNCHANGED <<nextToSend, highestAcked, inFlight>>

NakStale(m) ==
  /\ nakRounds + 1 <= NakLimit /\ Resume(m) <= nextToSend
  /\ Resume(m) <= highestAcked
  /\ nakRounds' = nakRounds + 1
  /\ Deliver(m, {})
  /\ UNCHANGED <<phase, nextToSend, highestAcked, inFlight>>

\* Mutant: a negative SegmentACK rewinds behind acknowledged segments.
NakResumeAny(m) ==
  /\ nakRounds + 1 <= NakLimit /\ Resume(m) <= nextToSend
  /\ nakRounds' = nakRounds + 1
  /\ nextToSend' = Resume(m) /\ highestAcked' = Resume(m) - 1 /\ inFlight' = 0
  /\ Proceed
  /\ Deliver(m, {})

\* Mutant: negative SegmentACKs in a row are not counted.
NakResumeUncounted(m) ==
  /\ Resume(m) <= nextToSend /\ Resume(m) > highestAcked
  /\ nakRounds' = 0
  /\ nextToSend' = Resume(m) /\ highestAcked' = Resume(m) - 1 /\ inFlight' = 0
  /\ Proceed
  /\ Deliver(m, {})

NakResume(m) ==
  /\ nakRounds + 1 <= NakLimit
  /\ Resume(m) <= nextToSend /\ Resume(m) > highestAcked
  /\ nakRounds' = nakRounds + 1
  /\ nextToSend' = Resume(m) /\ highestAcked' = Resume(m) - 1 /\ inFlight' = 0
  /\ Proceed
  /\ Deliver(m, {})

AckDuplicate(m) ==
  /\ m.seq <= highestAcked
  /\ Deliver(m, {})
  /\ UNCHANGED <<phase, nextToSend, highestAcked, inFlight, nakRounds>>

AckUnsent(m) ==
  /\ m.seq > highestAcked /\ m.seq >= nextToSend
  /\ phase' = "violation"
  /\ Deliver(m, {ClientAbort})
  /\ UNCHANGED <<nextToSend, highestAcked, inFlight, nakRounds>>

AckProgress(m) ==
  /\ m.seq > highestAcked /\ m.seq < nextToSend
  /\ highestAcked' = m.seq
  /\ inFlight' = LET n == inFlight - (m.seq - highestAcked) IN IF n < 0 THEN 0 ELSE n
  /\ nakRounds' = 0
  /\ Proceed
  /\ Deliver(m, {})
  /\ UNCHANGED nextToSend

\* The actual window of the reassembly, carried by every SegmentACK.
ActualWindow == Window(LocalWindow, Proposed)

HandleAck(m) ==
  /\ phase = "wait" /\ m \in net /\ m.type = "ack"
  /\ window' = IF ValidWindow(ActualWindow) THEN ActualWindow ELSE window
  /\ \/ m.nak /\ (NakTooMany(m) \/ NakUnsent(m) \/ NakStale(m) \/ NakResume(m))
     \/ ~m.nak /\ (AckDuplicate(m) \/ AckUnsent(m) \/ AckProgress(m))
  /\ UNCHANGED <<segs, serverVars>>

(***************************************************************************)
(* The server.                                                             *)
(***************************************************************************)
\* An Abort answers a segment of a transaction that is not known; a segment
\* of one that is executing or being answered is ignored.
SegmentIgnored(m) ==
  /\ \/ server = "none" /\ m.seq # 0
     \/ server = "exec"
  /\ Deliver(m, {})
  /\ UNCHANGED serverVars

\* The reassembly the segment is added to: a new one for a first segment.
Current == IF server = "none" THEN NewReassembly ELSE asm

Outcome(m) ==
  AddOutcome(Current, m.seq, m.more, ActualWindow, limits)

Accepts(m) == server = "asm" \/ (server = "none" /\ m.seq = 0)

\* Mutant: the negative SegmentACK names the segment it refuses.
SegmentOutOfOrderNames(m) ==
  /\ Accepts(m) /\ Outcome(m) = "OutOfOrder"
  /\ Deliver(m, {Ack(m.seq, TRUE)})
  /\ UNCHANGED serverVars

\* A repeat of the last segment is acknowledged again, any other refused.
SegmentOutOfOrder(m) ==
  /\ Accepts(m) /\ Outcome(m) = "OutOfOrder"
  /\ DeliverDisturbed(m, {Ack(Last(Current), m.seq # Last(Current))})
  /\ UNCHANGED serverVars

SegmentTooMany(m) ==
  /\ Accepts(m) /\ Outcome(m) \in FullOutcomes
  /\ server' = "none" /\ asm' = NewReassembly
  /\ DeliverDisturbed(m, {})
  /\ UNCHANGED <<limits, accepted, stored>>

SegmentStored(m) ==
  /\ Accepts(m) /\ Outcome(m) \in {"Stored", "StoredAck"}
  /\ server' = "asm"
  /\ asm' = AddStored(Current, Outcome(m), m.payload)
  /\ stored' = IF stored < Len(asm'.buf) THEN Len(asm'.buf) ELSE stored
  /\ Deliver(m, IF Outcome(m) = "StoredAck" THEN {Ack(m.seq, FALSE)} ELSE {})
  /\ UNCHANGED <<limits, accepted>>

\* The request is whole: it is acknowledged and handed to execute, which
\* forgets it again when the workers' queue is full.
SegmentComplete(m) ==
  /\ Accepts(m) /\ Outcome(m) = "Complete"
  /\ Len(accepted) < MaxAccepts
  /\ LET whole == AddStored(Current, "Complete", m.payload) IN
       /\ accepted' = Append(accepted, whole.buf)
       /\ stored' = IF stored < Len(whole.buf) THEN Len(whole.buf) ELSE stored
  /\ server' \in {"exec", "none"} /\ asm' = NewReassembly
  /\ Deliver(m, {Ack(m.seq, FALSE)})
  /\ UNCHANGED limits

\* responder.segment
Segment(m) ==
  /\ m \in net /\ m.type = "seg"
  /\ \/ SegmentIgnored(m) \/ SegmentOutOfOrder(m) \/ SegmentTooMany(m)
     \/ SegmentStored(m) \/ SegmentComplete(m)
  /\ UNCHANGED clientVars

\* responder.finish: the reply was sent, the transaction is released.
Release ==
  /\ server = "exec"
  /\ server' = "none"
  /\ UNCHANGED <<clientVars, limits, asm, accepted, stored, net, disturbed>>

\* responder.expire: no segment for twice the segment timeout.
Expire ==
  /\ server = "asm"
  /\ server' = "none" /\ asm' = NewReassembly /\ disturbed' = TRUE
  /\ UNCHANGED <<clientVars, limits, accepted, stored, net>>

\* responder.abortFromClient: drops a reassembly, lets an execution finish.
AbortFromClient ==
  /\ ClientAbort \in net
  /\ Deliver(ClientAbort, {})
  /\ IF server = "asm" THEN server' = "none" /\ asm' = NewReassembly
                       ELSE UNCHANGED <<server, asm>>
  /\ UNCHANGED <<clientVars, limits, accepted, stored>>

Lose(m) ==
  /\ m \in net
  /\ net' = net \ {m} /\ disturbed' = TRUE
  /\ UNCHANGED <<clientVars, serverVars>>

Ended == phase \in {"sent", "failed", "violation"}

ClientStep == buildConfirmedSegments \/ FillWindow \/ FillFails \/ GiveUp \/ CloseSeen
ServerStep == Release \/ Expire \/ AbortFromClient

Next ==
  \/ ClientStep
  \/ ServerStep
  \/ \E m \in net : HandleAck(m) \/ Segment(m) \/ Lose(m)

Spec == Init /\ [][Next]_vars

\* The client's goroutine runs, and its segment timer fires.
FairSpec == Spec /\ WF_vars(buildConfirmedSegments) /\ WF_vars(FillWindow)
                 /\ WF_vars(GiveUp)

(***************************************************************************)
(* Properties.                                                             *)
(***************************************************************************)
Payloads == 0 .. segs - 1

\* Types; a reassembly never holds more than the limits allow.
TypeOK ==
  /\ segs \in Sizes
  /\ phase \in {"build", "fill", "wait", "sent", "failed", "violation"}
  /\ nextToSend \in 0 .. segs /\ highestAcked \in -1 .. segs - 1
  /\ inFlight \in 0 .. segs /\ window \in 1 .. MaxWindow
  /\ nakRounds \in 0 .. NakLimit + 1
  /\ server \in {"none", "asm", "exec"}
  /\ asm.expected \in 0 .. SeqMod - 1 /\ asm.inWindow \in 0 .. ActualWindow
  /\ asm.buf \in Seq(Payloads)
  /\ limits \in Limits
  /\ Len(asm.buf) <= limits.segments /\ Len(asm.buf) <= limits.octets
  /\ accepted \in Seq(Seq(Payloads)) /\ stored \in 0 .. segs
  /\ \A m \in net : \/ m.type = "seg" /\ m.payload \in Payloads /\ m = Seg(m.payload)
                    \/ m.type = "ack" /\ m = Ack(m.seq, m.nak)
                         /\ m.seq \in 0 .. SeqMod - 1 /\ m.nak \in BOOLEAN
                    \/ m = ClientAbort
  /\ disturbed \in BOOLEAN

\* A segment the client counts as acknowledged, by a positive or a negative
\* SegmentACK, has been stored by the server.
AckedIsStored == highestAcked < stored

\* However messages are lost, repeated, reordered and refused, the client
\* never takes a SegmentACK of this server for one about a segment it did
\* not send (ErrProtocolViolation).
NoFalseViolation == phase # "violation"

\* If nothing was lost or repeated and the segments arrived in order, the
\* client never waits for a SegmentACK that the server does not owe: the two
\* sides count their windows from different events and still agree on where
\* one ends.
NoStall == phase = "wait" /\ ~disturbed => net # {}

\* Sending ends, even if the server or the network answers only with
\* repeated or stale SegmentACKs.
SendingEnds == <>Ended

verdict ==
  IF phase = "sent" THEN "sent"
  ELSE IF phase \in {"failed", "violation"} THEN "failed" ELSE "none"
T == INSTANCE Transfer WITH message <- Message

\* The transfer implements its abstract specification: only the whole
\* request is executed, and the client goes on to wait for an answer only
\* after the server had it.
ImplementsTransfer == T!Spec
=============================================================================
