------------------------------ MODULE SegReply ------------------------------
(***************************************************************************)
(* A segmented ComplexACK: responder.sendSegments of the server            *)
(* (server/responder.go), the client's segmentReceiver                     *)
(* (client/segmentation.go) and a network that may lose, repeat and        *)
(* reorder everything.  Timers may expire at any moment.  Of the client's  *)
(* transaction only its end matters here (ClientTx has the rest): after it *)
(* every segment is dropped as one of an unknown invoke ID.                *)
(***************************************************************************)
EXTENDS Segment, FiniteSets

CONSTANTS
  Sizes,            \* numbers of segments a reply may need
  LocalWindow,      \* window of the client (default 1)
  Proposed,         \* window the server proposes in every segment
  ServerSegments,   \* most segments the server sends (cfg.maxSegments)
  RequesterMax,     \* max-segments-accepted of the request, 0 if unspecified
  Limits,           \* DecodeLimits the client may have: MaxSegments and
                    \* MaxReassembledAPDU (segments have length 1)
  Retries           \* timeouts without progress the server allows

ASSUME ReplyAssumption ==
  /\ Sizes \subseteq Nat \ {0}
  /\ LocalWindow \in 1 .. MaxWindow /\ Proposed \in 1 .. MaxWindow
  /\ ServerSegments \in Nat /\ RequesterMax \in Nat
  /\ Limits \subseteq [segments : Nat, octets : Nat] /\ Retries \in Nat

VARIABLES
  count,       \* segments of this reply
  phase,       \* the server: checking, filling the window, waiting, or ended
  acked,       \* highest segment acknowledged, -1 if none
  end,         \* end of the window just sent
  window, retries,
  aborted,     \* t.aborted is closed
  limits,      \* the client's DecodeLimits
  client,      \* "open", "asm" (reassembling), or the end of the transaction
  asm,         \* the client's reassembly
  accepted,    \* messages handed to the transaction
  stored,      \* segments the reassembly has held so far (history)
  net          \* messages in flight

serverVars == <<count, phase, acked, end, window, retries, aborted>>
clientVars == <<limits, client, asm, accepted, stored>>
vars == <<serverVars, clientVars, net>>

Seg(i) == [type |-> "seg", seq |-> i % SeqMod, more |-> i < count - 1, payload |-> i]
Ack(seq, nak) == [type |-> "ack", seq |-> seq, nak |-> nak]
ServerAbort == [type |-> "abort", server |-> TRUE]
ClientAbort == [type |-> "abort", server |-> FALSE]

Message == [k \in 1 .. count |-> k - 1]

\* m is delivered and out is sent; the network may keep a copy of m.
Deliver(m, out) == net' \in {net \cup out, (net \ {m}) \cup out}

Init ==
  /\ count \in Sizes
  /\ phase = "check" /\ acked = -1 /\ end = 0 /\ window = 1 /\ retries = 0
  /\ aborted = FALSE
  /\ limits \in Limits
  /\ client = "open" /\ asm = NewReassembly /\ accepted = <<>> /\ stored = 0
  /\ net = {}

(***************************************************************************)
(* The server.                                                             *)
(***************************************************************************)
TooMany == \/ RequesterMax > 0 /\ count > RequesterMax
           \/ count > ServerSegments
           \/ count > SeqMod

\* responder.finish, for a reply that needs segments the client accepts.
finish ==
  /\ phase = "check"
  /\ IF TooMany THEN phase' = "failed" /\ net' = net \cup {ServerAbort}
                ELSE phase' = "fill" /\ UNCHANGED net
  /\ UNCHANGED <<count, acked, end, window, retries, aborted, clientVars>>

WindowEnd == Least(acked + 1 + window, count)

\* The window after the last acknowledged segment, whole, and a new timer.
SendWindow ==
  /\ phase = "fill"
  /\ net' = net \cup {Seg(i) : i \in acked + 1 .. WindowEnd - 1}
  /\ end' = WindowEnd
  /\ phase' = "wait"
  /\ UNCHANGED <<count, acked, window, retries, aborted, clientVars>>

\* A reply the transport refuses ends the transmission.
SendFails ==
  /\ phase = "fill"
  /\ \E n \in acked + 1 .. WindowEnd :
       net' = net \cup {Seg(i) : i \in acked + 1 .. n - 1}
  /\ phase' = "failed"
  /\ UNCHANGED <<count, acked, end, window, retries, aborted, clientVars>>

\* The server is closing.
ServerCloses ==
  /\ phase = "wait"
  /\ phase' = "failed"
  /\ UNCHANGED <<count, acked, end, window, retries, aborted, clientVars, net>>

\* Mutant: retries are not counted.
SegmentTimeoutForever ==
  /\ phase = "wait"
  /\ phase' = "fill"
  /\ UNCHANGED <<count, acked, end, window, retries, aborted, clientVars, net>>

\* The timer fires: the window is sent again, or the reply is given up.
SegmentTimeout ==
  /\ phase = "wait"
  /\ retries' = retries + 1
  /\ IF retries + 1 > Retries
     THEN phase' = "failed" /\ net' = net \cup {ServerAbort}
     ELSE phase' = "fill" /\ UNCHANGED net
  /\ UNCHANGED <<count, acked, end, window, aborted, clientVars>>

\* The segment an acknowledgement names, read as one at or above acked + 1.
Named(m) ==
  LET base == acked + 1
  IN base + (((m.seq - (base % SeqMod)) + SeqMod) % SeqMod)

ActualWindow == Window(LocalWindow, Proposed)

HandleAck(m) ==
  /\ phase = "wait" /\ m \in net /\ m.type = "ack"
  /\ window' = IF ValidWindow(ActualWindow) THEN ActualWindow ELSE window
  /\ \/ /\ Named(m) >= end
        /\ UNCHANGED <<phase, acked, retries>>
     \/ /\ Named(m) < end
        /\ acked' = Named(m) /\ retries' = 0
        /\ phase' = IF Named(m) < count - 1 THEN "fill" ELSE "sent"
  /\ Deliver(m, {})
  /\ UNCHANGED <<count, end, aborted, clientVars>>

\* responder.abortFromClient closes t.aborted, once there is one ...
AbortFromClient ==
  /\ ClientAbort \in net
  /\ Deliver(ClientAbort, {})
  /\ aborted' = (aborted \/ phase \in {"fill", "wait"})
  /\ UNCHANGED <<count, phase, acked, end, window, retries, clientVars>>

\* ... which the worker sees when it next waits.
AbortSeen ==
  /\ phase = "wait" /\ aborted
  /\ phase' = "failed"
  /\ UNCHANGED <<count, acked, end, window, retries, aborted, clientVars, net>>

(***************************************************************************)
(* The client.                                                             *)
(***************************************************************************)
\* The transaction is over, or its reassembly is.
TxEnds(how) == client' = how /\ asm' = NewReassembly

Outcome(m) ==
  AddOutcome(asm, m.seq, m.more, ActualWindow, limits)

\* No transaction has this invoke ID any more.
SegmentUnknown(m) ==
  /\ client \notin {"open", "asm"}
  /\ Deliver(m, {})
  /\ UNCHANGED clientVars

\* The first segment to arrive is not number 0: the request fails.
AcceptNoFirst(m) ==
  /\ client = "open" /\ m.seq # 0
  /\ TxEnds("failed")
  /\ Deliver(m, {})
  /\ UNCHANGED <<limits, accepted, stored>>

Accepts(m) == client = "asm" \/ (client = "open" /\ m.seq = 0)

\* seqDuplicate: up to half the sequence numbers behind the expected one.
seqDuplicate(got, expected) ==
  LET delta == ((expected - got) + SeqMod) % SeqMod
  IN delta # 0 /\ delta <= SeqMod \div 2

\* A duplicate is acknowledged again, a gap refused; both name the last
\* segment received in order.
AcceptOutOfOrder(m) ==
  /\ Accepts(m) /\ Outcome(m) = "OutOfOrder"
  /\ Deliver(m, {Ack(Last(asm), ~seqDuplicate(m.seq, asm.expected))})
  /\ UNCHANGED clientVars

AcceptTooMany(m) ==
  /\ Accepts(m) /\ Outcome(m) \in FullOutcomes
  /\ TxEnds("failed")
  /\ Deliver(m, {ClientAbort})
  /\ UNCHANGED <<limits, accepted, stored>>

AcceptStored(m) ==
  /\ Accepts(m) /\ Outcome(m) \in {"Stored", "StoredAck"}
  /\ client' = "asm"
  /\ asm' = AddStored(asm, Outcome(m), m.payload)
  /\ stored' = Len(asm'.buf)
  /\ Deliver(m, IF Outcome(m) = "StoredAck" THEN {Ack(Last(asm'), FALSE)} ELSE {})
  /\ UNCHANGED <<limits, accepted>>

AcceptComplete(m) ==
  /\ Accepts(m) /\ Outcome(m) = "Complete"
  /\ LET whole == AddStored(asm, "Complete", m.payload) IN
       /\ accepted' = Append(accepted, whole.buf)
       /\ stored' = Len(whole.buf)
       /\ Deliver(m, {Ack(Last(whole), FALSE)})
  /\ TxEnds("answered")
  /\ UNCHANGED limits

\* segmentReceiver.accept
accept(m) ==
  /\ m \in net /\ m.type = "seg"
  /\ \/ SegmentUnknown(m) \/ AcceptNoFirst(m) \/ AcceptOutOfOrder(m)
     \/ AcceptTooMany(m) \/ AcceptStored(m) \/ AcceptComplete(m)
  /\ UNCHANGED serverVars

\* watchTimeout: no segment for the segment timeout.
watchTimeout ==
  /\ client = "asm"
  /\ TxEnds("failed")
  /\ net' = net \cup {ClientAbort}
  /\ UNCHANGED <<serverVars, limits, accepted, stored>>

\* The caller gives up (timeout, cancellation, Close) without an Abort, or
\* the server's Abort answers the request.
TxOver ==
  /\ client \in {"open", "asm"}
  /\ TxEnds("failed")
  /\ UNCHANGED <<serverVars, limits, accepted, stored, net>>

AbortFromServer ==
  /\ ServerAbort \in net
  /\ Deliver(ServerAbort, {})
  /\ IF client \in {"open", "asm"} THEN TxEnds("failed") ELSE UNCHANGED <<client, asm>>
  /\ UNCHANGED <<serverVars, limits, accepted, stored>>

Lose(m) ==
  /\ m \in net
  /\ net' = net \ {m}
  /\ UNCHANGED <<serverVars, clientVars>>

ServerStep == finish \/ SendWindow \/ SendFails \/ ServerCloses \/ SegmentTimeout
              \/ AbortFromClient \/ AbortSeen
ClientStep == watchTimeout \/ TxOver \/ AbortFromServer

Next ==
  \/ ServerStep
  \/ ClientStep
  \/ \E m \in net : HandleAck(m) \/ accept(m) \/ Lose(m)

Spec == Init /\ [][Next]_vars

\* The worker runs, and its segment timer fires.
FairSpec == Spec /\ WF_vars(finish) /\ WF_vars(SendWindow) /\ WF_vars(SegmentTimeout)

(***************************************************************************)
(* Properties.                                                             *)
(***************************************************************************)
Payloads == 0 .. count - 1

\* Types; the reassembly never holds more than the client's limits allow,
\* and the window just sent ends above the last acknowledged segment.
TypeOK ==
  /\ count \in Sizes
  /\ phase \in {"check", "fill", "wait", "sent", "failed"}
  /\ acked \in -1 .. count - 1 /\ end \in 0 .. count
  /\ window \in 1 .. MaxWindow /\ retries \in 0 .. Retries + 1
  /\ aborted \in BOOLEAN
  /\ client \in {"open", "asm", "answered", "failed"}
  /\ asm.expected \in 0 .. SeqMod - 1 /\ asm.inWindow \in 0 .. ActualWindow
  /\ asm.buf \in Seq(Payloads)
  /\ limits \in Limits
  /\ Len(asm.buf) <= limits.segments /\ Len(asm.buf) <= limits.octets
  /\ accepted \in Seq(Seq(Payloads)) /\ stored \in 0 .. count
  /\ \A m \in net : \/ m.type = "seg" /\ m.payload \in Payloads /\ m = Seg(m.payload)
                    \/ m.type = "ack" /\ m = Ack(m.seq, m.nak)
                         /\ m.seq \in 0 .. SeqMod - 1 /\ m.nak \in BOOLEAN
                    \/ m \in {ServerAbort, ClientAbort}

\* A segment the server counts as acknowledged has been stored by the
\* client: reading sequence numbers modulo 256 never takes an old
\* acknowledgement for a new one.
AckedIsStored == acked < stored

\* The worker is given back: sending ends whatever the client acknowledges.
SendingEnds == <>(phase \in {"sent", "failed"})

verdict == IF phase \in {"sent", "failed"} THEN phase ELSE "none"
T == INSTANCE Transfer WITH message <- Message, MaxAccepts <- 1

\* The transfer implements its abstract specification: the caller gets the
\* whole reply, at most once, and the server releases the reply as delivered
\* only when it was.
ImplementsTransfer == T!Spec
=============================================================================
