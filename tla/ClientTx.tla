------------------------------ MODULE ClientTx ------------------------------
(***************************************************************************)
(* The client's confirmed-request engine: the invoke-ID manager            *)
(* (client/transaction.go), the goroutine of each caller                   *)
(* (client/confirmed.go), the receive loop's half of a transaction, the    *)
(* segment watchdogs and Client.Close.  What a segment carries, and which  *)
(* SegmentACK answers it, is the subject of SegRequest and SegReply; here  *)
(* segmentation is reduced to the steps that touch the transaction.        *)
(*                                                                         *)
(* Time is discrete.  Tick lets one unit pass and is enabled only when no  *)
(* goroutine has a step it could take at once, i.e. goroutines are         *)
(* scheduled promptly compared with the APDU timeout (3 s by default);     *)
(* within one unit the interleaving is arbitrary.                          *)
(*                                                                         *)
(* The network is a window per request: anything the peer sends for        *)
(* request r, in any order, any number of times or never, reaches the      *)
(* receive loop while wire[r] > 0, i.e. less than AnswerLife units after   *)
(* the client last transmitted something for r.                            *)
(***************************************************************************)
EXTENDS Integers, FiniteSets

CONSTANTS
  Requests,     \* the confirmed requests made during the run, one caller each
  NoReq,        \* no request
  Segmented,    \* requests larger than the peer's maximum APDU
  Repeatable,   \* requests whose policy is RetransmitEnabled
  Writes,       \* requests whose service is OutcomeUnknownAfterSend
  Target,       \* the peer each request is addressed to
  Service,      \* the service choice of each request
  NumIDs,       \* number of invoke IDs (256 in the code)
  MaxTx,        \* most transactions at a time (WithTransactionOptions)
  RetryCount,   \* retransmissions of a repeatable request
  ApduTimeout,  \* APDU timeout, also the quarantine of a released invoke ID
  SegTimeout,   \* segment timeout
  MaxSegs,      \* DecodeLimits.MaxSegments of a reply
  MaxRounds,    \* SegmentACKs needed to send a segmented request
  MayClose,     \* whether the application calls Close during the run
  AnswerLife    \* how long after a transmission the peer's messages arrive

ASSUME RequestsAssumption ==
  /\ NoReq \notin Requests
  /\ Segmented \subseteq Requests
  /\ Repeatable \subseteq Requests
  /\ Writes \subseteq Requests
  /\ DOMAIN Target = Requests /\ DOMAIN Service = Requests

ASSUME BoundsAssumption ==
  /\ NumIDs \in Nat \ {0} /\ MaxTx \in 1 .. NumIDs
  /\ RetryCount \in Nat
  /\ ApduTimeout \in Nat \ {0} /\ SegTimeout \in Nat \ {0}
  /\ MaxSegs \in Nat \ {0} /\ MaxRounds \in Nat \ {0}
  /\ AnswerLife \in Nat /\ MayClose \in BOOLEAN

IDs == 0 .. NumIDs - 1
Off == -1            \* a stopped timer; a timer at 0 has fired
Owner == Requests \cup {NoReq}

VARIABLES
  pc,          \* where the caller of each request is
  id,          \* the invoke ID it was given
  outcome,     \* what its call is about to return
  tx,          \* its pendingTx
  inUse,       \* txManager.inUse: invoke ID -> request, or NoReq
  reserved,    \* txManager.reserved
  quarantine,  \* txManager.quarantine: time left before the ID may be reused
  nextID,      \* txManager.nextID
  seg,         \* segmentReceiver.active: the reassembly of each invoke ID
  sendActive,  \* segmentSender.active: the request of each invoke ID
  snd,         \* sendConfirmedSegments: SegmentACK waiting, timer, rounds left
  fin,         \* the finishTx in progress of each goroutine
  rx,          \* the segment the receive loop holds between lookup and accept
  closer,      \* Client.Close: step and transactions abortAll took
  wire,        \* time left in which messages for a request may arrive
  sends,       \* how many times each unsegmented request was transmitted
  bare         \* invoke IDs that were released without quarantine

callerVars == <<pc, id, outcome>>
mgrVars == <<inUse, reserved, quarantine, nextID>>
segVars == <<seg, sendActive, snd>>
netVars == <<wire, sends>>
vars == <<callerVars, tx, mgrVars, segVars, fin, rx, closer, netVars, bare>>

(***************************************************************************)
(* Results.  "from" is the request the peer was answering (known only to   *)
(* the model), NoReq for an outcome the client made up itself.             *)
(***************************************************************************)
LocalKinds == {"timeout", "cancelled", "closed", "sendFailed", "sendStalled",
               "tooLarge", "segTimeout", "segAbort",
               "protocol"}
ResultSet == [kind : LocalKinds \cup {"ack", "refusal"}, from : Owner,
              unknown : BOOLEAN]
NoResult == [kind |-> "none", from |-> NoReq, unknown |-> FALSE]

Plain(k) == [kind |-> k, from |-> NoReq, unknown |-> FALSE]
FromPeer(k, q) == [kind |-> k, from |-> q, unknown |-> FALSE]

\* wrapOutcomeUnknown: a request that changes the device may have executed.
wrapOutcomeUnknown(r, k) ==
  [kind |-> k, from |-> NoReq, unknown |-> r \in Writes]

\* maybeUnknown: wrapped only if a transmission was attempted.
maybeUnknown(r, k) ==
  IF tx[r].sent THEN wrapOutcomeUnknown(r, k) ELSE Plain(k)

Closed == closer.step # "open"
TransportClosed == closer.step = "done"

(***************************************************************************)
(* Goroutines that may run finishTx.                                       *)
(***************************************************************************)
Caller(r) == [role |-> "caller", of |-> r]
Watcher(r) == [role |-> "watcher", of |-> r]
RxLoop == [role |-> "rx", of |-> NoReq]
Agents == {Caller(r) : r \in Requests} \cup {Watcher(r) : r \in Requests}
          \cup {RxLoop}

NotFinishing ==
  [step |-> "none", id |-> 0, res |-> NoResult, hold |-> 0, tx |-> NoReq]

\* The state of a goroutine that is about to call finishTx(i, res, hold).
Finish(i, res, hold) ==
  [step |-> "lock", id |-> i, res |-> res, hold |-> hold, tx |-> NoReq]

NoTx == [phase |-> "initial", retries |-> 0, timer |-> Off, sent |-> FALSE,
         result |-> NoResult]
NoSender == [ack |-> FALSE, timer |-> Off, rounds |-> 0]
NoReassembly == [tx |-> NoReq, timer |-> Off, count |-> 0]
RxIdle == [kind |-> "none", id |-> 0, from |-> NoReq]
SegmentKinds == {"first", "more", "last"}

\* The timer is stopped, and the result sent unless the channel is full.
Published(t, res) ==
  [t EXCEPT !.timer = Off, !.result = IF t.result = NoResult THEN res ELSE t.result]

Init ==
  /\ pc = [r \in Requests |-> "idle"]
  /\ id = [r \in Requests |-> 0]
  /\ outcome = [r \in Requests |-> NoResult]
  /\ tx = [r \in Requests |-> NoTx]
  /\ inUse = [i \in IDs |-> NoReq]
  /\ reserved = {}
  /\ quarantine = [i \in IDs |-> 0]
  /\ nextID = 0
  /\ seg = [i \in IDs |-> NoReassembly]
  /\ sendActive = [i \in IDs |-> NoReq]
  /\ snd = [r \in Requests |-> NoSender]
  /\ fin = [a \in Agents |-> NotFinishing]
  /\ rx = RxIdle
  /\ closer = [step |-> "open", pending |-> {}]
  /\ wire = [r \in Requests |-> 0]
  /\ sends = [r \in Requests |-> 0]
  /\ bare = {}

Goto(r, l) == pc' = [pc EXCEPT ![r] = l]
Return(r, res) == /\ pc' = [pc EXCEPT ![r] = "deferred"]
                  /\ outcome' = [outcome EXCEPT ![r] = res]

(***************************************************************************)
(* The caller: allocation and registration.                                *)
(***************************************************************************)
\* Entry of confirmedRequestOpts on an open client.
Start(r) ==
  /\ pc[r] = "idle" /\ ~Closed
  /\ Goto(r, "alloc")
  /\ UNCHANGED <<id, outcome, tx, mgrVars, segVars, fin, rx, closer, netVars, bare>>

\* The early returns: a closed client, an invalid target, or a request that
\* needs segments the peer does not accept.
Refuse(r) ==
  /\ pc[r] = "idle"
  /\ Goto(r, "done")
  /\ UNCHANGED <<id, outcome, tx, mgrVars, segVars, fin, rx, closer, netVars, bare>>

HasCapacity ==
  Cardinality({i \in IDs : inUse[i] # NoReq}) + Cardinality(reserved) < MaxTx

\* now is no longer before the end of the quarantine
Free(i) == inUse[i] = NoReq /\ i \notin reserved /\ quarantine[i] = 0

\* The k-th ID the scan from nextID looks at.
Scan(k) == (nextID + k) % NumIDs

tryAllocLocked(r) ==
  /\ HasCapacity
  /\ \E k \in 0 .. NumIDs - 1 :
       /\ Free(Scan(k)) /\ \A j \in 0 .. k - 1 : ~Free(Scan(j))
       /\ reserved' = reserved \cup {Scan(k)}
       /\ id' = [id EXCEPT ![r] = Scan(k)]
       /\ nextID' = Scan(k + 1)
  /\ UNCHANGED <<inUse, quarantine>>

\* The first attempt, or one after a 5 ms wait (a wait that ends in another
\* failed attempt changes nothing).
Allocate(r) ==
  /\ pc[r] \in {"alloc", "allocWait"}
  /\ tryAllocLocked(r)
  /\ Goto(r, "reserved")
  /\ UNCHANGED <<outcome, tx, segVars, fin, rx, closer, netVars, bare>>

AllocateFails(r) ==
  /\ pc[r] = "alloc"
  /\ ~(HasCapacity /\ \E i \in IDs : Free(i))
  /\ Goto(r, "allocWait")
  /\ UNCHANGED <<id, outcome, tx, mgrVars, segVars, fin, rx, closer, netVars, bare>>

\* The context ended, or the client was closed, while waiting for an ID.
AllocateGivesUp(r) ==
  /\ pc[r] = "allocWait"
  /\ Goto(r, "done")
  /\ UNCHANGED <<id, outcome, tx, mgrVars, segVars, fin, rx, closer, netVars, bare>>

\* Mutant: the reservation is not given up.
registerKeeps(r) ==
  /\ pc[r] = "reserved"
  /\ inUse' = [inUse EXCEPT ![id[r]] = r]
  /\ Goto(r, "registered")
  /\ UNCHANGED <<id, outcome, tx, reserved, quarantine, nextID, segVars, fin, rx,
                 closer, netVars, bare>>

register(r) ==
  /\ pc[r] = "reserved"
  /\ reserved' = reserved \ {id[r]}
  /\ inUse' = [inUse EXCEPT ![id[r]] = r]
  /\ tx' = [tx EXCEPT ![r] = [phase |-> "initial",
              retries |-> IF r \in Repeatable THEN RetryCount ELSE 0,
              timer |-> ApduTimeout, sent |-> FALSE, result |-> NoResult]]
  /\ Goto(r, "registered")
  /\ UNCHANGED <<id, outcome, quarantine, nextID, segVars, fin, rx, closer,
                 netVars, bare>>

\* The caller of r is about to call finishTx with its own outcome.
EndWith(r, res, hold) ==
  /\ Goto(r, "finishing")
  /\ fin' = [fin EXCEPT ![Caller(r)] = Finish(id[r], res, hold)]

(***************************************************************************)
(* The caller: sending.                                                    *)
(***************************************************************************)
\* sent is stored before Send: a transport error does not prove that nothing
\* was delivered.
Send(r) ==
  /\ pc[r] = "registered" /\ r \notin Segmented
  /\ tx' = [tx EXCEPT ![r].sent = TRUE]
  /\ wire' = [wire EXCEPT ![r] = AnswerLife]
  /\ sends' = [sends EXCEPT ![r] = @ + 1]
  /\ \/ /\ ~TransportClosed
        /\ Goto(r, "wait") /\ UNCHANGED fin
     \/ EndWith(r, wrapOutcomeUnknown(r, "sendFailed"), 0)
  /\ UNCHANGED <<id, outcome, mgrVars, segVars, rx, closer, bare>>

\* buildConfirmedSegments fails, or the request needs too many segments.
SegmentsTooLarge(r) ==
  /\ pc[r] = "registered" /\ r \in Segmented
  /\ EndWith(r, Plain("tooLarge"), 0)
  /\ UNCHANGED <<id, outcome, tx, mgrVars, segVars, rx, closer, netVars, bare>>

\* The manager looks the transaction up by invoke ID.
enterSendingSegments(r) ==
  /\ pc[r] = "registered" /\ r \in Segmented
  /\ LET t == inUse[id[r]] IN
       IF t = NoReq
       THEN Goto(r, "lost") /\ UNCHANGED <<tx, sendActive, snd>>
       ELSE /\ tx' = [tx EXCEPT ![t] = [@ EXCEPT !.phase = "sending", !.retries = 0,
                                                !.timer = Off]]
            /\ sendActive' = [sendActive EXCEPT ![id[r]] = r]
            /\ snd' = [snd EXCEPT ![r] = [ack |-> FALSE, timer |-> Off,
                                          rounds |-> MaxRounds]]
            /\ Goto(r, "sending")
  /\ UNCHANGED <<id, outcome, mgrVars, seg, fin, rx, closer, netVars, bare>>

\* Mutant: the segment timer is not started.
SendWindowNoTimer(r) ==
  /\ pc[r] = "sending"
  /\ tx' = [tx EXCEPT ![r].sent = TRUE]
  /\ wire' = [wire EXCEPT ![r] = AnswerLife]
  /\ Goto(r, "sendWait")
  /\ UNCHANGED <<id, outcome, mgrVars, segVars, fin, rx, closer, sends, bare>>

\* The inner loop of sendConfirmedSegments fills the window.
SendWindow(r) ==
  /\ pc[r] = "sending"
  /\ tx' = [tx EXCEPT ![r].sent = TRUE]
  /\ wire' = [wire EXCEPT ![r] = AnswerLife]
  /\ \/ /\ ~TransportClosed
        /\ snd' = [snd EXCEPT ![r].timer = SegTimeout]
        /\ Goto(r, "sendWait") /\ UNCHANGED fin
     \/ /\ EndWith(r, wrapOutcomeUnknown(r, "sendFailed"), ApduTimeout)
        /\ UNCHANGED snd
  /\ UNCHANGED <<id, outcome, mgrVars, seg, sendActive, rx, closer, sends, bare>>

\* A SegmentACK that makes progress; the last one ends the sending.
AckProgress(r) ==
  /\ pc[r] = "sendWait" /\ snd[r].ack
  /\ snd' = [snd EXCEPT ![r] = [ack |-> FALSE, timer |-> Off,
                                rounds |-> @.rounds - 1]]
  /\ Goto(r, IF snd[r].rounds = 1 THEN "acked" ELSE "sending")
  /\ UNCHANGED <<id, outcome, tx, mgrVars, seg, sendActive, fin, rx, closer,
                 netVars, bare>>

\* The other exits of sendConfirmedSegments: cancellation, Close, the segment
\* timer, a SegmentACK for a segment never sent, too many negative ones.
SendGivesUp(r) ==
  /\ pc[r] = "sendWait"
  /\ \/ EndWith(r, wrapOutcomeUnknown(r, "cancelled"), ApduTimeout)
     \/ Closed /\ EndWith(r, wrapOutcomeUnknown(r, "closed"), ApduTimeout)
     \/ /\ snd[r].timer = 0
        /\ EndWith(r, wrapOutcomeUnknown(r, "sendStalled"), ApduTimeout)
     \/ snd[r].ack /\ EndWith(r, Plain("protocol"), ApduTimeout)
     \/ snd[r].ack /\ EndWith(r, wrapOutcomeUnknown(r, "timeout"), ApduTimeout)
  /\ UNCHANGED <<id, outcome, tx, mgrVars, segVars, rx, closer, netVars, bare>>

enterAwaitingResponse(r) ==
  /\ pc[r] = "acked"
  /\ sendActive' = [sendActive EXCEPT ![id[r]] = NoReq]
  /\ LET t == inUse[id[r]] IN
       IF t = NoReq
       THEN Goto(r, "lost") /\ UNCHANGED tx
       ELSE /\ tx' = [tx EXCEPT ![t] = [@ EXCEPT !.phase = "initial",
                                                !.timer = ApduTimeout]]
            /\ Goto(r, "wait")
  /\ UNCHANGED <<id, outcome, mgrVars, seg, snd, fin, rx, closer, netVars, bare>>

(***************************************************************************)
(* The caller: waiting for the answer.                                     *)
(***************************************************************************)
Cancel(r) ==
  /\ pc[r] = "wait"
  /\ EndWith(r, maybeUnknown(r, "cancelled"), ApduTimeout)
  /\ UNCHANGED <<id, outcome, tx, mgrVars, segVars, rx, closer, netVars, bare>>

CloseSeen(r) ==
  /\ pc[r] = "wait" /\ Closed
  /\ EndWith(r, maybeUnknown(r, "closed"), 0)
  /\ UNCHANGED <<id, outcome, tx, mgrVars, segVars, rx, closer, netVars, bare>>

\* The caller receives the APDU timer's tick ...
TimerFires(r) ==
  /\ pc[r] = "wait" /\ tx[r].timer = 0
  /\ tx' = [tx EXCEPT ![r].timer = Off]
  /\ Goto(r, "expired")
  /\ UNCHANGED <<id, outcome, mgrVars, segVars, fin, rx, closer, netVars, bare>>

\* Mutant: retransmits whatever the policy and the retries left.
onTimeoutAlways(r) ==
  /\ pc[r] = "expired"
  /\ Goto(r, "resend")
  /\ UNCHANGED <<id, outcome, tx, mgrVars, segVars, fin, rx, closer, netVars, bare>>

\* ... and asks the manager what it means.
onTimeout(r) ==
  /\ pc[r] = "expired"
  /\ LET t == inUse[id[r]] IN
       \/ t = NoReq /\ Goto(r, "lost") /\ UNCHANGED <<tx, fin>>
       \/ /\ t # NoReq /\ tx[t].phase \in {"receiving", "sending"}
          /\ Goto(r, "wait") /\ UNCHANGED <<tx, fin>>
       \/ /\ t # NoReq /\ tx[t].phase = "initial"
          /\ r \in Repeatable /\ tx[t].retries > 0
          /\ tx' = [tx EXCEPT ![t].retries = @ - 1]
          /\ Goto(r, "resend") /\ UNCHANGED fin
       \/ /\ t # NoReq /\ tx[t].phase = "initial"
          /\ ~(r \in Repeatable /\ tx[t].retries > 0)
          /\ EndWith(r, maybeUnknown(r, "timeout"), ApduTimeout)
          /\ UNCHANGED tx
  /\ UNCHANGED <<id, outcome, mgrVars, segVars, rx, closer, netVars, bare>>

\* Retransmission; a send error is only reported.
Retransmit(r) ==
  /\ pc[r] = "resend"
  /\ wire' = [wire EXCEPT ![r] = AnswerLife]
  /\ sends' = [sends EXCEPT ![r] = @ + 1]
  /\ tx' = [tx EXCEPT ![r].timer = ApduTimeout]
  /\ Goto(r, "wait")
  /\ UNCHANGED <<id, outcome, mgrVars, segVars, fin, rx, closer, bare>>

\* The result channel, in the select loop or as the loser of finishTx.
TakeResult(r) ==
  /\ pc[r] \in {"wait", "lost"}
  /\ tx[r].result # NoResult
  /\ tx' = [tx EXCEPT ![r].result = NoResult]
  /\ Return(r, tx[r].result)
  /\ UNCHANGED <<id, mgrVars, segVars, fin, rx, closer, netVars, bare>>

\* The deferred cleanup, by invoke ID, and the return: the pendingTx and its
\* channel are garbage from here on.
Deferred(r) ==
  /\ pc[r] = "deferred"
  /\ tx' = [tx EXCEPT ![r] = NoTx]
  /\ outcome' = [outcome EXCEPT ![r] = NoResult]
  /\ snd' = [snd EXCEPT ![r] = [@ EXCEPT !.ack = FALSE, !.timer = Off]]
  /\ sends' = [sends EXCEPT ![r] = 0]
  /\ seg' = [seg EXCEPT ![id[r]] = NoReassembly]
  /\ sendActive' = [sendActive EXCEPT ![id[r]] = NoReq]
  /\ Goto(r, "done")
  /\ UNCHANGED <<id, mgrVars, fin, rx, closer, wire, bare>>

(***************************************************************************)
(* finishTx: complete removes the transaction under the manager's lock,    *)
(* then publishes its result, and the segmentation state of the invoke ID  *)
(* is cleared whether this goroutine won or not.                           *)
(***************************************************************************)
\* Mutant: the transaction stays in use.
completeKeeps(a) ==
  /\ fin[a].step = "lock"
  /\ fin' = [fin EXCEPT ![a] = [@ EXCEPT !.step = "publish",
                                            !.tx = inUse[fin[a].id]]]
  /\ UNCHANGED <<callerVars, tx, mgrVars, segVars, rx, closer, netVars, bare>>

\* Mutant: no quarantine.
completeNoQuarantine(a) ==
  /\ fin[a].step = "lock"
  /\ fin' = [fin EXCEPT ![a] = [@ EXCEPT !.step = "publish",
                                            !.tx = inUse[fin[a].id]]]
  /\ inUse' = [inUse EXCEPT ![fin[a].id] = NoReq]
  /\ UNCHANGED <<callerVars, tx, reserved, quarantine, nextID, segVars, rx,
                 closer, netVars, bare>>

complete(a) ==
  LET i == fin[a].id
      t == inUse[i]
  IN /\ fin[a].step = "lock"
     /\ fin' = [fin EXCEPT ![a] = [@ EXCEPT !.step = "publish", !.tx = t]]
     /\ inUse' = [inUse EXCEPT ![i] = NoReq]
     /\ quarantine' = IF t # NoReq /\ fin[a].hold > 0
                      THEN [quarantine EXCEPT ![i] = fin[a].hold]
                      ELSE quarantine
     /\ bare' = IF t # NoReq /\ fin[a].hold = 0
                THEN bare \cup {i} ELSE bare
     /\ UNCHANGED <<callerVars, tx, reserved, nextID, segVars, rx, closer, netVars>>

Publish(a) ==
  LET i == fin[a].id
      t == fin[a].tx
  IN /\ fin[a].step = "publish"
     /\ tx' = IF t = NoReq THEN tx
              ELSE [tx EXCEPT ![t] = Published(@, fin[a].res)]
     /\ seg' = [seg EXCEPT ![i] = NoReassembly]
     /\ sendActive' = [sendActive EXCEPT ![i] = NoReq]
     /\ fin' = [fin EXCEPT ![a] = NotFinishing]
     /\ UNCHANGED <<id, mgrVars, snd, rx, closer, netVars, bare>>

\* A caller that won returns its own outcome; one that lost waits for the
\* winner's.
CallerPublishes(r) ==
  /\ Publish(Caller(r))
  /\ IF fin[Caller(r)].tx = NoReq
     THEN Goto(r, "lost") /\ UNCHANGED outcome
     ELSE Return(r, fin[Caller(r)].res)

OtherPublishes(a) ==
  /\ a.role # "caller"
  /\ Publish(a)
  /\ UNCHANGED <<pc, outcome>>

(***************************************************************************)
(* The receive loop.                                                       *)
(***************************************************************************)
RxFree == rx = RxIdle /\ fin[RxLoop] = NotFinishing /\ ~TransportClosed

RxFinish(i, res) ==
  fin' = [fin EXCEPT ![RxLoop] = Finish(i, res, ApduTimeout)]

\* A message for q (from q's peer, with q's invoke ID and service) passes
\* lookup and matchSource; t is the transaction it is matched with.
Matches(q, t) == t # NoReq /\ Target[t] = Target[q]

\* The peer has all of q: it acknowledges a segmented request only then.
Received(q) == q \in Segmented => snd[q].rounds <= 1 /\ pc[q] # "sending"

\* handleConfirmedResponse with an unsegmented answer.  An acknowledgement of
\* another service is dropped; an Error, Reject or Abort is not.
RxAnswer(q) ==
  LET t == inUse[id[q]] IN
  /\ RxFree /\ wire[q] > 0 /\ Matches(q, t)
  /\ \/ /\ Received(q) /\ Service[t] = Service[q]
        /\ RxFinish(id[q], FromPeer("ack", q))
     \/ RxFinish(id[q], FromPeer("refusal", q))
  /\ UNCHANGED <<callerVars, tx, mgrVars, segVars, rx, closer, netVars, bare>>

\* segmentReceiver.accept up to the lookup, for a segment of a ComplexACK.
RxSegment(q) ==
  LET t == inUse[id[q]] IN
  /\ RxFree /\ wire[q] > 0 /\ Matches(q, t) /\ Received(q)
  /\ IF Service[t] = Service[q]
     THEN /\ \E k \in SegmentKinds :
               rx' = [kind |-> k, id |-> id[q], from |-> q]
          /\ UNCHANGED fin
     ELSE RxFinish(id[q], Plain("protocol")) /\ UNCHANGED rx
  /\ UNCHANGED <<callerVars, tx, mgrVars, segVars, closer, netVars, bare>>

\* A SegmentACK the client sends keeps the peer's side of rx.from alive.
Heard == wire' = [wire EXCEPT ![rx.from] = AnswerLife]

\* First segment and no reassembly: enterSegmented, by invoke ID.
AcceptFirst ==
  LET t == inUse[rx.id] IN
  /\ rx.kind = "first" /\ seg[rx.id] = NoReassembly
  /\ IF t = NoReq
     THEN UNCHANGED <<tx, seg, wire>>
     ELSE /\ tx' = [tx EXCEPT ![t] = [@ EXCEPT !.phase = "receiving",
                                              !.retries = 0, !.timer = Off]]
          /\ seg' = [seg EXCEPT ![rx.id] =
                       [tx |-> t, timer |-> SegTimeout, count |-> 1]]
          /\ Heard
  /\ rx' = RxIdle
  /\ UNCHANGED <<callerVars, mgrVars, sendActive, snd, fin, closer, sends, bare>>

\* A later segment and no reassembly is a protocol violation.
AcceptNoFirst ==
  /\ rx.kind \in {"more", "last"} /\ seg[rx.id] = NoReassembly
  /\ RxFinish(rx.id, Plain("protocol"))
  /\ rx' = RxIdle
  /\ UNCHANGED <<callerVars, tx, mgrVars, segVars, closer, netVars, bare>>

\* Not the expected sequence number: acknowledged (negatively or again),
\* nothing stored, the segment timer keeps running.
AcceptOutOfOrder ==
  /\ rx # RxIdle /\ seg[rx.id] # NoReassembly
  /\ Heard
  /\ rx' = RxIdle
  /\ UNCHANGED <<callerVars, tx, mgrVars, segVars, fin, closer, sends, bare>>

\* The expected segment does not fit the segment or the octet limit.
AcceptOverLimit ==
  /\ rx.kind \in {"more", "last"} /\ seg[rx.id] # NoReassembly
  /\ seg' = [seg EXCEPT ![rx.id] = NoReassembly]
  /\ RxFinish(rx.id, Plain("segAbort"))
  /\ rx' = RxIdle
  /\ UNCHANGED <<callerVars, tx, mgrVars, sendActive, snd, closer, netVars, bare>>

AcceptMore ==
  /\ rx.kind = "more" /\ seg[rx.id] # NoReassembly
  /\ seg[rx.id].count < MaxSegs
  /\ seg' = [seg EXCEPT ![rx.id] = [@ EXCEPT !.timer = SegTimeout,
                                       !.count = seg[rx.id].count + 1]]
  /\ Heard
  /\ rx' = RxIdle
  /\ UNCHANGED <<callerVars, tx, mgrVars, sendActive, snd, fin, closer, sends, bare>>

\* The last segment: the reassembled answer goes on as an unsegmented one
\* (the second lookup finds the transaction, or drops the answer).
AcceptLast ==
  LET t == inUse[rx.id] IN
  /\ rx.kind = "last" /\ seg[rx.id] # NoReassembly
  /\ seg[rx.id].count < MaxSegs
  /\ seg' = [seg EXCEPT ![rx.id] = NoReassembly]
  /\ Heard
  /\ IF Matches(rx.from, t) /\ Service[t] = Service[rx.from]
     THEN RxFinish(rx.id, FromPeer("ack", rx.from))
     ELSE UNCHANGED fin
  /\ rx' = RxIdle
  /\ UNCHANGED <<callerVars, tx, mgrVars, sendActive, snd, closer, sends, bare>>

\* segmentSender.deliver: a SegmentACK for a segmented request.
RxSegmentACK(q) ==
  LET t == sendActive[id[q]] IN
  /\ RxFree /\ wire[q] > 0 /\ Matches(q, t)
  /\ snd' = [snd EXCEPT ![t].ack = TRUE]
  /\ UNCHANGED <<callerVars, tx, mgrVars, seg, sendActive, fin, rx, closer,
                 netVars, bare>>

\* The watchdog of a reassembly: no further segment in time.
watchTimeout(i) ==
  LET t == seg[i].tx IN
  /\ seg[i] # NoReassembly /\ seg[i].timer = 0
  /\ fin[Watcher(t)] = NotFinishing
  /\ seg' = [seg EXCEPT ![i] = NoReassembly]
  /\ fin' = [fin EXCEPT ![Watcher(t)] = Finish(i, Plain("segTimeout"), ApduTimeout)]
  /\ UNCHANGED <<callerVars, tx, mgrVars, sendActive, snd, rx, closer, netVars, bare>>

(***************************************************************************)
(* Client.Close.                                                           *)
(***************************************************************************)
Close ==
  /\ MayClose /\ closer.step = "open"
  /\ closer' = [closer EXCEPT !.step = "closed"]
  /\ UNCHANGED <<callerVars, tx, mgrVars, segVars, fin, rx, netVars, bare>>

\* Mutant: the map is cleared before the transactions are collected.
abortAllTooLate ==
  /\ closer.step = "closed"
  /\ closer' = [step |-> "publishing", pending |-> {}]
  /\ inUse' = [i \in IDs |-> NoReq]
  /\ UNCHANGED <<callerVars, tx, reserved, quarantine, nextID, segVars, fin, rx,
                 netVars, bare>>

\* abortAll takes every transaction in use ...
abortAll ==
  /\ closer.step = "closed"
  /\ closer' = [step |-> "publishing", pending |-> {inUse[i] : i \in IDs} \ {NoReq}]
  /\ bare' = bare \cup {i \in IDs : inUse[i] # NoReq}
  /\ inUse' = [i \in IDs |-> NoReq]
  /\ UNCHANGED <<callerVars, tx, reserved, quarantine, nextID, segVars, fin, rx,
                 netVars>>

\* ... and publishes ErrClosed to each, after reading whether it was sent.
AbortPublish(r) ==
  /\ closer.step = "publishing" /\ r \in closer.pending
  /\ tx' = [tx EXCEPT ![r] = Published(@, maybeUnknown(r, "closed"))]
  /\ closer' = [closer EXCEPT !.pending = @ \ {r}]
  /\ UNCHANGED <<callerVars, mgrVars, segVars, fin, rx, netVars, bare>>

\* seg.abortAll, then the transport is closed and the receive loop ends.
CloseTransport ==
  /\ closer.step = "publishing" /\ closer.pending = {}
  /\ closer' = [closer EXCEPT !.step = "done"]
  /\ seg' = [i \in IDs |-> NoReassembly]
  /\ sendActive' = [i \in IDs |-> NoReq]
  /\ UNCHANGED <<callerVars, tx, mgrVars, snd, fin, rx, netVars, bare>>

(***************************************************************************)
(* Time.                                                                   *)
(***************************************************************************)
CallerQuiet(r) ==
  \/ pc[r] \in {"idle", "done"}
  \/ pc[r] = "allocWait" /\ ~Closed
  \/ pc[r] = "wait" /\ ~Closed /\ tx[r].timer # 0 /\ tx[r].result = NoResult
  \/ pc[r] = "sendWait" /\ ~Closed /\ snd[r].timer # 0 /\ ~snd[r].ack
  \/ pc[r] = "lost" /\ tx[r].result = NoResult

Quiet ==
  /\ \A r \in Requests : CallerQuiet(r)
  /\ \A a \in Agents : fin[a] = NotFinishing
  /\ rx = RxIdle
  /\ closer.step \in {"open", "done"}
  /\ \A i \in IDs : seg[i].timer # 0

Less(n) == IF n > 0 THEN n - 1 ELSE n

Tick ==
  /\ Quiet
  /\ tx' = [r \in Requests |-> [tx[r] EXCEPT !.timer = Less(@)]]
  /\ snd' = [r \in Requests |-> [snd[r] EXCEPT !.timer = Less(@)]]
  /\ seg' = [i \in IDs |-> [seg[i] EXCEPT !.timer = Less(@)]]
  /\ quarantine' = [i \in IDs |-> Less(quarantine[i])]
  /\ wire' = [r \in Requests |-> Less(wire[r])]
  /\ UNCHANGED <<callerVars, inUse, reserved, nextID, sendActive, fin, rx,
                 closer, sends, bare>>

\* Every call has returned, and Close too if it is called.
Terminated ==
  /\ MayClose => TransportClosed
  /\ \A r \in Requests : pc[r] = "done"
  /\ UNCHANGED vars

CallerStep(r) ==
  \/ Allocate(r) \/ AllocateFails(r)
  \/ register(r)
  \/ Send(r) \/ SegmentsTooLarge(r) \/ enterSendingSegments(r)
  \/ SendWindow(r) \/ AckProgress(r) \/ enterAwaitingResponse(r)
  \/ CloseSeen(r) \/ TimerFires(r) \/ onTimeout(r) \/ Retransmit(r)
  \/ TakeResult(r) \/ Deferred(r) \/ CallerPublishes(r)

RxStep ==
  \/ AcceptFirst \/ AcceptNoFirst \/ AcceptOutOfOrder \/ AcceptOverLimit
  \/ AcceptMore \/ AcceptLast

PeerStep(q) == RxAnswer(q) \/ RxSegment(q) \/ RxSegmentACK(q)

CloseStep == abortAll \/ (\E r \in Requests : AbortPublish(r)) \/ CloseTransport

\* The goroutines beside the callers and the receive loop's next message.
InternalStep ==
  \/ \E a \in Agents : complete(a) \/ OtherPublishes(a)
  \/ \E i \in IDs : watchTimeout(i)
  \/ CloseStep

Next ==
  \/ \E r \in Requests :
       \/ Start(r) \/ Refuse(r) \/ AllocateGivesUp(r)
       \/ SendGivesUp(r) \/ Cancel(r)
       \/ CallerStep(r) \/ PeerStep(r)
  \/ RxStep
  \/ InternalStep
  \/ Close
  \/ Tick
  \/ Terminated

(***************************************************************************)
(* Fairness: a goroutine that can run eventually does, a wait that has     *)
(* something ready ends, and time passes.  Nothing is assumed of the peer, *)
(* of the caller's context or of Close being called.  Tick is strongly     *)
(* fair because a peer cannot send infinitely many messages in no time.    *)
(***************************************************************************)
Progress(r) ==
  \/ CallerStep(r)
  \/ SendGivesUp(r) /\ (Closed \/ snd[r].timer = 0)
  \/ AllocateGivesUp(r) /\ Closed

Fairness ==
  /\ \A r \in Requests : WF_vars(Progress(r))
  /\ WF_vars(RxStep) /\ WF_vars(InternalStep)
  /\ SF_vars(Tick)

Spec == Init /\ [][Next]_vars
FairSpec == Spec /\ Fairness

(***************************************************************************)
(* Properties.                                                             *)
(***************************************************************************)
PCs == {"idle", "alloc", "allocWait", "reserved", "registered", "sending",
        "sendWait", "acked", "wait", "expired", "resend", "finishing", "lost",
        "deferred", "done"}
Timer(d) == Off .. d
TxSet == [phase : {"initial", "receiving", "sending"}, retries : 0 .. RetryCount,
          timer : Timer(ApduTimeout), sent : BOOLEAN,
          result : ResultSet \cup {NoResult}]
FinSet == [step : {"none", "lock", "publish"}, id : IDs,
           res : ResultSet \cup {NoResult}, hold : {0, ApduTimeout}, tx : Owner]

\* Type invariant of the transaction manager, the callers and the agents.
TypeOK ==
  /\ pc \in [Requests -> PCs]
  /\ id \in [Requests -> IDs]
  /\ outcome \in [Requests -> ResultSet \cup {NoResult}]
  /\ tx \in [Requests -> TxSet]
  /\ inUse \in [IDs -> Owner]
  /\ reserved \subseteq IDs
  /\ quarantine \in [IDs -> 0 .. ApduTimeout]
  /\ nextID \in IDs
  /\ seg \in [IDs -> [tx : Owner, timer : Timer(SegTimeout), count : 0 .. MaxSegs]]
  /\ sendActive \in [IDs -> Owner]
  /\ snd \in [Requests -> [ack : BOOLEAN, timer : Timer(SegTimeout),
                           rounds : 0 .. MaxRounds]]
  /\ fin \in [Agents -> FinSet]
  /\ rx \in [kind : SegmentKinds \cup {"none"}, id : IDs, from : Owner]
  /\ closer \in [step : {"open", "closed", "publishing", "done"},
                 pending : SUBSET Requests]
  /\ wire \in [Requests -> 0 .. AnswerLife]
  /\ sends \in [Requests -> Nat]
  /\ bare \subseteq IDs

\* An invoke ID belongs to one request at a time: an ID that is reserved has no
\* transaction in use, so register never overwrites one, and two callers never
\* hold the same reservation (tryAllocLocked, register).
IDsExclusive ==
  /\ \A i \in reserved : inUse[i] = NoReq
  /\ \A r \in Requests : pc[r] = "reserved" => id[r] \in reserved
  /\ \A r, q \in Requests :
       pc[r] = "reserved" /\ pc[q] = "reserved" /\ id[r] = id[q] => r = q

\* Somebody took r's transaction and has not yet published its result.
Owed(r) ==
  \/ \E a \in Agents : fin[a].step = "publish" /\ fin[a].tx = r
  \/ r \in closer.pending

\* A transaction's result is published into an empty channel, by exactly one
\* goroutine: the non-blocking send of complete and abortAll never drops it.
PublishedOnce ==
  \A r \in Requests : Owed(r) => tx[r].result = NoResult

\* The loser of a race to end a request, which waits for the result with no
\* timeout and no cancellation (res := <-tx.result), never waits in vain: the
\* result is there, or the goroutine that took the transaction will publish it.
LoserIsWoken ==
  \A r \in Requests : pc[r] = "lost" => tx[r].result # NoResult \/ Owed(r)

\* An answer is delivered to the request the peer was answering, not to a later
\* one that reuses its invoke ID, as long as the ID was never released without
\* quarantine.
AnswerIsOwn ==
  \A r \in Requests :
    outcome[r].kind \in {"ack", "refusal"} =>
      outcome[r].from = r \/ id[r] \in bare

\* A request that is not repeatable is transmitted at most once, a repeatable
\* one at most 1 + RetryCount times (API.md: a write is sent once); and a write
\* that was transmitted and ends with no answer by timeout, cancellation or a
\* send failure, on an open client, ends outcome-unknown (ERRORS.md).  Once the
\* client is closed abortAll has freed the invoke IDs, and a timeout may spend
\* the retries of the next owner of its ID: then a repeatable request may be
\* repeated more often, one that is not repeatable still is not.
SentOnceOrUnknown ==
  /\ \A r \in Requests :
       \/ sends[r] <= 1 + (IF r \in Repeatable THEN RetryCount ELSE 0)
       \/ r \in Repeatable /\ Closed
  /\ \A r \in Writes :
       tx[r].sent /\ outcome[r].kind \in {"timeout", "cancelled", "sendFailed",
                                          "sendStalled"}
         => outcome[r].unknown \/ Closed

\* Every call returns: whatever the peer does, and whether or not the caller's
\* context ends or the client is closed.  An ID released without quarantine is
\* excepted while the client is open: the cleanup of its former owner can take
\* away the reassembly, and so the watchdog, of its next one.
EveryRequestEnds ==
  \A r \in Requests :
    pc[r] # "idle" ~> pc[r] = "done" \/ (bare # {} /\ ~Closed)
=============================================================================
