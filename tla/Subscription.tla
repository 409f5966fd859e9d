---------------------------- MODULE Subscription ----------------------------
(***************************************************************************)
(* A COV subscription of the client (client/cov.go): the call that starts  *)
(* it, its renewal loop, the receive loop that delivers notifications,     *)
(* Subscription.Close and the closeAll of Client.Close, all goroutines of  *)
(* their own that meet in the subscription's state word, its once and its  *)
(* bounded event queue.                                                    *)
(*                                                                         *)
(* A request is a datagram on the way to the device; it is handled in the  *)
(* order sent or lost, and its issuer hears of it or gives up at any time  *)
(* (timeout, context, client closed).  The kinds of subscription (object,  *)
(* property, multiple) differ in the request only.                         *)
(***************************************************************************)
EXTENDS Integers, Sequences

CONSTANTS
  Capacity,   \* BufferSize
  MaxNotes,   \* bound on notifications received
  MaxRenewals \* bound on renewals

\* BufferSize is never negative.
ASSUME SubscriptionAssumption == Capacity \in Nat

Issuers == {"start", "renew", "close"}

VARIABLES
  clientClosed,  \* Client.closed and closeCh
  state,         \* subscription.state
  registered,    \* in subscriptionManager.byID
  cancelled,     \* subCtx
  done,          \* the channel done is closed
  once,          \* closeOnce: "free", its owner, "over"
  queue,         \* events: each a kind and Gap
  chClosed,      \* subscription.closed, and the channel events is closed
  gapPending,
  start, renew, close, clientClose,  \* program counters of the goroutines
  recv,          \* notification looked up but not sent to the queue
  wire,          \* requests on their way to the device
  answer,        \* outcome of each issuer's request
  lastRead,      \* kind of the last event the application read
  notes, renewals

queueVars == <<queue, chClosed, gapPending>>
budget == <<notes, renewals>>
subVars == <<state, registered, cancelled, done, once, queueVars, start, renew, close,
             clientClose, recv, wire, answer, lastRead, budget>>
allSub == <<clientClosed, subVars>>

SubInit ==
  /\ state = "pending" /\ registered = FALSE /\ cancelled = FALSE /\ done = FALSE
  /\ once = "free" /\ queue = <<>> /\ chClosed = FALSE /\ gapPending = FALSE
  /\ start \in {"idle", "unused"} /\ renew = "none" /\ close = "idle" /\ clientClose = "idle"
  /\ recv = FALSE /\ wire = <<>> /\ answer = [i \in Issuers |-> "none"]
  /\ lastRead = "none" /\ notes = 0 /\ renewals = 0

(***************************************************************************)
(* The event queue: Capacity slots for events and one for Closed.          *)
(***************************************************************************)
FullUnreserved(kind) == Len(queue) >= Capacity + 1

Full(kind) == IF kind = "closed" THEN Len(queue) >= Capacity + 1 ELSE Len(queue) >= Capacity

\* send leaves the state word s (as the caller's step has it) alone, except
\* that a dropped event degrades it.
send(kind, s) ==
  IF chClosed \/ (s = "closed" /\ kind # "closed")
  THEN UNCHANGED queueVars /\ state' = s
  ELSE /\ queue' = IF Full(kind) THEN queue
                   ELSE Append(queue, [kind |-> kind, gap |-> gapPending /\ kind # "closed"])
       /\ gapPending' = IF kind = "closed" THEN gapPending ELSE Full(kind)
       /\ chClosed' = (kind = "closed")
       /\ state' = IF kind # "closed" /\ Full(kind) THEN "degraded" ELSE s

\* The application reads, at its leisure.
Read ==
  /\ queue # <<>>
  /\ queue' = Tail(queue) /\ lastRead' = Head(queue).kind
  /\ UNCHANGED <<clientClosed, state, registered, cancelled, done, once, chClosed,
                 gapPending, start, renew, close, clientClose, recv, wire, answer, budget>>

(***************************************************************************)
(* issue: a request is sent unless the client is closed or the context has *)
(* ended; the device or the network answers, or the issuer gives up.       *)
(***************************************************************************)
transmit(i) ==
  /\ answer' = [answer EXCEPT ![i] = "waiting"] /\ wire' = Append(wire, [by |-> i])

issue(i) ==
  IF clientClosed THEN answer' = [answer EXCEPT ![i] = "error"] /\ UNCHANGED wire
                  ELSE transmit(i)

Device ==
  /\ wire # <<>>
  /\ wire' = Tail(wire)
  /\ LET i == Head(wire).by IN
     \E a \in {"none", "ok", "error"} :  \* lost, accepted, refused
       answer' = IF i # "gone" /\ a # "none" THEN [answer EXCEPT ![i] = a] ELSE answer
  /\ UNCHANGED <<clientClosed, state, registered, cancelled, done, once, queueVars, start,
                 renew, close, clientClose, recv, lastRead, budget>>

GiveUp(i) ==
  /\ answer[i] = "waiting"
  /\ answer' = [answer EXCEPT ![i] = "error"]
  /\ wire' = [n \in DOMAIN wire |-> IF wire[n].by = i THEN [wire[n] EXCEPT !.by = "gone"]
                                                       ELSE wire[n]]
  /\ UNCHANGED <<clientClosed, state, registered, cancelled, done, once, queueVars, start,
                 renew, close, clientClose, recv, lastRead, budget>>

(***************************************************************************)
(* startSubscription.                                                      *)
(***************************************************************************)
Subscribe ==
  /\ start = "idle"
  /\ registered' = TRUE /\ issue("start") /\ start' = "issued"
  /\ UNCHANGED <<clientClosed, state, cancelled, done, once, queueVars, renew, close,
                 clientClose, recv, lastRead, budget>>

failOpen == UNCHANGED <<done, chClosed>>

fail == done' = TRUE /\ chClosed' = TRUE

SubscribeFailed ==
  /\ start = "issued" /\ answer["start"] = "error"
  /\ registered' = FALSE /\ cancelled' = TRUE /\ fail
  /\ start' = "failed"
  /\ UNCHANGED <<clientClosed, state, once, queue, gapPending, renew, close, clientClose,
                 recv, wire, answer, lastRead, budget>>

SubscribeStored ==
  /\ start = "issued" /\ answer["start"] = "ok"
  /\ state' = "active" /\ start' = "stored"
  /\ UNCHANGED <<clientClosed, registered, cancelled, done, once, queueVars, renew, close,
                 clientClose, recv, wire, answer, lastRead, budget>>

SubscribeStarted ==
  /\ start = "stored"
  /\ send("active", state)
  /\ renew' = "wait" /\ start' = "ok"
  /\ UNCHANGED <<clientClosed, registered, cancelled, done, once, close, clientClose, recv,
                 wire, answer, lastRead, budget>>

(***************************************************************************)
(* renewLoop.  Each step reads the state word again, since Close swaps it  *)
(* at any time.                                                            *)
(***************************************************************************)
RenewEnds ==
  /\ renew = "wait" /\ (cancelled \/ clientClosed)
  /\ renew' = "ended" /\ done' = TRUE
  /\ UNCHANGED <<clientClosed, state, registered, cancelled, once, queueVars, start, close,
                 clientClose, recv, wire, answer, lastRead, budget>>

RenewDue ==
  /\ renew = "wait" /\ renewals < MaxRenewals
  /\ renewals' = renewals + 1
  /\ IF state = "closed" THEN renew' = "ended" /\ done' = TRUE /\ UNCHANGED state
     ELSE renew' = "announce" /\ state' = "renewing" /\ UNCHANGED done
  /\ UNCHANGED <<clientClosed, registered, cancelled, once, queueVars, start, close,
                 clientClose, recv, wire, answer, lastRead, notes>>

RenewAnnounced ==
  /\ renew = "announce"
  /\ send("renewing", state) /\ renew' = "issue"
  /\ UNCHANGED <<clientClosed, registered, cancelled, done, once, start, close, clientClose,
                 recv, wire, answer, lastRead, budget>>

\* The context is looked at before the datagram is written, not together
\* with it.
RenewIssued ==
  /\ \/ /\ renew = "issue"
        /\ IF cancelled \/ clientClosed
           THEN answer' = [answer EXCEPT !["renew"] = "error"] /\ renew' = "issued"
           ELSE renew' = "transmit" /\ UNCHANGED answer
        /\ UNCHANGED wire
     \/ renew = "transmit" /\ transmit("renew") /\ renew' = "issued"
  /\ UNCHANGED <<clientClosed, state, registered, cancelled, done, once, queueVars, start,
                 close, clientClose, recv, lastRead, budget>>

RenewAnswered ==
  /\ renew = "issued" /\ answer["renew"] \in {"ok", "error"}
  /\ IF state = "closed" THEN renew' = "ended" /\ done' = TRUE /\ UNCHANGED state
     ELSE /\ state' = IF answer["renew"] = "ok" THEN "active" ELSE "degraded"
          /\ renew' = "report" /\ UNCHANGED done
  /\ UNCHANGED <<clientClosed, registered, cancelled, once, queueVars, start, close,
                 clientClose, recv, wire, answer, lastRead, budget>>

RenewReported ==
  /\ renew = "report"
  /\ send(IF answer["renew"] = "ok" THEN "active" ELSE "degraded", state)
  /\ renew' = "wait"
  /\ UNCHANGED <<clientClosed, registered, cancelled, done, once, start, close, clientClose,
                 recv, wire, answer, lastRead, budget>>

Renew == RenewEnds \/ RenewAnnounced \/ RenewIssued \/ RenewAnswered \/ RenewReported

(***************************************************************************)
(* deliver: the subscription is looked up under one lock and sent to under *)
(* another.                                                                *)
(***************************************************************************)
Lookup ==
  /\ ~recv /\ registered /\ ~clientClosed /\ notes < MaxNotes
  /\ recv' = TRUE /\ notes' = notes + 1
  /\ UNCHANGED <<clientClosed, state, registered, cancelled, done, once, queueVars, start,
                 renew, close, clientClose, wire, answer, lastRead, renewals>>

Deliver ==
  /\ recv /\ send("note", state) /\ recv' = FALSE
  /\ UNCHANGED <<clientClosed, registered, cancelled, done, once, start, renew, close,
                 clientClose, wire, answer, lastRead, budget>>

(***************************************************************************)
(* Subscription.Close; a second Close, or closeAll, waits for the first.   *)
(***************************************************************************)
CloseEnter ==
  /\ close = "idle" /\ start = "ok"
  /\ \/ /\ once = "free" /\ state' = "closed"
        /\ IF state = "closed" THEN once' = "over" /\ close' = "returned"
           ELSE once' = "close" /\ close' = "swapped"
     \/ once # "free" /\ close' = "waiting" /\ UNCHANGED <<once, state>>
  /\ UNCHANGED <<clientClosed, registered, cancelled, done, queueVars, start, renew,
                 clientClose, recv, wire, answer, lastRead, budget>>

CloseIssue ==
  /\ close = "swapped"
  /\ cancelled' = TRUE /\ registered' = FALSE
  /\ issue("close") /\ close' = "issued"
  /\ UNCHANGED <<clientClosed, state, done, once, queueVars, start, renew, clientClose, recv,
                 lastRead, budget>>

awaitNothing == TRUE

\* Both ways of closing wait for the renewal loop to end.
awaitDone == done

CloseReturns ==
  /\ \/ /\ close = "issued" /\ answer["close"] \in {"ok", "error"} /\ awaitDone
        /\ send("closed", state) /\ once' = "over"
     \/ close = "waiting" /\ once = "over" /\ UNCHANGED <<queueVars, state, once>>
  /\ close' = "returned"
  /\ UNCHANGED <<clientClosed, registered, cancelled, done, start, renew, clientClose, recv,
                 wire, answer, lastRead, budget>>

(***************************************************************************)
(* Client.Close: closeCh, then closeAll on the subscriptions registered.   *)
(***************************************************************************)
ClientClose ==
  /\ clientClose = "idle" /\ ~clientClosed
  /\ clientClosed' = TRUE /\ clientClose' = "closing"
  /\ UNCHANGED <<state, registered, cancelled, done, once, queueVars, start, renew, close,
                 recv, wire, answer, lastRead, budget>>

CloseAll ==
  /\ clientClose = "closing"
  /\ registered' = FALSE
  /\ clientClose' = IF registered THEN "taken" ELSE "subsClosed"
  /\ UNCHANGED <<clientClosed, state, cancelled, done, once, queueVars, start, renew, close,
                 recv, wire, answer, lastRead, budget>>

CloseAllEnter ==
  /\ clientClose = "taken"
  /\ IF once = "free"
     THEN once' = "closeAll" /\ state' = "closed" /\ cancelled' = TRUE /\ clientClose' = "stored"
     ELSE clientClose' = "waiting" /\ UNCHANGED <<once, state, cancelled>>
  /\ UNCHANGED <<clientClosed, registered, done, queueVars, start, renew, close, recv, wire,
                 answer, lastRead, budget>>

CloseAllReturns ==
  /\ \/ /\ clientClose = "stored" /\ awaitDone
        /\ send("closed", state) /\ once' = "over"
     \/ clientClose = "waiting" /\ once = "over" /\ UNCHANGED <<queueVars, state, once>>
  /\ clientClose' = "subsClosed"
  /\ UNCHANGED <<clientClosed, registered, cancelled, done, start, renew, close, recv, wire,
                 answer, lastRead, budget>>

Used == start \notin {"idle", "unused"}
Starting == Subscribe \/ SubscribeFailed \/ SubscribeStored \/ SubscribeStarted
Closing == CloseIssue \/ CloseReturns
ClosingAll == CloseAll \/ CloseAllEnter \/ CloseAllReturns

SubNext ==
  \/ Read \/ Device \/ (\E i \in Issuers : GiveUp(i))
  \/ Subscribe \/ SubscribeFailed \/ SubscribeStored \/ SubscribeStarted
  \/ RenewDue \/ RenewEnds \/ RenewAnnounced \/ RenewIssued \/ RenewAnswered \/ RenewReported
  \/ Lookup \/ Deliver
  \/ CloseEnter \/ CloseIssue \/ CloseReturns
  \/ ClientClose \/ CloseAll \/ CloseAllEnter \/ CloseAllReturns

\* Goroutines run on, and a request ends by its timeout if nothing else ends
\* it.  Neither the device nor the application's reader need do anything.
SubFairness ==
  /\ WF_allSub(Starting /\ Used) /\ WF_allSub(Renew) /\ WF_allSub(Deliver)
  /\ WF_allSub(Closing) /\ WF_allSub(ClosingAll)
  /\ \A i \in Issuers : WF_allSub(GiveUp(i))

(***************************************************************************)
(* Properties.                                                             *)
(***************************************************************************)

\* The event stream of a subscription that was started ends with Closed:
\* the last slot is kept for it however far the reader is behind.
EndsWithClosed ==
  chClosed /\ start # "failed" =>
    IF queue = <<>> THEN lastRead = "closed" ELSE queue[Len(queue)].kind = "closed"
=============================================================================
