---------------------------- MODULE EventDelivery ----------------------------
(***************************************************************************)
(* Event notifications in the client: the stream OpenEventStream installs  *)
(* (client/event_stream.go), the asynchronous dispatcher                   *)
(* (client/event_dispatcher.go), and the receive loop that hands each      *)
(* notification to both (client/event.go), next to the subscriptions of    *)
(* the same client: Client.Close ends the subscriptions and then waits for *)
(* the dispatcher's workers.  A handler is the application's; it returns.  *)
(***************************************************************************)
EXTENDS Subscription, FiniteSets

CONSTANTS
  Streams,       \* streams opened one after the other, 1..n
  StreamSize,    \* bufferSize
  DispatchSize,  \* BufferSize of the dispatcher
  DropOldest,    \* its Overflow policy
  MaxEvents      \* bound on event notifications received

\* Streams are numbered in the order they are opened; the bounds are numbers.
ASSUME DeliveryAssumption ==
  Streams \subseteq Nat \ {0} /\ StreamSize \in Nat /\ DispatchSize \in Nat /\ MaxEvents \in Nat

Nothing == 0

VARIABLES
  current,     \* Client.eventStream
  opened,      \* streams opened so far
  replaced,    \* stream OpenEventStream has replaced and has to close
  buf, closed, gap, seq,  \* of each stream
  read,        \* Sequence the application read last from each stream
  pickup,      \* receive loop: what is still to be handed the notification
  overflow,    \* it found the dispatcher's queue full and holds its lock
  dbuf, dclosed, worker,  \* dispatcher: queue, closed, notification in the handler
  handled,     \* notification the handler was called with last (history)
  dispatcherClose,
  events

streamVars == <<current, opened, replaced, buf, closed, gap, seq, read>>
dispatchVars == <<overflow, dbuf, dclosed, worker, handled, dispatcherClose>>
evVars == <<streamVars, pickup, dispatchVars, events>>
deliveryVars == <<allSub, evVars>>

DeliveryInit ==
  /\ clientClosed = FALSE /\ SubInit
  /\ current = Nothing /\ replaced = Nothing
  /\ buf = [k \in Streams |-> <<>>] /\ closed = [k \in Streams |-> FALSE]
  /\ gap = [k \in Streams |-> FALSE] /\ seq = [k \in Streams |-> 0]
  /\ read = [k \in Streams |-> 0]
  /\ pickup = <<>> /\ overflow = FALSE /\ dbuf = <<>> /\ dclosed = FALSE /\ worker = Nothing
  /\ handled = Nothing /\ dispatcherClose = "idle"
  /\ IF start = "unused" THEN events = 0 /\ opened = 0  \* one or the other in use
     ELSE events = MaxEvents /\ opened = Cardinality(Streams)

(***************************************************************************)
(* The stream.  publish uses all of the channel's StreamSize + 1 slots;    *)
(* Close makes room for Closed by dropping the oldest event.               *)
(***************************************************************************)
publishUnmarked(k) ==
  IF closed[k] THEN UNCHANGED <<buf, gap, seq>>
  ELSE /\ seq' = [seq EXCEPT ![k] = @ + 1]
       /\ IF Len(buf[k]) <= StreamSize
          THEN /\ buf' = [buf EXCEPT ![k] = Append(@, [seq |-> seq[k] + 1, gap |-> FALSE])]
               /\ gap' = [gap EXCEPT ![k] = FALSE]
          ELSE gap' = [gap EXCEPT ![k] = TRUE] /\ UNCHANGED buf

publish(k) ==
  IF closed[k] THEN UNCHANGED <<buf, gap, seq>>
  ELSE /\ seq' = [seq EXCEPT ![k] = @ + 1]
       /\ IF Len(buf[k]) <= StreamSize
          THEN /\ buf' = [buf EXCEPT ![k] = Append(@, [seq |-> seq[k] + 1, gap |-> gap[k]])]
               /\ gap' = [gap EXCEPT ![k] = FALSE]
          ELSE gap' = [gap EXCEPT ![k] = TRUE] /\ UNCHANGED buf

Close(k) ==
  LET full == Len(buf[k]) > StreamSize
      n == seq[k] + IF full THEN 2 ELSE 1
  IN /\ closed' = [closed EXCEPT ![k] = TRUE]
     /\ seq' = [seq EXCEPT ![k] = n]
     /\ buf' = [buf EXCEPT ![k] = Append(IF full THEN Tail(@) ELSE @, [seq |-> n, gap |-> FALSE])]

OpenEventStream ==
  /\ opened + 1 \in Streams /\ replaced = Nothing
  /\ opened' = opened + 1 /\ current' = opened + 1 /\ replaced' = current
  /\ UNCHANGED <<allSub, buf, closed, gap, seq, read, pickup, dispatchVars, events>>

\* A stream is closed once, by the application or because it was replaced,
\* and then uninstalled if it is still the current one.
CloseStream(k) ==
  /\ ~closed[k] /\ (k = current \/ k = replaced)
  /\ Close(k)
  /\ UNCHANGED <<allSub, current, opened, replaced, gap, read, pickup, dispatchVars, events>>

Uninstall(k) ==
  /\ closed[k] /\ (k = current \/ k = replaced)
  /\ current' = IF current = k THEN Nothing ELSE current
  /\ replaced' = IF replaced = k THEN Nothing ELSE replaced
  /\ UNCHANGED <<allSub, opened, buf, closed, gap, seq, read, pickup, dispatchVars, events>>

ReadStream(k) ==
  /\ buf[k] # <<>>
  /\ buf' = [buf EXCEPT ![k] = Tail(@)] /\ read' = [read EXCEPT ![k] = Head(buf[k]).seq]
  /\ UNCHANGED <<allSub, current, opened, replaced, closed, gap, seq, pickup, dispatchVars,
                 events>>

(***************************************************************************)
(* deliverEventNotification: the stream is picked under eventMu, then the  *)
(* notification goes to the stream and to the dispatcher.                  *)
(***************************************************************************)
Arrive ==
  /\ pickup = <<>> /\ ~recv /\ ~clientClosed /\ events < MaxEvents
  /\ events' = events + 1 /\ pickup' = <<current, events + 1>>
  /\ UNCHANGED <<allSub, streamVars, dispatchVars>>

ToStream ==
  /\ Len(pickup) = 2
  /\ IF Head(pickup) = Nothing THEN UNCHANGED <<buf, gap, seq>> ELSE publish(Head(pickup))
  /\ pickup' = Tail(pickup)
  /\ UNCHANGED <<allSub, current, opened, replaced, closed, read, dispatchVars, events>>

\* eventDispatcher.publish: a send that does not block, and the policy when
\* the queue was full; the worker may take from it in between.
ToDispatcher ==
  /\ Len(pickup) = 1 /\ ~overflow
  /\ IF ~dclosed /\ Len(dbuf) >= DispatchSize
     THEN overflow' = TRUE /\ UNCHANGED <<pickup, dbuf>>
     ELSE /\ dbuf' = IF dclosed THEN dbuf ELSE Append(dbuf, Head(pickup))
          /\ pickup' = <<>> /\ UNCHANGED overflow
  /\ UNCHANGED <<allSub, streamVars, dclosed, worker, handled, dispatcherClose, events>>

DispatchOverflow ==
  /\ overflow /\ overflow' = FALSE /\ pickup' = <<>>
  /\ dbuf' = IF ~DropOldest THEN dbuf
             ELSE Append(IF dbuf = <<>> THEN dbuf ELSE Tail(dbuf), Head(pickup))
  /\ UNCHANGED <<allSub, streamVars, dclosed, worker, handled, dispatcherClose, events>>

(***************************************************************************)
(* The dispatcher's worker, and the end of Client.Close, which waits for   *)
(* the worker and for the renewal loops.                                   *)
(***************************************************************************)
Work ==
  /\ \/ /\ worker = Nothing /\ dbuf # <<>>
        /\ worker' = Head(dbuf) /\ dbuf' = Tail(dbuf) /\ handled' = Head(dbuf)
     \/ worker # Nothing /\ worker' = Nothing /\ UNCHANGED <<dbuf, handled>>  \* the handler returns
  /\ UNCHANGED <<allSub, streamVars, pickup, overflow, dclosed, dispatcherClose, events>>

DispatcherClose ==
  /\ \/ /\ dispatcherClose = "idle" /\ clientClose = "subsClosed" /\ ~overflow
        /\ dclosed' = TRUE /\ dispatcherClose' = "waiting"
     \/ /\ dispatcherClose = "waiting" /\ dbuf = <<>> /\ worker = Nothing
        /\ renew \in {"none", "ended"}  \* Client.wg
        /\ dispatcherClose' = "returned" /\ UNCHANGED dclosed
  /\ UNCHANGED <<allSub, streamVars, pickup, overflow, dbuf, worker, handled, events>>

DeliveryNext ==
  \/ SubNext /\ UNCHANGED evVars
  \/ OpenEventStream
  \/ \E k \in Streams : CloseStream(k)
  \/ \E k \in Streams : Uninstall(k)
  \/ \E k \in Streams : ReadStream(k)
  \/ Arrive \/ ToStream \/ ToDispatcher \/ DispatchOverflow \/ Work \/ DispatcherClose

\* The client's goroutines, the receive loop and the worker run on.
DeliveryFairness ==
  /\ SubFairness
  /\ WF_deliveryVars(ToStream) /\ WF_deliveryVars(ToDispatcher)
  /\ WF_deliveryVars(DispatchOverflow) /\ WF_deliveryVars(Work)
  /\ WF_deliveryVars(DispatcherClose)

DeliverySpec == DeliveryInit /\ [][DeliveryNext]_deliveryVars /\ DeliveryFairness

(***************************************************************************)
(* Properties.                                                             *)
(***************************************************************************)

\* Close and Client.Close return, and the event stream ends, whatever the
\* device, the network and the application's reader do and whichever
\* goroutine reaches the subscription first.
ClosesReturn ==
  /\ close # "idle" ~> close = "returned" /\ chClosed
  /\ clientClose # "idle" ~> dispatcherClose = "returned"
  /\ clientClosed /\ Used ~> chClosed

\* Once Close or Client.Close has returned, nothing of the subscription is
\* sent any more: no renewal that was under way follows the cancellation.
QuietAfterClose ==
  [][close = "returned" \/ (dispatcherClose = "returned" /\ Used)
       => Len(wire') <= Len(wire)]_deliveryVars

\* As long as a stream is open its reader sees Gap exactly on the events
\* whose Sequence does not follow that of the event before, however
\* publishing, reading and the replacement of the stream interleave.
GapIsSkip ==
  \A k \in Streams : ~closed[k] =>
    \A i \in DOMAIN buf[k] :
      buf[k][i].gap <=> buf[k][i].seq # 1 + IF i = 1 THEN read[k] ELSE buf[k][i - 1].seq

\* Under the drop-oldest policy the last notification received is not the
\* one that is lost, and the single worker hands the handler what it gets
\* in the order received.
NewestIsHandled ==
  LET q == <<handled>> \o dbuf IN
  /\ \A i, j \in DOMAIN q : i < j => q[i] < q[j]
  /\ DropOldest /\ pickup = <<>> /\ start = "unused" /\ ~dclosed => q[Len(q)] = events

\* What the application gets of the received events, through the stream and
\* through the handler, is in order, and what it does not get is announced by
\* Gap or is older than the newest (eventStream.publish, eventDispatcher.publish).
LossIsAnnounced == GapIsSkip /\ NewestIsHandled
=============================================================================
